---------------------------- MODULE ServerProofs ----------------------------
(***************************************************************************)
(* What the supervisor keeps for every number of connections and process    *)
(* slots: its types, a handler that never blocks where nobody uses job      *)
(* control, sessions that hold only their own connection, a vector that     *)
(* lists every session until it is told to erase clients.end(), a loop of   *)
(* server_stop() that reaches all of them, and client connections that are  *)
(* treated as Connections promises.                                         *)
(***************************************************************************)
EXTENDS Server, SequenceTheorems, TLAPS

(* The vector without its last element is still a vector of pids: the        *)
(* effect of the vector erase the server applies to the wrong end.           *)
LEMMA FrontInSeq ==
  ASSUME NEW S, NEW s \in Seq(S)
  PROVE  Front(s) \in Seq(S)
BY DEF Front

(* The last element of a vector is one of its elements.                      *)
LEMMA LastInSet ==
  ASSUME NEW S, NEW s \in Seq(S), s # <<>>
  PROVE  Last(s) \in S
BY DEF Last

(* Erasing one element of the vector of pids leaves a vector of pids.        *)
LEMMA RemoveAtInSeq ==
  ASSUME NEW S, NEW s \in Seq(S), NEW i \in DOMAIN s
  PROVE  RemoveAt(s, i) \in Seq(S)
BY DEF RemoveAt

(* vector::erase() of a found pid keeps every other pid in the vector.       *)
LEMMA RemoveAtKeeps ==
  ASSUME NEW S, NEW s \in Seq(S), NEW i \in DOMAIN s, NEW x \in ToSet(s), x # s[i]
  PROVE  x \in ToSet(RemoveAt(s, i))
<1> DEFINE l == SubSeq(s, 1, i - 1)
           r == SubSeq(s, i + 1, Len(s))
<1>1. PICK k \in 1 .. Len(s) : s[k] = x
  BY DEF ToSet
<1>2. i \in 1 .. Len(s)
  OBVIOUS
<1>3. /\ l \in Seq(S) /\ Len(l) = i - 1
      /\ \A j \in 1 .. Len(l) : l[j] = s[j]
  BY <1>2
<1>4. r \in Seq(S) /\ Len(r) = Len(s) - i
  BY <1>2
<1>5. \A j \in 1 .. Len(r) : r[j] = s[i + j]
  <2>1. TAKE j \in 1 .. Len(r)
  <2>2. r[j] = s[(i + 1) + j - 1]
    BY <1>2, <1>4
  <2>3. (i + 1) + j - 1 = i + j
    BY <1>2
  <2>. QED
    BY <2>2, <2>3
<1> HIDE DEF l, r
<1>6. \E j \in 1 .. Len(l \o r) : (l \o r)[j] = x
  <2>1. CASE k < i
    BY <2>1, <1>1, <1>2, <1>3, <1>4
  <2>2. CASE k > i
    <3>1. k - i \in 1 .. Len(r) /\ r[k - i] = x
      BY <2>2, <1>1, <1>2, <1>4, <1>5
    <3>2. k - 1 \in 1 .. Len(l \o r)
      BY <2>2, <1>1, <1>2, <1>3, <1>4
    <3>3. (l \o r)[k - 1] = r[(k - 1) - Len(l)]
      BY <2>2, <1>1, <1>2, <1>3, <1>4
    <3>4. (k - 1) - Len(l) = k - i
      BY <1>1, <1>2, <1>3
    <3>. QED
      BY <3>1, <3>2, <3>3, <3>4
  <2>. QED
    BY <2>1, <2>2, <1>1, <1>2
<1>7. RemoveAt(s, i) = l \o r
  BY DEF RemoveAt, l, r
<1>8. DOMAIN (l \o r) = 1 .. Len(l \o r)
  BY <1>3, <1>4
<1>. QED
  BY <1>6, <1>7, <1>8 DEF ToSet

(* What the range-for of server_stop() still has to visit stays a sequence   *)
(* of pids when child_signal() erases an element under it.                   *)
LEMMA TailAfterEraseInSeq ==
  ASSUME TypeOK, clients # <<>>
  PROVE  TailAfterErase \in Seq(Slots)
<1>1. Last(clients) \in Slots
  BY LastInSet DEF TypeOK
<1>. QED
  BY <1>1 DEF TypeOK, TailAfterErase

(* kill() of server_stop() marks process slots only.                         *)
LEMMA KillReachesType ==
  ASSUME NEW xs
  PROVE  KillReaches(xs) \subseteq Pid \cup {Watcher}
BY DEF KillReaches, Live, LiveSessions

(* What a misdirected kill() hits is a set of the kinds of victims.          *)
LEMMA MisdirectsType ==
  ASSUME NEW xs
  PROVE  Misdirects(xs) \subseteq {"everyone", "stranger"}
BY DEF Misdirects

(* Closing the listening descriptors of a process keeps the types.           *)
LEMMA CloseListeningType ==
  ASSUME TypeOK, NEW p, CloseListening(p)
  PROVE  listeners' \subseteq Processes /\ phase' \in [Conn -> Phases]
BY DEF TypeOK, CloseListening, Phases

(* The end of a session process keeps the types.                             *)
LEMMA SessionEndsType ==
  ASSUME TypeOK, NEW p \in Pid, SessionEnds(p)
  PROVE  /\ session' \in [Pid -> SessionSt] /\ serves' \in [Pid -> Conn \cup {None}]
         /\ copy' \in [Pid -> SUBSET Slots] /\ holders' \in [Conn -> SUBSET (Processes \cup {Script})]
         /\ listeners' \subseteq Processes /\ phase' \in [Conn -> Phases]
         /\ chldPending' \in BOOLEAN
<1>1. CloseListening(p)
  BY DEF SessionEnds
<1>. QED
  BY <1>1, CloseListeningType DEF TypeOK, SessionEnds, SessionSt

(* The end of the server process keeps the types.                            *)
LEMMA ServerEndsType ==
  ASSUME TypeOK, ServerEnds, misdirected' = misdirected, overrun' \in BOOLEAN
  PROVE  TypeOK'
<1>1. CloseListening(Server)
  BY DEF ServerEnds
<1>2. session' \in [Pid -> SessionSt]
  BY DEF TypeOK, ServerEnds, SessionSt
<1>3. holders' \in [Conn -> SUBSET (Processes \cup {Script})]
  BY DEF TypeOK, ServerEnds
<1>4. watcher' \in WatcherSt
  BY DEF TypeOK, ServerEnds, WatcherSt
<1>5. /\ pc' \in MainPCs /\ proc' \in Slots /\ conn' \in Conn \cup {None}
      /\ clients' \in Seq(Slots) /\ tail' \in Seq(Slots)
      /\ running' \in {"main", "chld", "stop"}
      /\ chld' \in ChldPCs /\ reaped' \in Slots \cup {Watcher}
      /\ stop' \in StopPCs /\ next' \in Nat
  BY DEF ServerEnds, MainPCs, ChldPCs, StopPCs, Slots
<1>6. /\ chldPending' \in BOOLEAN
      /\ stopPending' \subseteq StopSignals /\ stopBlocked' \subseteq StopSignals
      /\ serves' \in [Pid -> Conn \cup {None}] /\ copy' \in [Pid -> SUBSET Slots]
      /\ suspended' \subseteq Pid /\ term' \subseteq Pid \cup {Watcher}
      /\ misdirected' \subseteq {"everyone", "stranger"}
  BY DEF TypeOK, ServerEnds
<1>. QED
  BY <1>1, <1>2, <1>3, <1>4, <1>5, <1>6, CloseListeningType DEF TypeOK

(* Every reachable state of the server has the declared types, for every     *)
(* number of process slots and connections.                                  *)
THEOREM Typing == Spec => []TypeOK
<1> USE DEF MainPCs, ChldPCs, StopPCs, SessionSt, WatcherSt, Phases, Slots, Processes,
            StopSignals
<1>1. Init => TypeOK
  <2>. SUFFICES ASSUME Init PROVE TypeOK
    OBVIOUS
  <2>1. /\ session \in [Pid -> SessionSt] /\ serves \in [Pid -> Conn \cup {None}]
        /\ copy \in [Pid -> SUBSET Slots] /\ suspended \subseteq Pid
        /\ watcher \in WatcherSt /\ term \subseteq Pid \cup {Watcher}
    BY DEF Init
  <2>2. /\ phase \in [Conn -> Phases] /\ holders \in [Conn -> SUBSET (Processes \cup {Script})]
        /\ listeners \subseteq Processes
    BY DEF Init
  <2>3. clients \in Seq(Slots) /\ tail \in Seq(Slots)
    BY DEF Init
  <2>4. /\ pc \in MainPCs /\ proc \in Slots /\ conn \in Conn \cup {None}
        /\ running \in {"main", "chld", "stop"} /\ chld \in ChldPCs
        /\ reaped \in Slots \cup {Watcher} /\ stop \in StopPCs /\ next \in Nat
    BY DEF Init
  <2>5. /\ chldPending \in BOOLEAN /\ overrun \in BOOLEAN
        /\ stopPending \subseteq StopSignals /\ stopBlocked \subseteq StopSignals
        /\ misdirected \subseteq {"everyone", "stranger"}
    BY DEF Init
  <2>. QED
    BY <2>1, <2>2, <2>3, <2>4, <2>5 DEF TypeOK
<1>2. TypeOK /\ [Next]_vars => TypeOK'
  <2>. SUFFICES ASSUME TypeOK, [Next]_vars PROVE TypeOK'
    OBVIOUS
  <2>1. CASE ForkWatcher
    BY <2>1
    DEF TypeOK, ForkWatcher, InMain, listVars, handlerVars, signalVars,
        socketVars, historyVars
  <2>2. CASE Listen
    BY <2>2
    DEF TypeOK, Listen, InMain, WatcherLives, listVars, handlerVars,
        signalVars, childVars, historyVars
  <2>3. CASE BindThrows
    BY <2>3, ServerEndsType
    DEF TypeOK, BindThrows, InMain, historyVars
  <2>4. ASSUME NEW c \in Conn, Accept(c) PROVE TypeOK'
    BY <2>4
    DEF TypeOK, Accept, InMain, listVars, handlerVars, signalVars, childVars,
        historyVars
  <2>5. ASSUME NEW c \in Conn, AcceptThrows(c) PROVE TypeOK'
    BY <2>5, ServerEndsType
    DEF TypeOK, AcceptThrows, InMain, historyVars
  <2>6. ASSUME NEW p \in Pid, Fork(p) PROVE TypeOK'
    <3>1. /\ session' \in [Pid -> SessionSt] /\ serves' \in [Pid -> Conn \cup {None}]
          /\ holders' \in [Conn -> SUBSET (Processes \cup {Script})] /\ listeners' \subseteq Processes
      BY <2>6 DEF TypeOK, Fork
    <3>2. copy' \in [Pid -> SUBSET Slots]
      BY <2>6 DEF TypeOK, Fork, ToSet
    <3>. QED
      BY <2>6, <3>1, <3>2
      DEF TypeOK, Fork, InMain, listVars, handlerVars, signalVars, historyVars
  <2>7. CASE ForkFails
    BY <2>7
    DEF TypeOK, ForkFails, InMain, listVars, handlerVars, signalVars,
        childVars, socketVars, historyVars
  <2>8. CASE PushLoad
    BY <2>8
    DEF TypeOK, PushLoad, InMain, handlerVars, signalVars, childVars,
        socketVars, historyVars
  <2>9. CASE PushStore
    BY <2>9
    DEF TypeOK, PushStore, InMain, handlerVars, signalVars, childVars,
        socketVars, historyVars
  <2>10. CASE DropConn
    BY <2>10
    DEF TypeOK, DropConn, Dropped, InMain, listVars, handlerVars, signalVars,
        childVars, historyVars
  <2>11. CASE DeliverChld
    <3>1. chld' \in ChldPCs /\ running' \in {"main", "chld", "stop"} /\ chldPending' \in BOOLEAN
      BY <2>11 DEF DeliverChld
    <3>. QED
      BY <2>11, <3>1
      DEF TypeOK, DeliverChld, mainVars, listVars, childVars, socketVars, historyVars
  <2>12. CASE Wait
    BY <2>12
    DEF TypeOK, Wait, Zombies, HasChildren, mainVars, listVars, signalVars,
        socketVars, historyVars, Live, LiveSessions, WatcherLives
  <2>13. CASE Erase
    <3>1. PICK i \in DOMAIN clients : clients' = RemoveAt(clients, i)
      BY <2>13 DEF Erase
    <3>2. clients' \in Seq(Slots) /\ clients # <<>>
      BY <3>1, RemoveAtInSeq DEF TypeOK
    <3>3. tail' \in Seq(Slots)
      BY <2>13, <3>2, TailAfterEraseInSeq DEF Erase, TypeOK
    <3>4. chld' \in ChldPCs /\ running' \in {"main", "chld", "stop"}
      BY <2>13 DEF Erase, ReturnFromChld
    <3>. QED
      BY <2>13, <3>2, <3>3, <3>4
      DEF TypeOK, Erase, mainVars, signalVars, childVars, socketVars, historyVars
  <2>14. CASE EraseEnd
    <3>1. CASE ServerEnds
      BY <2>14, <3>1, ServerEndsType DEF EraseEnd
    <3>2. CASE ~ServerEnds
      <4>1. clients' \in Seq(Slots)
        BY <2>14, <3>2, FrontInSeq DEF EraseEnd, TypeOK
      <4>2. tail' \in Seq(Slots)
        BY <2>14, <3>2, TailAfterEraseInSeq DEF EraseEnd, TypeOK
      <4>3. chld' \in ChldPCs /\ running' \in {"main", "chld", "stop"}
        BY <2>14, <3>2 DEF EraseEnd, ReturnFromChld
      <4>. QED
        BY <2>14, <3>2, <4>1, <4>2, <4>3
        DEF TypeOK, EraseEnd, mainVars, signalVars, childVars, socketVars
    <3>. QED
      BY <3>1, <3>2
  <2>15. ASSUME NEW s \in StopSignals, DeliverStop(s) PROVE TypeOK'
    BY <2>15
    DEF TypeOK, DeliverStop, mainVars, childVars, socketVars, historyVars
  <2>16. CASE KillNext
    <3> DEFINE target == {(clients \o tail)[next]}
    <3>1. term' = term \cup KillReaches(target)
          /\ misdirected' = misdirected \cup Misdirects(target) /\ next' = next + 1
      BY <2>16 DEF KillNext
    <3> HIDE DEF target
    <3>2. term' \subseteq Pid \cup {Watcher}
      BY <3>1, KillReachesType DEF TypeOK
    <3>3. misdirected' \subseteq {"everyone", "stranger"}
      BY <3>1, MisdirectsType DEF TypeOK
    <3>4. next' \in Nat
      BY <3>1 DEF TypeOK
    <3>5. UNCHANGED <<mainVars, listVars, running, chld, reaped, stop, signalVars,
                      childVars, socketVars, overrun>>
      BY <2>16 DEF KillNext
    <3>. QED
      BY <3>2, <3>3, <3>4, <3>5
      DEF TypeOK, mainVars, listVars, signalVars, childVars, socketVars
  <2>17. CASE KillDone
    BY <2>17
    DEF TypeOK, KillDone, mainVars, signalVars, childVars, socketVars,
        historyVars
  <2>18. CASE CloseServer
    BY <2>18, CloseListeningType
    DEF TypeOK, CloseServer, mainVars, listVars, signalVars, childVars,
        historyVars
  <2>19. CASE ExitServer
    BY <2>19, ServerEndsType
    DEF TypeOK, ExitServer, historyVars
  <2>20. ASSUME NEW p \in Pid, ResetSession(p) PROVE TypeOK'
    BY <2>20, CloseListeningType
    DEF TypeOK, ResetSession, Runs, mainVars, listVars, handlerVars,
        signalVars, historyVars
  <2>21. ASSUME NEW p \in Pid, SessionReturns(p) PROVE TypeOK'
    BY <2>21, SessionEndsType
    DEF TypeOK, SessionReturns, Runs, mainVars, listVars, handlerVars,
        historyVars
  <2>22. ASSUME NEW p \in Pid, SessionKilled(p) PROVE TypeOK'
    BY <2>22, SessionEndsType
    DEF TypeOK, SessionKilled, mainVars, listVars, handlerVars, historyVars
  <2>23. ASSUME NEW p \in Pid, InheritedStop(p) PROVE TypeOK'
    <3>1. term' \subseteq Pid \cup {Watcher}
      BY <2>23, KillReachesType DEF TypeOK, InheritedStop
    <3>2. misdirected' \subseteq {"everyone", "stranger"}
      BY <2>23, MisdirectsType DEF TypeOK, InheritedStop
    <3>3. stopPending' \subseteq StopSignals
      BY <2>23 DEF TypeOK, InheritedStop
    <3>. QED
      BY <2>23, <3>1, <3>2, <3>3, SessionEndsType
      DEF TypeOK, InheritedStop, mainVars, listVars, handlerVars
  <2>24. ASSUME NEW p \in Pid, Suspend(p) PROVE TypeOK'
    BY <2>24
    DEF TypeOK, Suspend, mainVars, listVars, handlerVars, socketVars,
        historyVars
  <2>25. ASSUME NEW p \in Pid, Resume(p) PROVE TypeOK'
    BY <2>25
    DEF TypeOK, Resume, mainVars, listVars, handlerVars, signalVars,
        socketVars, historyVars
  <2>26. CASE ResetWatcher
    BY <2>26
    DEF TypeOK, ResetWatcher, WatcherStep, mainVars, listVars, handlerVars,
        socketVars, historyVars
  <2>27. CASE Enter
    BY <2>27
    DEF TypeOK, Enter, WatcherStep, mainVars, listVars, handlerVars,
        socketVars, historyVars
  <2>28. CASE NotifyParent
    <3>1. stopPending' \subseteq StopSignals /\ watcher' \in WatcherSt
      BY <2>28 DEF TypeOK, NotifyParent, WatcherStep, StopSignals, WatcherSt
    <3>. QED
      BY <2>28, <3>1
      DEF TypeOK, NotifyParent, WatcherStep, mainVars, listVars, handlerVars, socketVars,
          historyVars
  <2>29. CASE WatcherEnds
    BY <2>29, CloseListeningType
    DEF TypeOK, WatcherEnds, WatcherLives, mainVars, listVars, handlerVars,
        historyVars
  <2>30. ASSUME NEW c \in Conn, Connect(c) PROVE TypeOK'
    BY <2>30
    DEF TypeOK, Connect, Queued, mainVars, listVars, handlerVars, signalVars,
        childVars, historyVars
  <2>31. ASSUME NEW c \in Conn, AbortInQueue(c) PROVE TypeOK'
    BY <2>31
    DEF TypeOK, AbortInQueue, mainVars, listVars, handlerVars, signalVars,
        childVars, historyVars
  <2>32. ASSUME NEW s \in Interrupts, Interrupt(s) PROVE TypeOK'
    BY <2>32, OperatorAssumption
    DEF TypeOK, Interrupt, Live, mainVars, listVars, handlerVars, childVars,
        socketVars, historyVars, LiveSessions, WatcherLives
  <2>33. ASSUME NEW p \in Pid, ScriptStarts(p) PROVE TypeOK'
    BY <2>33
    DEF TypeOK, ScriptStarts, mainVars, listVars, handlerVars, signalVars, childVars, historyVars
  <2>34. ASSUME NEW c \in Conn, ScriptEnds(c) PROVE TypeOK'
    BY <2>34
    DEF TypeOK, ScriptEnds, mainVars, listVars, handlerVars, signalVars, childVars, historyVars
  <2>35. CASE UNCHANGED vars
    BY <2>35
    DEF TypeOK, vars, mainVars, listVars, handlerVars, signalVars, childVars,
        socketVars, historyVars
  <2>. QED
    BY <2>1, <2>2, <2>3, <2>4, <2>5, <2>6, <2>7, <2>8, <2>9, <2>10, <2>11, <2>12,
       <2>13, <2>14, <2>15, <2>16, <2>17, <2>18, <2>19, <2>20, <2>21, <2>22, <2>23,
       <2>24, <2>25, <2>26, <2>27, <2>28, <2>29, <2>30, <2>31, <2>32, <2>33, <2>34, <2>35
    DEF Next, Main, ChildSignal, ServerStop, Session, WatcherRuns,
        Environment
<1>. QED
  BY <1>1, <1>2, PTL DEF Spec

-----------------------------------------------------------------------------
(* Every pending or running SIGCHLD is backed by a zombie of its own: the    *)
(* bit is set by an exit that leaves a zombie behind, and a run of           *)
(* child_signal() uses up one delivery and one zombie.                       *)
Backed ==
  /\ chldPending => Zombies # {}
  /\ chld = "wait" => Zombies # {}
  /\ chldPending /\ chld = "wait" => \E x, y \in Zombies : x # y
  /\ pc = "watcher" => watcher = "none"

(* The exit of a session process adds a zombie for the signal it raises.     *)
LEMMA SessionEndBacked ==
  ASSUME TypeOK, Backed, NEW p \in Pid, SessionEnds(p), session[p] # "zombie",
         chld' = chld, watcher' = watcher, pc' = pc
  PROVE  Backed'
<1>1. p \notin Zombies
  BY ProcessAssumption DEF Zombies
<1>2. Zombies \subseteq Zombies'
  BY <1>1 DEF SessionEnds, Zombies, TypeOK
<1>3. chldPending' => p \in Zombies'
  BY DEF SessionEnds, Zombies, TypeOK
<1>. QED
  BY <1>1, <1>2, <1>3 DEF Backed

(* As long as nobody uses job control, the wait(NULL) of child_signal() has  *)
(* a zombie to return: the handler never blocks the server.                  *)
THEOREM WaitNeverBlocks ==
  ASSUME JobControl = FALSE
  PROVE  Spec => []WaitFindsZombie
<1>1. Init => Backed
  BY DEF Init, Backed
<1>2. TypeOK /\ Backed /\ [Next]_vars => Backed'
  <2>. SUFFICES ASSUME TypeOK, Backed, [Next]_vars PROVE Backed'
    OBVIOUS
  <2>1. CASE ForkWatcher
    BY <2>1
    DEF Backed, Zombies, ForkWatcher, InMain, handlerVars, signalVars
  <2>2. CASE Listen
    BY <2>2
    DEF Backed, Zombies, Listen, InMain, handlerVars, signalVars, childVars
  <2>3. CASE BindThrows
    BY <2>3 DEF Backed, BindThrows, ServerEnds
  <2>4. ASSUME NEW c \in Conn, Accept(c) PROVE Backed'
    BY <2>4
    DEF Backed, Zombies, Accept, InMain, handlerVars, signalVars, childVars
  <2>5. ASSUME NEW c \in Conn, AcceptThrows(c) PROVE Backed'
    BY <2>5 DEF Backed, AcceptThrows, ServerEnds
  <2>6. ASSUME NEW p \in Pid, Fork(p) PROVE Backed'
    BY <2>6
    DEF Backed, Zombies, Fork, InMain, handlerVars, signalVars
  <2>7. CASE ForkFails
    BY <2>7
    DEF Backed, Zombies, ForkFails, InMain, handlerVars, signalVars,
        childVars
  <2>8. CASE PushLoad
    BY <2>8
    DEF Backed, Zombies, PushLoad, InMain, handlerVars, signalVars,
        childVars
  <2>9. CASE PushStore
    BY <2>9
    DEF Backed, Zombies, PushStore, InMain, handlerVars, signalVars,
        childVars
  <2>10. CASE DropConn
    BY <2>10
    DEF Backed, Zombies, DropConn, InMain, handlerVars, signalVars,
        childVars
  <2>11. CASE DeliverChld
    BY <2>11
    DEF Backed, Zombies, DeliverChld, mainVars, childVars
  <2>12. CASE Wait
    <3>1. chld' = "erase" /\ chldPending' = chldPending
          /\ (pc' = "watcher" => watcher' = "none")
      BY <2>12 DEF Wait, signalVars, mainVars, Backed
    <3>2. \A x, y \in Zombies : x # y => x \in Zombies' \/ y \in Zombies'
      BY <2>12, ProcessAssumption DEF Wait, Zombies, TypeOK
    <3>. QED
      BY <2>12, <3>1, <3>2 DEF Backed, Wait
  <2>13. CASE Erase
    BY <2>13
    DEF Backed, Zombies, Erase, ReturnFromChld, mainVars, signalVars,
        childVars
  <2>14. CASE EraseEnd
    <3>1. CASE ServerEnds
      BY <3>1 DEF Backed, ServerEnds
    <3>2. CASE ~ServerEnds
      BY <2>14, <3>2 DEF Backed, Zombies, EraseEnd, ReturnFromChld, mainVars,
             signalVars, childVars
    <3>. QED
      BY <3>1, <3>2
  <2>15. ASSUME NEW s \in StopSignals, DeliverStop(s) PROVE Backed'
    BY <2>15
    DEF Backed, Zombies, DeliverStop, mainVars, childVars
  <2>16. CASE KillNext
    BY <2>16
    DEF Backed, Zombies, KillNext, mainVars, signalVars, childVars
  <2>17. CASE KillDone
    BY <2>17
    DEF Backed, Zombies, KillDone, mainVars, signalVars, childVars
  <2>18. CASE CloseServer
    BY <2>18
    DEF Backed, Zombies, CloseServer, mainVars, signalVars, childVars
  <2>19. CASE ExitServer
    BY <2>19 DEF Backed, ExitServer, ServerEnds
  <2>20. ASSUME NEW p \in Pid, ResetSession(p) PROVE Backed'
    BY <2>20
    DEF Backed, Zombies, ResetSession, Runs, mainVars, handlerVars,
        signalVars
  <2>21. ASSUME NEW p \in Pid, SessionReturns(p) PROVE Backed'
    BY <2>21, SessionEndBacked DEF SessionReturns, handlerVars, mainVars
  <2>22. ASSUME NEW p \in Pid, SessionKilled(p) PROVE Backed'
    BY <2>22, SessionEndBacked DEF SessionKilled, handlerVars, mainVars
  <2>23. ASSUME NEW p \in Pid, InheritedStop(p) PROVE Backed'
    BY <2>23, SessionEndBacked DEF InheritedStop, handlerVars, mainVars
  <2>24. ASSUME NEW p \in Pid, Suspend(p) PROVE Backed'
    BY <2>24 DEF Suspend
  <2>25. ASSUME NEW p \in Pid, Resume(p) PROVE Backed'
    BY <2>25
    DEF Backed, Zombies, Resume, mainVars, handlerVars, signalVars
  <2>26. CASE ResetWatcher
    BY <2>26
    DEF Backed, Zombies, ResetWatcher, WatcherStep, mainVars, handlerVars
  <2>27. CASE Enter
    BY <2>27
    DEF Backed, Zombies, Enter, WatcherStep, mainVars, handlerVars
  <2>28. CASE NotifyParent
    BY <2>28
    DEF Backed, Zombies, NotifyParent, WatcherStep, mainVars, handlerVars
  <2>29. CASE WatcherEnds
    <3>1. Watcher \notin Zombies
      BY <2>29, ProcessAssumption DEF WatcherEnds, WatcherLives, Zombies
    <3>2. Zombies \subseteq Zombies'
      BY <2>29, <3>1 DEF WatcherEnds, Zombies
    <3>3. chldPending' => Watcher \in Zombies'
      BY <2>29 DEF WatcherEnds, Zombies
    <3>4. chld' = chld /\ pc' = pc /\ watcher # "none"
      BY <2>29 DEF WatcherEnds, WatcherLives, handlerVars, mainVars
    <3>. QED
      BY <3>1, <3>2, <3>3, <3>4 DEF Backed
  <2>30. ASSUME NEW c \in Conn, Connect(c) PROVE Backed'
    BY <2>30
    DEF Backed, Zombies, Connect, mainVars, handlerVars, signalVars,
        childVars
  <2>31. ASSUME NEW c \in Conn, AbortInQueue(c) PROVE Backed'
    BY <2>31
    DEF Backed, Zombies, AbortInQueue, mainVars, handlerVars, signalVars,
        childVars
  <2>32. ASSUME NEW s \in Interrupts, Interrupt(s) PROVE Backed'
    BY <2>32
    DEF Backed, Zombies, Interrupt, mainVars, handlerVars, childVars
  <2>33. ASSUME NEW p \in Pid, ScriptStarts(p) PROVE Backed'
    BY <2>33
    DEF Backed, Zombies, ScriptStarts, mainVars, handlerVars, signalVars, childVars
  <2>34. ASSUME NEW c \in Conn, ScriptEnds(c) PROVE Backed'
    BY <2>34
    DEF Backed, Zombies, ScriptEnds, mainVars, handlerVars, signalVars, childVars
  <2>35. CASE UNCHANGED vars
    BY <2>35
    DEF Backed, Zombies, vars, mainVars, handlerVars, signalVars, childVars
  <2>. QED
    BY <2>1, <2>2, <2>3, <2>4, <2>5, <2>6, <2>7, <2>8, <2>9, <2>10, <2>11,
       <2>12, <2>13, <2>14, <2>15, <2>16, <2>17, <2>18, <2>19, <2>20, <2>21,
       <2>22, <2>23, <2>24, <2>25, <2>26, <2>27, <2>28, <2>29, <2>30, <2>31,
       <2>32, <2>33, <2>34, <2>35
    DEF Next, Main, ChildSignal, ServerStop, Session, WatcherRuns,
        Environment
<1>3. Backed => WaitFindsZombie
  BY DEF Backed, WaitFindsZombie
<1>. QED
  BY <1>1, <1>2, <1>3, Typing, PTL DEF Spec

-----------------------------------------------------------------------------
(* Who may have a connection open: the session process forked for it, while  *)
(* it lives, and the server for the one it has not dropped yet.              *)
Isolated ==
  /\ \A p \in Pid, c \in Conn : p \in holders[c] =>
       serves[p] = c /\ session[p] \in {"forked", "serving"}
  /\ \A c \in Conn : Server \in holders[c] => conn = c
  /\ pc \in {"watcher", "listen", "accept"} => conn = None

(* The end of a session process keeps every connection apart.                *)
LEMMA SessionEndIsolated ==
  ASSUME TypeOK, Isolated, NEW p \in Pid, SessionEnds(p), pc' = pc, conn' = conn
  PROVE  Isolated'
<1>1. /\ \A c \in Conn : p \notin holders'[c] /\ holders'[c] \subseteq holders[c]
      /\ \A q \in Pid \ {p} : session'[q] = session[q] /\ serves'[q] = serves[q]
  BY DEF SessionEnds, TypeOK
<1>. QED
  BY <1>1 DEF Isolated

(* The end of the server keeps every connection apart.                       *)
LEMMA ServerEndIsolated ==
  ASSUME TypeOK, Isolated, ServerEnds
  PROVE  Isolated'
<1>1. \A c \in Conn : Server \notin holders'[c] /\ holders'[c] \subseteq holders[c]
  BY DEF ServerEnds
<1>2. \A q \in Pid : session[q] \in {"forked", "serving"} => session'[q] = session[q]
  BY DEF ServerEnds, TypeOK
<1>3. serves' = serves /\ pc' = "dead"
  BY DEF ServerEnds
<1>. QED
  BY <1>1, <1>2, <1>3 DEF Isolated

LEMMA IsolatedAlways == Spec => []Isolated
<1>1. Init => Isolated
  BY DEF Init, Isolated
<1>2. TypeOK /\ Isolated /\ [Next]_vars => Isolated'
  <2>. SUFFICES ASSUME TypeOK, Isolated, [Next]_vars PROVE Isolated'
    OBVIOUS
  <2>1. CASE ForkWatcher
    BY <2>1
    DEF Isolated, ForkWatcher, InMain, socketVars
  <2>2. CASE Listen
    BY <2>2
    DEF Isolated, Listen, InMain, childVars
  <2>3. CASE BindThrows
    BY <2>3, ServerEndIsolated DEF BindThrows
  <2>4. ASSUME NEW c \in Conn, Accept(c) PROVE Isolated'
    <3>1. conn = None /\ \A d \in Conn : Server \notin holders[d]
      BY <2>4, ConnAssumption DEF Isolated, Accept, InMain
    <3>2. /\ holders' = [holders EXCEPT ![c] = {Server}] /\ conn' = c /\ pc' = "fork"
          /\ UNCHANGED <<session, serves>>
      BY <2>4 DEF Accept, childVars
    <3>. QED
      BY <3>1, <3>2, ProcessAssumption DEF Isolated, TypeOK
  <2>5. ASSUME NEW c \in Conn, AcceptThrows(c) PROVE Isolated'
    BY <2>5, ServerEndIsolated DEF AcceptThrows
  <2>6. ASSUME NEW p \in Pid, Fork(p) PROVE Isolated'
    <3>1. \A c \in Conn : p \notin holders[c]
      BY <2>6 DEF Isolated, Fork
    <3>2. /\ session' = [session EXCEPT ![p] = "forked"]
          /\ serves' = [serves EXCEPT ![p] = conn]
          /\ pc' = "push" /\ conn' = conn
      BY <2>6 DEF Fork
    <3>3. /\ \A c \in Conn : Server \in holders'[c] => Server \in holders[c]
          /\ \A q \in Pid \ {p}, c \in Conn : q \in holders'[c] => q \in holders[c]
          /\ \A c \in Conn : p \in holders'[c] => Server \in holders[c]
      BY <2>6, <3>1, ProcessAssumption DEF Fork
    <3>4. \A q \in Pid, c \in Conn : q \in holders'[c] =>
            serves'[q] = c /\ session'[q] \in {"forked", "serving"}
      BY <3>2, <3>3 DEF Isolated, TypeOK
    <3>. QED
      BY <3>2, <3>3, <3>4 DEF Isolated
  <2>7. CASE ForkFails
    BY <2>7
    DEF Isolated, ForkFails, InMain, childVars, socketVars
  <2>8. CASE PushLoad
    BY <2>8
    DEF Isolated, PushLoad, InMain, childVars, socketVars
  <2>9. CASE PushStore
    BY <2>9
    DEF Isolated, PushStore, InMain, childVars, socketVars
  <2>10. CASE DropConn
    <3>1. /\ holders' = [holders EXCEPT ![conn] = Dropped(conn)] /\ conn' = None
          /\ pc' = "accept" /\ UNCHANGED <<session, serves>>
      BY <2>10 DEF DropConn, childVars
    <3>2. \A c \in Conn : holders'[c] \subseteq holders[c] /\ Server \notin holders'[c]
      BY <3>1 DEF Isolated, TypeOK, Dropped
    <3>. QED
      BY <3>1, <3>2 DEF Isolated
  <2>11. CASE DeliverChld
    BY <2>11
    DEF Isolated, DeliverChld, mainVars, childVars, socketVars
  <2>12. CASE Wait
    <3>1. \A q \in Pid : session[q] \in {"forked", "serving"} => session'[q] = session[q]
      BY <2>12, ProcessAssumption DEF Wait, Zombies, TypeOK
    <3>2. UNCHANGED <<pc, conn, holders, serves>>
      BY <2>12 DEF Wait, mainVars, socketVars
    <3>. QED
      BY <3>1, <3>2 DEF Isolated
  <2>13. CASE Erase
    BY <2>13
    DEF Isolated, Erase, ReturnFromChld, mainVars, childVars, socketVars
  <2>14. CASE EraseEnd
    <3>1. CASE ServerEnds
      BY <3>1, ServerEndIsolated
    <3>2. CASE ~ServerEnds
      BY <2>14, <3>2 DEF Isolated, EraseEnd, mainVars, childVars, socketVars
    <3>. QED
      BY <3>1, <3>2
  <2>15. ASSUME NEW s \in StopSignals, DeliverStop(s) PROVE Isolated'
    BY <2>15
    DEF Isolated, DeliverStop, mainVars, childVars, socketVars
  <2>16. CASE KillNext
    BY <2>16
    DEF Isolated, KillNext, mainVars, childVars, socketVars
  <2>17. CASE KillDone
    BY <2>17
    DEF Isolated, KillDone, mainVars, childVars, socketVars
  <2>18. CASE CloseServer
    BY <2>18
    DEF Isolated, CloseServer, mainVars, childVars
  <2>19. CASE ExitServer
    BY <2>19, ServerEndIsolated DEF ExitServer
  <2>20. ASSUME NEW p \in Pid, ResetSession(p) PROVE Isolated'
    <3>1. \A q \in Pid : session[q] \in {"forked", "serving"}
                         => session'[q] \in {"forked", "serving"}
      BY <2>20 DEF ResetSession, TypeOK
    <3>2. UNCHANGED <<pc, conn, holders, serves>>
      BY <2>20 DEF ResetSession, mainVars
    <3>. QED
      BY <3>1, <3>2 DEF Isolated
  <2>21. ASSUME NEW p \in Pid, SessionReturns(p) PROVE Isolated'
    BY <2>21, SessionEndIsolated DEF SessionReturns, mainVars
  <2>22. ASSUME NEW p \in Pid, SessionKilled(p) PROVE Isolated'
    BY <2>22, SessionEndIsolated DEF SessionKilled, mainVars
  <2>23. ASSUME NEW p \in Pid, InheritedStop(p) PROVE Isolated'
    BY <2>23, SessionEndIsolated DEF InheritedStop, mainVars
  <2>24. ASSUME NEW p \in Pid, Suspend(p) PROVE Isolated'
    BY <2>24
    DEF Isolated, Suspend, mainVars, socketVars
  <2>25. ASSUME NEW p \in Pid, Resume(p) PROVE Isolated'
    BY <2>25
    DEF Isolated, Resume, mainVars, socketVars
  <2>26. CASE ResetWatcher
    BY <2>26
    DEF Isolated, ResetWatcher, WatcherStep, mainVars, socketVars
  <2>27. CASE Enter
    BY <2>27
    DEF Isolated, Enter, WatcherStep, mainVars, socketVars
  <2>28. CASE NotifyParent
    BY <2>28
    DEF Isolated, NotifyParent, WatcherStep, mainVars, socketVars
  <2>29. CASE WatcherEnds
    BY <2>29
    DEF Isolated, WatcherEnds, mainVars
  <2>30. ASSUME NEW c \in Conn, Connect(c) PROVE Isolated'
    BY <2>30
    DEF Isolated, Connect, mainVars, childVars
  <2>31. ASSUME NEW c \in Conn, AbortInQueue(c) PROVE Isolated'
    BY <2>31
    DEF Isolated, AbortInQueue, mainVars, childVars
  <2>32. ASSUME NEW s \in Interrupts, Interrupt(s) PROVE Isolated'
    BY <2>32
    DEF Isolated, Interrupt, mainVars, childVars, socketVars
  <2>33. ASSUME NEW p \in Pid, ScriptStarts(p) PROVE Isolated'
    BY <2>33, ProcessAssumption
    DEF Isolated, ScriptStarts, mainVars, childVars
  <2>34. ASSUME NEW c \in Conn, ScriptEnds(c) PROVE Isolated'
    BY <2>34, ProcessAssumption
    DEF Isolated, ScriptEnds, mainVars, childVars
  <2>35. CASE UNCHANGED vars
    BY <2>35
    DEF Isolated, vars, mainVars, childVars, socketVars
  <2>. QED
    BY <2>1, <2>2, <2>3, <2>4, <2>5, <2>6, <2>7, <2>8, <2>9, <2>10, <2>11,
       <2>12, <2>13, <2>14, <2>15, <2>16, <2>17, <2>18, <2>19, <2>20, <2>21,
       <2>22, <2>23, <2>24, <2>25, <2>26, <2>27, <2>28, <2>29, <2>30, <2>31,
       <2>32, <2>33, <2>34, <2>35
    DEF Next, Main, ChildSignal, ServerStop, Session, WatcherRuns,
        Environment
<1>. QED
  BY <1>1, <1>2, Typing, PTL DEF Spec

(* No session process ever has the connection of another client open.        *)
THEOREM SessionsIsolated == Spec => []SessionIsolation
<1>1. Isolated => SessionIsolation
  BY DEF Isolated, SessionIsolation
<1>. QED
  BY <1>1, IsolatedAlways, PTL

-----------------------------------------------------------------------------
(* Why the pids survive the races for the vector: fork() and push_back() are *)
(* interrupted by whole runs of child_signal() only, and such a run removes  *)
(* a pid that wait() has just freed and that no fork() can have reused yet.  *)
Registered ==
  /\ running = "main" => chld = "idle"
  /\ chld = "erase" /\ reaped \in Pid => session[reaped] = "free"
  /\ ~overrun /\ pc # "dead" =>
       \A p \in Pid : session[p] # "free" =>
         p \in ToSet(clients) \/ (proc = p /\ pc \in {"push", "store"})

(* push_back() keeps what is in the vector and adds its argument.            *)
LEMMA AppendKeeps ==
  ASSUME NEW S, NEW s \in Seq(S), NEW t \in Seq(S), NEW e \in S
  PROVE  e \in ToSet(Append(s \o t, e)) /\ ToSet(s) \subseteq ToSet(Append(s \o t, e))
<1> DEFINE a == Append(s \o t, e)
<1>1. Len(s) \in Nat /\ Len(t) \in Nat /\ Len(a) = Len(s) + Len(t) + 1
  OBVIOUS
<1>2. DOMAIN a = 1 .. Len(a) /\ DOMAIN s = 1 .. Len(s)
  OBVIOUS
<1>3. a[Len(a)] = e
  BY <1>1
<1>4. \A i \in 1 .. Len(s) : a[i] = s[i] /\ i \in 1 .. Len(a)
  BY <1>1
<1>. QED
  BY <1>1, <1>2, <1>3, <1>4 DEF ToSet

(* The end of a session process keeps the others registered.                 *)
LEMMA SessionEndRegistered ==
  ASSUME TypeOK, Registered, NEW p \in Pid, SessionEnds(p), session[p] # "free",
         UNCHANGED <<pc, proc, clients, running, chld, reaped, overrun>>
  PROVE  Registered'
<1>1. \A q \in Pid : session'[q] # "free" => session[q] # "free"
  BY DEF SessionEnds, TypeOK
<1>2. \A q \in Pid : session[q] = "free" => session'[q] = "free"
  BY DEF SessionEnds, TypeOK
<1>. QED
  BY <1>1, <1>2 DEF Registered

(* The end of the server keeps the session processes registered.             *)
LEMMA ServerEndRegistered ==
  ASSUME ServerEnds
  PROVE  Registered'
BY DEF ServerEnds, Registered

(* As long as child_signal() has not erased clients.end(), every session     *)
(* process that is not waited for yet is in the vector or about to be.       *)
THEOREM SessionsRegistered == Spec => []RegisteredUnlessOverrun
<1>1. Init => Registered
  BY DEF Init, Registered
<1>2. TypeOK /\ Registered /\ [Next]_vars => Registered'
  <2>. SUFFICES ASSUME TypeOK, Registered, [Next]_vars PROVE Registered'
    OBVIOUS
  <2>1. CASE ForkWatcher
    BY <2>1
    DEF Registered, ForkWatcher, InMain, listVars, handlerVars, signalVars,
        historyVars
  <2>2. CASE Listen
    BY <2>2
    DEF Registered, Listen, InMain, listVars, handlerVars, signalVars,
        childVars, historyVars
  <2>3. CASE BindThrows
    BY <2>3, ServerEndRegistered DEF BindThrows
  <2>4. ASSUME NEW c \in Conn, Accept(c) PROVE Registered'
    BY <2>4
    DEF Registered, Accept, InMain, listVars, handlerVars, signalVars,
        childVars, historyVars
  <2>5. ASSUME NEW c \in Conn, AcceptThrows(c) PROVE Registered'
    BY <2>5, ServerEndRegistered DEF AcceptThrows
  <2>6. ASSUME NEW p \in Pid, Fork(p) PROVE Registered'
    <3>1. session' = [session EXCEPT ![p] = "forked"] /\ pc = "fork" /\ chld = "idle"
          /\ pc' = "push" /\ proc' = p
      BY <2>6 DEF Registered, Fork, InMain
    <3>2. UNCHANGED <<clients, running, chld, reaped, overrun>>
      BY <2>6 DEF Fork, listVars, handlerVars, historyVars
    <3>3. ~overrun => \A q \in Pid \ {p} : session'[q] # "free" => q \in ToSet(clients)
      BY <3>1 DEF Registered, TypeOK
    <3>. QED
      BY <3>1, <3>2, <3>3 DEF Registered
  <2>7. CASE ForkFails
    BY <2>7
    DEF Registered, ForkFails, InMain, listVars, handlerVars, signalVars,
        childVars, historyVars
  <2>8. CASE PushLoad
    BY <2>8
    DEF Registered, PushLoad, InMain, handlerVars, signalVars, childVars,
        historyVars
  <2>9. CASE PushStore
    <3>1. /\ clients' = Append(clients \o tail, proc) /\ pc' = "drop" /\ pc = "store"
          /\ UNCHANGED <<session, proc, running, chld, reaped, overrun>>
      BY <2>9 DEF PushStore, InMain, handlerVars, childVars, historyVars
    <3>2. proc \in ToSet(clients') /\ ToSet(clients) \subseteq ToSet(clients')
      BY <3>1, AppendKeeps DEF TypeOK
    <3>. QED
      BY <3>1, <3>2 DEF Registered
  <2>10. CASE DropConn
    BY <2>10
    DEF Registered, DropConn, InMain, Dropped, listVars, handlerVars,
        signalVars, childVars, historyVars
  <2>11. CASE DeliverChld
    BY <2>11
    DEF Registered, DeliverChld, mainVars, listVars, childVars, historyVars
  <2>12. CASE Wait
    <3>1. \A q \in Pid : session'[q] # "free" => session[q] # "free"
      BY <2>12 DEF Wait, TypeOK
    <3>2. running = "chld" /\ chld' = "erase" /\ (reaped' \in Pid => session'[reaped'] = "free")
      BY <2>12, ProcessAssumption DEF Wait, TypeOK
    <3>3. UNCHANGED <<clients, proc, pc, running, overrun>>
      BY <2>12 DEF Wait, mainVars, listVars, historyVars
    <3>. QED
      BY <3>1, <3>2, <3>3 DEF Registered
  <2>13. CASE Erase
    <3>1. PICK i \in DOMAIN clients : clients[i] = reaped /\ clients' = RemoveAt(clients, i)
      BY <2>13 DEF Erase, Finds
    <3>2. \A q \in Pid : session[q] # "free" => q # clients[i]
      BY <2>13, <3>1 DEF Registered, Erase
    <3>3. \A q \in Pid : session[q] # "free" /\ q \in ToSet(clients) => q \in ToSet(clients')
      BY <3>1, <3>2, RemoveAtKeeps DEF TypeOK
    <3>4. UNCHANGED <<proc, pc, session, overrun>>
      BY <2>13 DEF Erase, mainVars, childVars, historyVars
    <3>5. chld' = "idle" /\ running' \in {"main", "stop"}
      BY <2>13 DEF Erase, ReturnFromChld
    <3>. QED
      BY <3>3, <3>4, <3>5 DEF Registered
  <2>14. CASE EraseEnd
    <3>1. CASE ServerEnds
      BY <3>1, ServerEndRegistered
    <3>2. CASE ~ServerEnds
      <4>1. overrun' = TRUE /\ chld' = "idle" /\ running' \in {"main", "stop"}
        BY <2>14, <3>2 DEF EraseEnd, ReturnFromChld
      <4>. QED
        BY <4>1 DEF Registered
    <3>. QED
      BY <3>1, <3>2
  <2>15. ASSUME NEW s \in StopSignals, DeliverStop(s) PROVE Registered'
    BY <2>15
    DEF Registered, DeliverStop, mainVars, childVars, historyVars
  <2>16. CASE KillNext
    BY <2>16
    DEF Registered, KillNext, mainVars, listVars, signalVars, childVars
  <2>17. CASE KillDone
    BY <2>17
    DEF Registered, KillDone, mainVars, signalVars, childVars, historyVars
  <2>18. CASE CloseServer
    BY <2>18
    DEF Registered, CloseServer, mainVars, listVars, signalVars, childVars,
        historyVars
  <2>19. CASE ExitServer
    BY <2>19, ServerEndRegistered DEF ExitServer
  <2>20. ASSUME NEW p \in Pid, ResetSession(p) PROVE Registered'
    <3>1. \A q \in Pid : session'[q] = "free" <=> session[q] = "free"
      BY <2>20 DEF ResetSession, TypeOK
    <3>2. UNCHANGED <<mainVars, clients, handlerVars, overrun>>
      BY <2>20 DEF ResetSession, listVars, historyVars
    <3>. QED
      BY <3>1, <3>2 DEF Registered, TypeOK, mainVars, handlerVars, Slots
  <2>21. ASSUME NEW p \in Pid, SessionReturns(p) PROVE Registered'
    BY <2>21, SessionEndRegistered DEF SessionReturns, mainVars, listVars, handlerVars, historyVars
  <2>22. ASSUME NEW p \in Pid, SessionKilled(p) PROVE Registered'
    BY <2>22, SessionEndRegistered DEF SessionKilled, mainVars, listVars, handlerVars, historyVars
  <2>23. ASSUME NEW p \in Pid, InheritedStop(p) PROVE Registered'
    BY <2>23, SessionEndRegistered DEF InheritedStop, mainVars, listVars, handlerVars, historyVars
  <2>24. ASSUME NEW p \in Pid, Suspend(p) PROVE Registered'
    BY <2>24
    DEF Registered, Suspend, mainVars, listVars, handlerVars, historyVars
  <2>25. ASSUME NEW p \in Pid, Resume(p) PROVE Registered'
    BY <2>25
    DEF Registered, Resume, mainVars, listVars, handlerVars, signalVars,
        historyVars
  <2>26. CASE ResetWatcher
    BY <2>26
    DEF Registered, ResetWatcher, WatcherStep, mainVars, listVars,
        handlerVars, historyVars
  <2>27. CASE Enter
    BY <2>27
    DEF Registered, Enter, WatcherStep, mainVars, listVars, handlerVars,
        historyVars
  <2>28. CASE NotifyParent
    BY <2>28
    DEF Registered, NotifyParent, WatcherStep, mainVars, listVars,
        handlerVars, historyVars
  <2>29. CASE WatcherEnds
    BY <2>29
    DEF Registered, WatcherEnds, mainVars, listVars, handlerVars,
        historyVars
  <2>30. ASSUME NEW c \in Conn, Connect(c) PROVE Registered'
    BY <2>30
    DEF Registered, Connect, mainVars, listVars, handlerVars, signalVars,
        childVars, historyVars
  <2>31. ASSUME NEW c \in Conn, AbortInQueue(c) PROVE Registered'
    BY <2>31
    DEF Registered, AbortInQueue, mainVars, listVars, handlerVars,
        signalVars, childVars, historyVars
  <2>32. ASSUME NEW s \in Interrupts, Interrupt(s) PROVE Registered'
    BY <2>32
    DEF Registered, Interrupt, mainVars, listVars, handlerVars, childVars,
        historyVars
  <2>33. ASSUME NEW p \in Pid, ScriptStarts(p) PROVE Registered'
    BY <2>33
    DEF Registered, ScriptStarts, mainVars, listVars, handlerVars, signalVars, childVars,
        historyVars
  <2>34. ASSUME NEW c \in Conn, ScriptEnds(c) PROVE Registered'
    BY <2>34
    DEF Registered, ScriptEnds, mainVars, listVars, handlerVars, signalVars, childVars,
        historyVars
  <2>35. CASE UNCHANGED vars
    BY <2>35
    DEF Registered, vars, mainVars, listVars, handlerVars, signalVars,
        childVars, historyVars
  <2>. QED
    BY <2>1, <2>2, <2>3, <2>4, <2>5, <2>6, <2>7, <2>8, <2>9, <2>10, <2>11,
       <2>12, <2>13, <2>14, <2>15, <2>16, <2>17, <2>18, <2>19, <2>20, <2>21,
       <2>22, <2>23, <2>24, <2>25, <2>26, <2>27, <2>28, <2>29, <2>30, <2>31,
       <2>32, <2>33, <2>34, <2>35
    DEF Next, Main, ChildSignal, ServerStop, Session, WatcherRuns,
        Environment
<1>3. Registered => RegisteredUnlessOverrun
  BY DEF Registered, RegisteredUnlessOverrun
<1>. QED
  BY <1>1, <1>2, <1>3, Typing, PTL DEF Spec

-----------------------------------------------------------------------------
(* Why server_stop() misses nobody it can see: its loop runs on top of main() *)
(* and of child_signal(), so nothing is pushed under it, and as long as       *)
(* nothing is erased under it (tail is empty) what it has passed stays where  *)
(* it is, and signalled or no longer alive.                                  *)
Signalled ==
  /\ pc = "dead" => running = "main"
  /\ running = "main" => stop = "idle"
  /\ stop = "kill" /\ ~overrun /\ tail = <<>> =>
       \A i \in DOMAIN clients :
         i < next /\ clients[i] \in LiveSessions => clients[i] \in term

(* Other processes do not undo what the loop of server_stop() has done: none  *)
(* comes to life, and none that is alive has its SIGTERM taken back.          *)
LEMMA OthersKeepSignalled ==
  ASSUME Signalled, UNCHANGED <<pc, running, stop, next, clients, tail, overrun>>,
         LiveSessions' \subseteq LiveSessions, LiveSessions' \cap term \subseteq term'
  PROVE  Signalled'
BY DEF Signalled

(* A session process that ends is no longer alive, and the others are as they *)
(* were.                                                                     *)
LEMMA SessionEndLives ==
  ASSUME TypeOK, NEW p \in Pid, SessionEnds(p)
  PROVE  LiveSessions' \subseteq LiveSessions \ {p}
BY DEF SessionEnds, LiveSessions, TypeOK

(* A server that is gone signals nobody.                                     *)
LEMMA ServerEndSignalled ==
  ASSUME ServerEnds
  PROVE  Signalled'
BY DEF ServerEnds, Signalled

(* The steps of main() are taken while no handler runs.                      *)
LEMMA MainKeepsSignalled ==
  ASSUME Signalled, running = "main", UNCHANGED <<running, stop>>
  PROVE  Signalled'
BY DEF Signalled

(* The loop of server_stop() leaves no live session process unsignalled,      *)
(* outside of the windows that ChildrenTerminated names.                     *)
THEOREM LoopReachesChildren == Spec => ChildrenTerminated
<1>1. Init => Signalled
  BY DEF Init, Signalled
<1>2. TypeOK /\ Signalled /\ [Next]_vars => Signalled'
  <2>. SUFFICES ASSUME TypeOK, Signalled, [Next]_vars PROVE Signalled'
    OBVIOUS
  <2>1. CASE ForkWatcher
    BY <2>1, MainKeepsSignalled DEF ForkWatcher, InMain, handlerVars
  <2>2. CASE Listen
    BY <2>2, MainKeepsSignalled DEF Listen, InMain, handlerVars
  <2>3. CASE BindThrows
    BY <2>3, ServerEndSignalled DEF BindThrows
  <2>4. ASSUME NEW c \in Conn, Accept(c) PROVE Signalled'
    BY <2>4, MainKeepsSignalled DEF Accept, InMain, handlerVars
  <2>5. ASSUME NEW c \in Conn, AcceptThrows(c) PROVE Signalled'
    BY <2>5, ServerEndSignalled DEF AcceptThrows
  <2>6. ASSUME NEW p \in Pid, Fork(p) PROVE Signalled'
    BY <2>6, MainKeepsSignalled DEF Fork, InMain, handlerVars
  <2>7. CASE ForkFails
    BY <2>7, MainKeepsSignalled DEF ForkFails, InMain, handlerVars
  <2>8. CASE PushLoad
    BY <2>8, MainKeepsSignalled DEF PushLoad, InMain, handlerVars
  <2>9. CASE PushStore
    BY <2>9, MainKeepsSignalled DEF PushStore, InMain, handlerVars
  <2>10. CASE DropConn
    BY <2>10, MainKeepsSignalled DEF DropConn, InMain, handlerVars
  <2>11. CASE DeliverChld
    BY <2>11
    DEF Signalled, DeliverChld, LiveSessions, mainVars, listVars, childVars,
        historyVars
  <2>12. CASE Wait
    <3>1. LiveSessions' \subseteq LiveSessions
      BY <2>12 DEF Wait, LiveSessions, TypeOK
    <3>. QED
      BY <2>12, <3>1, OthersKeepSignalled DEF Wait, mainVars, listVars, historyVars
  <2>13. CASE Erase
    <3>1. /\ tail' = TailAfterErase
          /\ running' = IF stop = "idle" THEN "main" ELSE "stop"
          /\ running = "chld" /\ UNCHANGED <<pc, stop>>
      BY <2>13 DEF Erase, ReturnFromChld, mainVars
    <3>2. stop = "kill" => tail' # <<>>
      BY <3>1 DEF TailAfterErase, TypeOK
    <3>. QED
      BY <3>1, <3>2 DEF Signalled
  <2>14. CASE EraseEnd
    <3>1. CASE ServerEnds
      BY <3>1, ServerEndSignalled
    <3>2. CASE ~ServerEnds
      <4>1. /\ overrun' = TRUE /\ running = "chld" /\ UNCHANGED <<pc, stop>>
            /\ running' = IF stop = "idle" THEN "main" ELSE "stop"
        BY <2>14, <3>2 DEF EraseEnd, ReturnFromChld, mainVars
      <4>. QED
        BY <4>1 DEF Signalled
    <3>. QED
      BY <3>1, <3>2
  <2>15. ASSUME NEW s \in StopSignals, DeliverStop(s) PROVE Signalled'
    <3>1. /\ running' = "stop" /\ next' = 1 /\ pc # "dead"
          /\ UNCHANGED <<pc, clients>>
      BY <2>15 DEF DeliverStop, mainVars
    <3>2. \A i \in DOMAIN clients' : ~(i < next')
      BY <3>1 DEF TypeOK
    <3>. QED
      BY <3>1, <3>2 DEF Signalled
  <2>16. CASE KillNext
    <3>1. /\ stop = "kill" /\ running = "stop" /\ next' = next + 1
          /\ UNCHANGED <<pc, running, stop, clients, tail, overrun, session>>
      BY <2>16 DEF KillNext, mainVars, listVars, childVars
    <3>2. term' = term \cup KillReaches({(clients \o tail)[next]})
      BY <2>16 DEF KillNext
    <3>3. SUFFICES ASSUME ~overrun, tail = <<>>, NEW i \in DOMAIN clients, i < next',
                          clients[i] \in LiveSessions
                   PROVE  clients[i] \in term'
      BY <3>1 DEF Signalled, LiveSessions
    <3>4. CASE i < next
      BY <3>1, <3>2, <3>3, <3>4 DEF Signalled
    <3>5. CASE i = next
      <4>1. (clients \o tail)[next] = clients[i]
        BY <3>3, <3>5 DEF TypeOK
      <4>2. clients[i] \in KillReaches({clients[i]})
        BY <3>3 DEF KillReaches, Live
      <4>. QED
        BY <3>2, <4>1, <4>2
    <3>. QED
      BY <3>1, <3>3, <3>4, <3>5 DEF TypeOK
  <2>17. CASE KillDone
    BY <2>17 DEF Signalled, KillDone, mainVars
  <2>18. CASE CloseServer
    BY <2>18 DEF Signalled, CloseServer, mainVars
  <2>19. CASE ExitServer
    BY <2>19, ServerEndSignalled DEF ExitServer
  <2>20. ASSUME NEW p \in Pid, ResetSession(p) PROVE Signalled'
    <3>1. LiveSessions' \subseteq LiveSessions
      BY <2>20 DEF ResetSession, LiveSessions, TypeOK
    <3>. QED
      BY <2>20, <3>1, OthersKeepSignalled
      DEF ResetSession, mainVars, listVars, handlerVars, historyVars
  <2>21. ASSUME NEW p \in Pid, SessionReturns(p) PROVE Signalled'
    BY <2>21, SessionEndLives, OthersKeepSignalled
    DEF SessionReturns, mainVars, listVars, handlerVars, historyVars
  <2>22. ASSUME NEW p \in Pid, SessionKilled(p) PROVE Signalled'
    BY <2>22, SessionEndLives, OthersKeepSignalled
    DEF SessionKilled, mainVars, listVars, handlerVars, historyVars
  <2>23. ASSUME NEW p \in Pid, InheritedStop(p) PROVE Signalled'
    BY <2>23, SessionEndLives, OthersKeepSignalled
    DEF InheritedStop, mainVars, listVars, handlerVars
  <2>24. ASSUME NEW p \in Pid, Suspend(p) PROVE Signalled'
    BY <2>24, OthersKeepSignalled
    DEF Suspend, LiveSessions, mainVars, listVars, handlerVars, historyVars
  <2>25. ASSUME NEW p \in Pid, Resume(p) PROVE Signalled'
    BY <2>25, OthersKeepSignalled
    DEF Resume, LiveSessions, mainVars, listVars, handlerVars, historyVars
  <2>26. CASE ResetWatcher
    BY <2>26, OthersKeepSignalled
    DEF ResetWatcher, WatcherStep, LiveSessions, mainVars, listVars, handlerVars,
        historyVars
  <2>27. CASE Enter
    BY <2>27, OthersKeepSignalled
    DEF Enter, WatcherStep, LiveSessions, mainVars, listVars, handlerVars,
        historyVars
  <2>28. CASE NotifyParent
    BY <2>28, OthersKeepSignalled
    DEF NotifyParent, WatcherStep, LiveSessions, mainVars, listVars, handlerVars,
        historyVars
  <2>29. CASE WatcherEnds
    <3>1. Watcher \notin LiveSessions'
      BY ProcessAssumption DEF LiveSessions
    <3>. QED
      BY <2>29, <3>1, OthersKeepSignalled
      DEF WatcherEnds, LiveSessions, mainVars, listVars, handlerVars, historyVars
  <2>30. ASSUME NEW c \in Conn, Connect(c) PROVE Signalled'
    BY <2>30, OthersKeepSignalled
    DEF Connect, LiveSessions, mainVars, listVars, handlerVars, childVars, historyVars
  <2>31. ASSUME NEW c \in Conn, AbortInQueue(c) PROVE Signalled'
    BY <2>31, OthersKeepSignalled
    DEF AbortInQueue, LiveSessions, mainVars, listVars, handlerVars, childVars,
        historyVars
  <2>32. ASSUME NEW s \in Interrupts, Interrupt(s) PROVE Signalled'
    BY <2>32, OthersKeepSignalled
    DEF Interrupt, LiveSessions, mainVars, listVars, handlerVars, childVars,
        historyVars
  <2>33. ASSUME NEW p \in Pid, ScriptStarts(p) PROVE Signalled'
    BY <2>33, OthersKeepSignalled
    DEF ScriptStarts, LiveSessions, mainVars, listVars, handlerVars, childVars, historyVars
  <2>34. ASSUME NEW c \in Conn, ScriptEnds(c) PROVE Signalled'
    BY <2>34, OthersKeepSignalled
    DEF ScriptEnds, LiveSessions, mainVars, listVars, handlerVars, childVars, historyVars
  <2>35. CASE UNCHANGED vars
    BY <2>35, OthersKeepSignalled
    DEF vars, LiveSessions, mainVars, listVars, handlerVars, childVars, historyVars
  <2>. QED
    BY <2>1, <2>2, <2>3, <2>4, <2>5, <2>6, <2>7, <2>8, <2>9, <2>10, <2>11,
       <2>12, <2>13, <2>14, <2>15, <2>16, <2>17, <2>18, <2>19, <2>20, <2>21,
       <2>22, <2>23, <2>24, <2>25, <2>26, <2>27, <2>28, <2>29, <2>30, <2>31,
       <2>32, <2>33, <2>34, <2>35
    DEF Next, Main, ChildSignal, ServerStop, Session, WatcherRuns,
        Environment
<1>3. /\ TypeOK /\ Signalled /\ RegisteredUnlessOverrun
      => [KillDone /\ tail = <<>> /\ ~overrun /\ pc \notin {"push", "store"}
            => LiveSessions \subseteq term]_vars
  <2>. SUFFICES ASSUME TypeOK, Signalled, RegisteredUnlessOverrun, KillDone,
                       tail = <<>>, ~overrun, pc \notin {"push", "store"},
                       NEW p \in LiveSessions
                PROVE  p \in term
    OBVIOUS
  <2>1. running = "stop" /\ stop = "kill" /\ next > Len(clients \o tail)
    BY DEF KillDone
  <2>2. p \in ToSet(clients)
    BY <2>1 DEF Signalled, RegisteredUnlessOverrun, LiveSessions
  <2>3. PICK i \in DOMAIN clients : clients[i] = p
    BY <2>2 DEF ToSet
  <2>4. i < next
    BY <2>1, <2>3 DEF TypeOK
  <2>. QED
    BY <2>1, <2>3, <2>4 DEF Signalled
<1>. QED
  BY <1>1, <1>2, <1>3, Typing, SessionsRegistered, PTL DEF Spec, ChildrenTerminated

-----------------------------------------------------------------------------
(* The supervisor implements Connections: each of its steps is a step of one   *)
(* connection or of none, or releases those that somebody's end takes along.   *)

(* What the mapping needs to know of descriptors, beyond Isolated: only an     *)
(* accepted connection has any, only the server has the one it is about to    *)
(* fork for, and there is never a second session process for it.             *)
Owned ==
  /\ \A c \in Conn : phase[c] # "accepted" => holders[c] = {}
  /\ pc = "fork" => conn \in Conn /\ phase[conn] = "accepted" /\ holders[conn] = {Server}
  /\ \A c \in Conn : \A p, q \in Pid : p \in holders[c] /\ q \in holders[c] => p = q

Facts == TypeOK /\ Isolated /\ Owned

-----------------------------------------------------------------------------
(* Owned is kept.                                                             *)

(* A step that opens no descriptor, and accepts and refuses nobody who has     *)
(* one; main() is not about to fork unless it was.                            *)
LEMMA FewerHolders ==
  ASSUME Facts,
         \A c \in Conn : /\ holders'[c] \subseteq holders[c]
                         /\ phase[c] = "accepted" <=> phase'[c] = "accepted",
         pc' = "fork" => pc = "fork" /\ conn' = conn /\ holders'[conn] = holders[conn]
  PROVE  Owned'
BY DEF Facts, Owned

(* A process gives up the listening socket.                                   *)
LEMMA ClosingListens ==
  ASSUME TypeOK, NEW x, CloseListening(x), NEW c \in Conn
  PROVE  \/ phase'[c] = phase[c]
         \/ phase[c] = "queued" /\ phase'[c] = "refused"
BY DEF CloseListening, TypeOK

LEMMA SessionEndOwned ==
  ASSUME Facts, NEW p \in Pid, SessionEnds(p), pc' = pc, conn' = conn
  PROVE  /\ Owned'
         /\ \A c \in Conn : holders'[c] = holders[c] \ {p}
         /\ \A c \in Conn : \/ phase'[c] = phase[c]
                            \/ phase[c] = "queued" /\ phase'[c] = "refused"
<1>1. \A c \in Conn : holders'[c] = holders[c] \ {p}
  BY DEF SessionEnds
<1>2. \A c \in Conn : \/ phase'[c] = phase[c]
                      \/ phase[c] = "queued" /\ phase'[c] = "refused"
  BY ClosingListens DEF SessionEnds, Facts
<1>3. pc' = "fork" => holders'[conn] = holders[conn]
  BY <1>1, ProcessAssumption DEF Facts, Owned
<1> QED
  BY <1>1, <1>2, <1>3, FewerHolders

LEMMA ServerEndOwned ==
  ASSUME Facts, ServerEnds
  PROVE  /\ Owned' /\ pc' = "dead"
         /\ \A c \in Conn : holders'[c] = holders[c] \ {Server}
         /\ \A c \in Conn : \/ phase'[c] = phase[c]
                            \/ phase[c] = "queued" /\ phase'[c] = "refused"
<1>1. pc' = "dead" /\ \A c \in Conn : holders'[c] = holders[c] \ {Server}
  BY DEF ServerEnds
<1>2. \A c \in Conn : \/ phase'[c] = phase[c]
                      \/ phase[c] = "queued" /\ phase'[c] = "refused"
  BY ClosingListens DEF ServerEnds, Facts
<1> QED
  BY <1>1, <1>2, FewerHolders

-----------------------------------------------------------------------------
(* What a step means to the connections.                                      *)

Quiet == \A c \in Conn : StatusOf(c)' = StatusOf(c) /\ OwnerOf(c)' = OwnerOf(c)

LEMMA QuietStutters == Quiet => UNCHANGED Abstract!connVars
BY DEF Quiet, Abstract!connVars

(* The owner is the session process that has a descriptor, if there is one.    *)
LEMMA OwnerIs ==
  ASSUME NEW H, NEW p \in Pid, p \in H, \A q \in Pid : q \in H => q = p
  PROVE  /\ H \cap Pid # {}
         /\ (CHOOSE q \in Pid : q \in H) = p
OBVIOUS

(* Connections whose state of affairs is the same keep status and owner.       *)
LEMMA SameConnection ==
  ASSUME NEW c \in Conn, phase'[c] = phase[c], holders'[c] = holders[c],
         Forking(c)' <=> Forking(c)
  PROVE  StatusOf(c)' = StatusOf(c) /\ OwnerOf(c)' = OwnerOf(c)
BY DEF StatusOf, OwnerOf

LEMMA QuietStep ==
  ASSUME UNCHANGED <<phase, holders>>, \A c \in Conn : Forking(c)' <=> Forking(c)
  PROVE  Quiet
BY SameConnection DEF Quiet

(* What becomes of a connection if somebody who has it open, or who listens,   *)
(* goes away, and how it may end in the queue.                               *)
Ends(c)   == /\ StatusOf(c) \in {"queued", "accepted", "served"}
             /\ StatusOf(c)' = "closed" /\ OwnerOf(c)' = None
Leaves(c) == StatusOf(c) = "served" /\ StatusOf(c)' = "served" /\ OwnerOf(c)' = None
Stays(c)  == StatusOf(c)' = StatusOf(c) /\ OwnerOf(c)' = OwnerOf(c)

LEMMA Loses ==
  ASSUME Owned, Owned', NEW c \in Conn, phase[c] \in Phases,
         holders'[c] \subseteq holders[c],
         \/ phase'[c] = phase[c]
         \/ phase[c] = "queued" /\ phase'[c] \in {"refused", "aborted"},
         Forking(c)' => Forking(c) /\ holders'[c] = holders[c],
         Forking(c) /\ ~Forking(c)' => holders'[c] = {}
  PROVE  Ends(c) \/ Leaves(c) \/ Stays(c)
<1>1. holders[c] \cap Pid = {} => OwnerOf(c) = None /\ OwnerOf(c)' = None
  BY DEF OwnerOf
<1>2. CASE phase[c] # "accepted"
  <2>1. holders[c] = {}
    BY <1>2 DEF Owned
  <2> QED
    BY <1>1, <1>2, <2>1 DEF StatusOf, Ends, Stays, Phases
<1>3. CASE phase[c] = "accepted" /\ Forking(c)
  <2>1. holders[c] \cap Pid = {}
    BY <1>3, ProcessAssumption DEF Owned, Forking
  <2>2. phase'[c] = "accepted"
    BY <1>3
  <2>3. StatusOf(c) = "accepted"
    BY <1>3 DEF StatusOf
  <2>4. CASE Forking(c)'
    BY <1>1, <2>1, <2>2, <2>3, <2>4 DEF StatusOf, Stays
  <2>5. CASE ~Forking(c)'
    BY <1>1, <1>3, <2>1, <2>2, <2>3, <2>5 DEF StatusOf, Ends
  <2> QED
    BY <2>4, <2>5
<1>4. CASE phase[c] = "accepted" /\ ~Forking(c)
  <2>1. phase'[c] = "accepted" /\ ~Forking(c)'
    BY <1>4
  <2>2. CASE holders[c] = {}
    BY <1>1, <1>4, <2>1, <2>2 DEF StatusOf, Stays
  <2>3. CASE holders[c] # {} /\ holders'[c] \cap Pid = {}
    <3>1. StatusOf(c) = "served" /\ StatusOf(c)' \in {"served", "closed"}
      BY <1>4, <2>1, <2>3 DEF StatusOf
    <3>2. OwnerOf(c)' = None
      BY <2>3 DEF OwnerOf
    <3> QED
      BY <3>1, <3>2 DEF Ends, Leaves
  <2>4. CASE holders'[c] \cap Pid # {}
    <3>1. StatusOf(c) = "served" /\ StatusOf(c)' = "served"
      BY <1>4, <2>1, <2>4 DEF StatusOf
    <3>2. PICK p \in Pid : p \in holders'[c] /\ p \in holders[c]
      BY <2>4
    <3>3. /\ \A q \in Pid : q \in holders[c] => q = p
          /\ \A q \in Pid : q \in holders'[c] => q = p
      BY <3>2 DEF Owned
    <3>4. OwnerOf(c) = p /\ OwnerOf(c)' = p
      BY <3>2, <3>3, OwnerIs DEF OwnerOf
    <3> QED
      BY <3>1, <3>4 DEF Stays
  <2> QED
    BY <2>2, <2>3, <2>4
<1> QED
  BY <1>2, <1>3, <1>4

(* If each connection ends, loses its owner or stays, that is a Release.       *)
LEMMA AllRelease ==
  ASSUME \A c \in Conn : Ends(c) \/ Leaves(c) \/ Stays(c)
  PROVE  Abstract!Next
<1> DEFINE C == {c \in Conn : Ends(c)}
           D == {c \in Conn : Leaves(c)}
<1>1. \A c \in C : [d \in Conn |-> StatusOf(d)][c] \in {"queued", "accepted", "served"}
  BY DEF Ends
<1>2. \A c \in D : [d \in Conn |-> StatusOf(d)][c] = "served"
  BY DEF Leaves
<1>3. [c \in Conn |-> StatusOf(c)]'
        = [c \in Conn |-> IF c \in C THEN "closed" ELSE [d \in Conn |-> StatusOf(d)][c]]
  BY DEF Ends, Leaves, Stays
<1>4. [c \in Conn |-> OwnerOf(c)]'
        = [c \in Conn |-> IF c \in C \cup D THEN None ELSE [d \in Conn |-> OwnerOf(d)][c]]
  BY DEF Ends, Leaves, Stays
<1>5. Abstract!Release(C, D)
  BY <1>1, <1>2, <1>3, <1>4 DEF Abstract!Release
<1>6. C \in SUBSET Conn /\ D \in SUBSET Conn
  OBVIOUS
<1> QED
  BY <1>5, <1>6 DEF Abstract!Next

(* Nobody gains a descriptor, nobody but a queued client is turned away, and   *)
(* a connection the server was about to fork for is either left as it was or   *)
(* closed.                                                                   *)
Losing ==
  /\ \A c \in Conn :
       /\ holders'[c] \subseteq holders[c]
       /\ \/ phase'[c] = phase[c]
          \/ phase[c] = "queued" /\ phase'[c] \in {"refused", "aborted"}
  /\ pc' = "fork" => pc = "fork" /\ conn' = conn /\ holders'[conn] = holders[conn]
  /\ pc = "fork" /\ pc' # "fork" => holders'[conn] = {}

LEMMA LosingStep ==
  ASSUME Facts, Losing
  PROVE  Owned' /\ Abstract!Next
<1>1. Owned'
  BY FewerHolders DEF Losing
<1>2. ASSUME NEW c \in Conn PROVE Ends(c) \/ Leaves(c) \/ Stays(c)
  <2>1. phase[c] \in Phases
    BY DEF Facts, TypeOK
  <2>2. Forking(c)' => Forking(c) /\ holders'[c] = holders[c]
    BY DEF Losing, Forking
  <2>3. Forking(c) /\ ~Forking(c)' => holders'[c] = {}
    BY DEF Losing, Forking
  <2> QED
    BY <1>1, <2>1, <2>2, <2>3, Loses DEF Losing, Facts
<1> QED
  BY <1>1, <1>2, AllRelease

(* Steps that have nothing to do with connections.                            *)
Silent ==
  /\ UNCHANGED <<phase, holders>>
  /\ UNCHANGED <<pc, conn>> \/ (pc # "fork" /\ pc' # "fork")

LEMMA SilentStep ==
  ASSUME Facts, Silent
  PROVE  Owned' /\ UNCHANGED Abstract!connVars
<1>1. Owned'
  BY DEF Facts, Owned, Silent
<1>2. \A c \in Conn : Forking(c)' <=> Forking(c)
  BY DEF Silent, Forking
<1>3. UNCHANGED Abstract!connVars
  BY <1>2, QuietStep, QuietStutters DEF Silent
<1> QED
  BY <1>1, <1>3

-----------------------------------------------------------------------------
(* The steps.                                                                *)

Implements == Owned' /\ (Abstract!Next \/ UNCHANGED Abstract!connVars)

LEMMA AcceptImplements ==
  ASSUME Facts, NEW c \in Conn, Accept(c)
  PROVE  Implements
<1>1. /\ pc = "accept" /\ pc' = "fork" /\ conn' = c /\ phase[c] = "queued"
      /\ phase' = [phase EXCEPT ![c] = "accepted"]
      /\ holders' = [holders EXCEPT ![c] = {Server}]
  BY DEF Accept, InMain
<1>2. /\ phase'[c] = "accepted" /\ holders'[c] = {Server} /\ holders[c] = {}
      /\ \A d \in Conn \ {c} : phase'[d] = phase[d] /\ holders'[d] = holders[d]
  BY <1>1 DEF Facts, TypeOK, Owned
<1>3. \A d \in Conn : d # c => StatusOf(d)' = StatusOf(d) /\ OwnerOf(d)' = OwnerOf(d)
  BY <1>1, <1>2, SameConnection DEF Forking
<1>4. \A d \in Conn : StatusOf(d) # "accepted"
  BY <1>1 DEF StatusOf, Forking
<1>5. StatusOf(c) = "queued" /\ StatusOf(c)' = "accepted"
  BY <1>1, <1>2 DEF StatusOf, Forking
<1>6. OwnerOf(c) = None /\ OwnerOf(c)' = None
  BY <1>2, ProcessAssumption DEF OwnerOf
<1>7. Abstract!Accept(c)
  BY <1>3, <1>4, <1>5, <1>6 DEF Abstract!Accept
<1>8. Owned'
  BY <1>1, <1>2, ProcessAssumption DEF Facts, Owned
<1> QED
  BY <1>7, <1>8 DEF Implements, Abstract!Next

LEMMA ForkImplements ==
  ASSUME Facts, NEW p \in Pid, Fork(p)
  PROVE  Implements
<1>1. /\ pc = "fork" /\ pc' = "push" /\ conn' = conn /\ phase' = phase
      /\ session[p] = "free"
      /\ holders' = [c \in Conn |-> IF Server \in holders[c] THEN holders[c] \cup {p}
                                                             ELSE holders[c]]
  BY DEF Fork, InMain
<1>2. conn \in Conn /\ phase[conn] = "accepted" /\ holders[conn] = {Server}
  BY <1>1 DEF Facts, Owned
<1>3. /\ holders'[conn] = {Server, p}
      /\ \A d \in Conn \ {conn} : holders'[d] = holders[d]
  BY <1>1, <1>2 DEF Facts, Isolated
<1>4. \A d \in Conn : p \notin holders[d]
  BY <1>1 DEF Facts, Isolated
<1>5. \A d \in Conn : d # conn => StatusOf(d)' = StatusOf(d) /\ OwnerOf(d)' = OwnerOf(d)
  BY <1>1, <1>3, SameConnection DEF Forking
<1>6. StatusOf(conn) = "accepted" /\ StatusOf(conn)' = "served"
  BY <1>1, <1>2, <1>3 DEF StatusOf, Forking
<1>7. OwnerOf(conn)' = p
  <2>1. \A q \in Pid : q \in holders'[conn] => q = p
    BY <1>3, ProcessAssumption
  <2>2. p \in holders'[conn]
    BY <1>3
  <2> QED
    BY <1>1, <2>1, <2>2, OwnerIs DEF OwnerOf
<1>8. p # None => \A d \in Conn : OwnerOf(d) # p
  BY <1>4 DEF OwnerOf
<1>9. Abstract!Spawn(conn, p)
  <2>1. [d \in Conn |-> StatusOf(d)]' = [[d \in Conn |-> StatusOf(d)] EXCEPT ![conn] = "served"]
    BY <1>1, <1>2, <1>5, <1>6
  <2>2. [d \in Conn |-> OwnerOf(d)]' = [[d \in Conn |-> OwnerOf(d)] EXCEPT ![conn] = p]
    BY <1>1, <1>2, <1>5, <1>7
  <2>3. /\ [d \in Conn |-> StatusOf(d)][conn] = "accepted"
        /\ p # None => \A d \in Conn : [e \in Conn |-> OwnerOf(e)][d] # p
    BY <1>2, <1>6, <1>8
  <2> QED
    BY <2>1, <2>2, <2>3 DEF Abstract!Spawn
<1>10. Owned'
  <2>1. \A c \in Conn : \A q, r \in Pid : q \in holders'[c] /\ r \in holders'[c] => q = r
    BY <1>3, ProcessAssumption DEF Facts, Owned
  <2>2. \A c \in Conn : phase'[c] # "accepted" => holders'[c] = {}
    BY <1>1, <1>2, <1>3 DEF Facts, Owned
  <2> QED
    BY <1>1, <2>1, <2>2 DEF Owned
<1> QED
  BY <1>2, <1>9, <1>10 DEF Implements, Abstract!Next

(* A connection no process could be created for is served by nobody.          *)
LEMMA ForkFailsImplements ==
  ASSUME Facts, ForkFails
  PROVE  Implements
<1>1. pc = "fork" /\ pc' = "push" /\ conn' = conn /\ phase' = phase /\ holders' = holders
  BY DEF ForkFails, InMain, socketVars
<1>2. conn \in Conn /\ phase[conn] = "accepted" /\ holders[conn] = {Server}
  BY <1>1 DEF Facts, Owned
<1>3. \A d \in Conn : d # conn => StatusOf(d)' = StatusOf(d) /\ OwnerOf(d)' = OwnerOf(d)
  BY <1>1, SameConnection DEF Forking
<1>4. StatusOf(conn) = "accepted" /\ StatusOf(conn)' = "served"
  BY <1>1, <1>2 DEF StatusOf, Forking
<1>5. OwnerOf(conn) = None /\ OwnerOf(conn)' = None
  BY <1>1, <1>2, ProcessAssumption DEF OwnerOf
<1>6. Abstract!Spawn(conn, None)
  <2>1. [d \in Conn |-> StatusOf(d)]' = [[d \in Conn |-> StatusOf(d)] EXCEPT ![conn] = "served"]
    BY <1>1, <1>2, <1>3, <1>4
  <2>2. [d \in Conn |-> OwnerOf(d)]' = [[d \in Conn |-> OwnerOf(d)] EXCEPT ![conn] = None]
    BY <1>1, <1>2, <1>3, <1>5
  <2>3. /\ [d \in Conn |-> StatusOf(d)][conn] = "accepted"
        /\ None # None => \A d \in Conn : [e \in Conn |-> OwnerOf(e)][d] # None
    BY <1>2, <1>4
  <2> QED
    BY <2>1, <2>2, <2>3 DEF Abstract!Spawn
<1>7. Owned'
  BY <1>1 DEF Facts, Owned
<1> QED
  BY <1>2, <1>6, <1>7 DEF Implements, Abstract!Next

LEMMA ConnectImplements ==
  ASSUME Facts, NEW c \in Conn, Connect(c)
  PROVE  Implements
<1>1. /\ phase[c] = "idle" /\ phase' = [phase EXCEPT ![c] = "queued"]
      /\ UNCHANGED <<holders, pc, conn>>
  BY DEF Connect, mainVars
<1>2. phase'[c] = "queued" /\ \A d \in Conn \ {c} : phase'[d] = phase[d]
  BY <1>1 DEF Facts, TypeOK
<1>3. \A d \in Conn : d # c => StatusOf(d)' = StatusOf(d) /\ OwnerOf(d)' = OwnerOf(d)
  BY <1>1, <1>2, SameConnection DEF Forking
<1>4. StatusOf(c) = "idle" /\ StatusOf(c)' = "queued"
  BY <1>1, <1>2 DEF StatusOf
<1>5. OwnerOf(c)' = OwnerOf(c)
  BY <1>1 DEF OwnerOf
<1>6. Abstract!Connect(c)
  BY <1>3, <1>4, <1>5 DEF Abstract!Connect
<1>7. Owned'
  BY <1>1, <1>2 DEF Facts, Owned
<1> QED
  BY <1>6, <1>7 DEF Implements, Abstract!Next

(* Steps of the vector, of the handlers until they close or exit, of the       *)
(* watcher until it ends, and of the operator.                                *)
LEMMA SilentSteps ==
  ASSUME \/ ForkWatcher \/ Listen \/ PushLoad \/ PushStore
         \/ DeliverChld \/ Wait \/ Erase
         \/ \E s \in StopSignals : DeliverStop(s)
         \/ KillNext \/ KillDone
         \/ \E p \in Pid : Suspend(p) \/ Resume(p)
         \/ ResetWatcher \/ Enter \/ NotifyParent
         \/ \E s \in Interrupts : Interrupt(s)
         \/ UNCHANGED vars
  PROVE  Silent
<1>1. CASE ForkWatcher
  BY <1>1 DEF Silent, ForkWatcher, InMain, socketVars
<1>2. CASE Listen
  BY <1>2 DEF Silent, Listen, InMain
<1>3. CASE PushLoad
  BY <1>3 DEF Silent, PushLoad, InMain, socketVars
<1>4. CASE PushStore
  BY <1>4 DEF Silent, PushStore, InMain, socketVars
<1>5. CASE DeliverChld
  BY <1>5 DEF Silent, DeliverChld, mainVars, socketVars
<1>6. CASE Wait
  BY <1>6 DEF Silent, Wait, mainVars, socketVars
<1>7. CASE Erase
  BY <1>7 DEF Silent, Erase, mainVars, socketVars
<1>8. ASSUME NEW s \in StopSignals, DeliverStop(s) PROVE Silent
  BY <1>8 DEF Silent, DeliverStop, mainVars, socketVars
<1>9. CASE KillNext
  BY <1>9 DEF Silent, KillNext, mainVars, socketVars
<1>10. CASE KillDone
  BY <1>10 DEF Silent, KillDone, mainVars, socketVars
<1>11. ASSUME NEW p \in Pid, Suspend(p) PROVE Silent
  BY <1>11 DEF Silent, Suspend, mainVars, socketVars
<1>12. ASSUME NEW p \in Pid, Resume(p) PROVE Silent
  BY <1>12 DEF Silent, Resume, mainVars, socketVars
<1>13. CASE ResetWatcher
  BY <1>13 DEF Silent, ResetWatcher, WatcherStep, mainVars, socketVars
<1>14. CASE Enter
  BY <1>14 DEF Silent, Enter, WatcherStep, mainVars, socketVars
<1>15. CASE NotifyParent
  BY <1>15 DEF Silent, NotifyParent, WatcherStep, mainVars, socketVars
<1>16. ASSUME NEW s \in Interrupts, Interrupt(s) PROVE Silent
  BY <1>16 DEF Silent, Interrupt, mainVars, socketVars
<1>17. CASE UNCHANGED vars
  BY <1>17 DEF Silent, vars, mainVars, socketVars
<1> QED
  BY <1>1, <1>2, <1>3, <1>4, <1>5, <1>6, <1>7, <1>8, <1>9, <1>10, <1>11, <1>12, <1>13, <1>14, <1>15, <1>16, <1>17

(* Steps with which a process ends or closes a descriptor, or a client gives   *)
(* up.                                                                       *)
LEMMA ServerEndLoses ==
  ASSUME Facts, ServerEnds
  PROVE  Losing
<1>1. /\ pc' = "dead"
      /\ \A c \in Conn : holders'[c] = holders[c] \ {Server}
      /\ \A c \in Conn : \/ phase'[c] = phase[c]
                         \/ phase[c] = "queued" /\ phase'[c] = "refused"
  BY ServerEndOwned
<1>2. pc = "fork" => conn \in Conn /\ holders[conn] = {Server}
  BY DEF Facts, Owned
<1>3. pc = "fork" => holders'[conn] = {}
  BY <1>1, <1>2
<1> QED
  BY <1>1, <1>3 DEF Losing

LEMMA SessionEndLoses ==
  ASSUME Facts, NEW p \in Pid, SessionEnds(p), UNCHANGED <<pc, conn>>
  PROVE  Losing
<1>1. /\ \A c \in Conn : holders'[c] = holders[c] \ {p}
      /\ \A c \in Conn : \/ phase'[c] = phase[c]
                         \/ phase[c] = "queued" /\ phase'[c] = "refused"
  BY SessionEndOwned
<1>2. pc = "fork" => holders'[conn] = holders[conn]
  BY <1>1, ProcessAssumption DEF Facts, Owned
<1> QED
  BY <1>1, <1>2 DEF Losing

LEMMA ClosingLoses ==
  ASSUME Facts, NEW x, CloseListening(x), UNCHANGED <<pc, conn, holders>>
  PROVE  Losing
<1>1. \A c \in Conn : \/ phase'[c] = phase[c]
                      \/ phase[c] = "queued" /\ phase'[c] = "refused"
  BY ClosingListens DEF Facts
<1> QED
  BY <1>1 DEF Losing

LEMMA LosingSteps ==
  ASSUME Facts,
         \/ BindThrows \/ DropConn \/ CloseServer \/ ExitServer \/ WatcherEnds
         \/ \E c \in Conn : AcceptThrows(c) \/ AbortInQueue(c) \/ ScriptEnds(c)
         \/ \E p \in Pid : \/ ResetSession(p) \/ SessionReturns(p)
                           \/ SessionKilled(p) \/ InheritedStop(p)
  PROVE  Losing
<1>1. CASE BindThrows
  BY <1>1, ServerEndLoses DEF BindThrows
<1>2. CASE DropConn
  <2>1. /\ pc = "drop" /\ pc' = "accept" /\ phase' = phase
        /\ holders' = [holders EXCEPT ![conn] = holders[conn] \ {Server}]
    BY <1>2 DEF DropConn, Dropped, InMain
  <2>2. \A c \in Conn : holders'[c] \subseteq holders[c]
    BY <2>1 DEF Facts, TypeOK
  <2> QED
    BY <2>1, <2>2 DEF Losing
<1>3. CASE CloseServer
  BY <1>3, ClosingLoses DEF CloseServer, mainVars
<1>4. CASE ExitServer
  BY <1>4, ServerEndLoses DEF ExitServer
<1>5. CASE WatcherEnds
  BY <1>5, ClosingLoses DEF WatcherEnds, mainVars
<1>6. ASSUME NEW c \in Conn, AcceptThrows(c) PROVE Losing
  BY <1>6, ServerEndLoses DEF AcceptThrows
<1>7. ASSUME NEW c \in Conn, AbortInQueue(c) PROVE Losing
  <2>1. /\ phase[c] = "queued" /\ phase' = [phase EXCEPT ![c] = "aborted"]
        /\ UNCHANGED <<pc, conn, holders>>
    BY <1>7 DEF AbortInQueue, mainVars
  <2>2. \A d \in Conn : phase'[d] = IF d = c THEN "aborted" ELSE phase[d]
    BY <2>1 DEF Facts, TypeOK
  <2> QED
    BY <2>1, <2>2 DEF Losing
<1>8. ASSUME NEW p \in Pid, ResetSession(p) PROVE Losing
  BY <1>8, ClosingLoses DEF ResetSession, mainVars
<1>9. ASSUME NEW p \in Pid, SessionReturns(p) PROVE Losing
  BY <1>9, SessionEndLoses DEF SessionReturns, mainVars
<1>10. ASSUME NEW p \in Pid, SessionKilled(p) PROVE Losing
  BY <1>10, SessionEndLoses DEF SessionKilled, mainVars
<1>11. ASSUME NEW p \in Pid, InheritedStop(p) PROVE Losing
  BY <1>11, SessionEndLoses DEF InheritedStop, mainVars
<1>12. ASSUME NEW c \in Conn, ScriptEnds(c) PROVE Losing
  <2>1. /\ Script \in holders[c] /\ UNCHANGED <<pc, conn, phase>>
        /\ \A d \in Conn : holders'[d] = IF d = c THEN holders[c] \ {Script} ELSE holders[d]
    BY <1>12 DEF ScriptEnds, mainVars, Facts, TypeOK
  <2>2. pc = "fork" => conn \in Conn /\ conn # c
    BY <2>1, ProcessAssumption DEF Facts, Owned
  <2> QED
    BY <2>1, <2>2 DEF Losing
<1> QED
  BY <1>1, <1>2, <1>3, <1>4, <1>5, <1>6, <1>7, <1>8, <1>9, <1>10, <1>11, <1>12

(* clients.erase(clients.end()) ends the server, or is a step of the vector.   *)
LEMMA EraseEndLoses ==
  ASSUME Facts, EraseEnd
  PROVE  Losing \/ Silent
<1>1. CASE ServerEnds
  BY <1>1, ServerEndLoses
<1>2. CASE ~ServerEnds
  BY <1>2 DEF EraseEnd, Silent, mainVars, socketVars
<1> QED
  BY <1>1, <1>2

(* A CGI child shares a connection that its session owns, and goes on to.       *)
LEMMA ScriptStartImplements ==
  ASSUME Facts, NEW p \in Pid, ScriptStarts(p)
  PROVE  Implements
<1>1. /\ UNCHANGED <<pc, conn, phase>>
      /\ \A c \in Conn : holders'[c] = IF p \in holders[c] THEN holders[c] \cup {Script}
                                                          ELSE holders[c]
  BY DEF ScriptStarts, mainVars
<1>2. \A q \in Pid, c \in Conn : q \in holders'[c] <=> q \in holders[c]
  BY <1>1, ProcessAssumption
<1>3. \A c \in Conn : p \in holders[c] => phase[c] = "accepted" /\ ~Forking(c)
  BY ProcessAssumption DEF Facts, Owned, Forking
<1>4. \A c \in Conn : Forking(c)' <=> Forking(c)
  BY <1>1 DEF Forking
<1>5. Owned'
  <2>1. \A c \in Conn : phase'[c] # "accepted" => holders'[c] = {}
    BY <1>1, <1>3 DEF Facts, Owned
  <2>2. pc' = "fork" => /\ conn' \in Conn /\ phase'[conn'] = "accepted"
                        /\ holders'[conn'] = {Server}
    BY <1>1, ProcessAssumption DEF Facts, Owned
  <2>3. \A c \in Conn : \A q, s \in Pid : q \in holders'[c] /\ s \in holders'[c] => q = s
    BY <1>2 DEF Facts, Owned
  <2> QED
    BY <2>1, <2>2, <2>3 DEF Owned
<1>6. ASSUME NEW c \in Conn PROVE StatusOf(c)' = StatusOf(c) /\ OwnerOf(c)' = OwnerOf(c)
  <2>1. CASE p \notin holders[c]
    BY <1>1, <1>4, <2>1, SameConnection
  <2>2. CASE p \in holders[c]
    <3>1. StatusOf(c) = "served" /\ StatusOf(c)' = "served"
      BY <1>1, <1>3, <1>4, <2>2 DEF StatusOf
    <3>2. /\ p \in holders'[c]
          /\ \A q \in Pid : q \in holders[c] => q = p
          /\ \A q \in Pid : q \in holders'[c] => q = p
      BY <1>2, <2>2 DEF Facts, Owned
    <3>3. OwnerOf(c) = p /\ OwnerOf(c)' = p
      BY <2>2, <3>2, OwnerIs DEF OwnerOf
    <3> QED
      BY <3>1, <3>3
  <2> QED
    BY <2>1, <2>2
<1> QED
  BY <1>5, <1>6, QuietStutters DEF Quiet, Implements

LEMMA StepImplements ==
  ASSUME Facts, [Next]_vars
  PROVE  Implements
<1>1. Silent => Implements
  BY SilentStep DEF Implements
<1>2. Losing => Implements
  BY LosingStep DEF Implements
<1>3. CASE Main
  BY <1>1, <1>2, <1>3, SilentSteps, LosingSteps, AcceptImplements, ForkImplements,
     ForkFailsImplements DEF Main
<1>4. CASE ChildSignal
  BY <1>1, <1>2, <1>4, SilentSteps, EraseEndLoses DEF ChildSignal
<1>5. CASE ServerStop
  BY <1>1, <1>2, <1>5, SilentSteps, LosingSteps DEF ServerStop
<1>6. CASE WatcherRuns
  BY <1>1, <1>2, <1>6, SilentSteps, LosingSteps DEF WatcherRuns
<1>7. ASSUME NEW p \in Pid, Session(p) PROVE Implements
  BY <1>2, <1>7, LosingSteps DEF Session
<1>8. CASE Environment
  BY <1>1, <1>2, <1>8, SilentSteps, LosingSteps, ConnectImplements, ScriptStartImplements
  DEF Environment
<1>9. CASE UNCHANGED vars
  BY <1>1, <1>9, SilentSteps
<1> QED
  BY <1>3, <1>4, <1>5, <1>6, <1>7, <1>8, <1>9 DEF Next

LEMMA InitImplements == Init => Owned /\ Abstract!Init
<1> SUFFICES ASSUME Init PROVE Owned /\ Abstract!Init
  OBVIOUS
<1>1. \A c \in Conn : phase[c] = "idle" /\ holders[c] = {}
  BY DEF Init
<1>2. Owned
  BY <1>1 DEF Init, Owned
<1>3. \A c \in Conn : StatusOf(c) = "idle" /\ OwnerOf(c) = None
  BY <1>1 DEF StatusOf, OwnerOf
<1> QED
  BY <1>2, <1>3 DEF Abstract!Init

(* To a client the server is Connections: whatever the handlers interrupt, a   *)
(* connection is accepted once, gets one owner at most, and stays closed.      *)
THEOREM ServerImplementsConnections == Spec => ImplementsConnections
<1>1. TypeOK /\ Isolated /\ Owned /\ [Next]_vars
        => Owned' /\ [Abstract!Next]_(Abstract!connVars)
  BY StepImplements DEF Facts, Implements
<1> QED
  BY <1>1, InitImplements, Typing, IsolatedAlways, PTL
  DEF Spec, ImplementsConnections, Abstract!Spec

=============================================================================
