---------------------------- MODULE Connections -----------------------------
(***************************************************************************)
(* What the server promises about client connections, without processes,   *)
(* descriptors or signals: a connection waits in the listen queue, is       *)
(* accepted once, is given to at most one session, and once closed stays    *)
(* closed.  A session process owns one connection at a time.                *)
(***************************************************************************)
CONSTANTS Pid, Conn, None

VARIABLES
  status,   (* [Conn -> {"idle", "queued", "accepted", "served", "closed"}]  *)
  owner     (* [Conn -> the session process, or None]                       *)

connVars == <<status, owner>>

Init == /\ status = [c \in Conn |-> "idle"]
        /\ owner  = [c \in Conn |-> None]

Connect(c) ==
  /\ status[c] = "idle"
  /\ status' = [status EXCEPT ![c] = "queued"]
  /\ UNCHANGED owner

(* The server handles one accepted connection at a time.                     *)
Accept(c) ==
  /\ status[c] = "queued" /\ \A d \in Conn : status[d] # "accepted"
  /\ status' = [status EXCEPT ![c] = "accepted"]
  /\ UNCHANGED owner

(* The only moment a connection gets an owner; None if no process could be   *)
(* created.                                                                  *)
Spawn(c, p) ==
  /\ status[c] = "accepted"
  /\ p # None => \A d \in Conn : owner[d] # p
  /\ status' = [status EXCEPT ![c] = "served"]
  /\ owner'  = [owner EXCEPT ![c] = p]

(* Sessions end: the connections of D lose their owner while the server or a *)
(* CGI child still has a descriptor open, those of C are closed, served or   *)
(* not.                                                                      *)
Release(C, D) ==
  /\ \A c \in C : status[c] \in {"queued", "accepted", "served"}
  /\ \A d \in D : status[d] = "served"
  /\ status' = [c \in Conn |-> IF c \in C THEN "closed" ELSE status[c]]
  /\ owner'  = [c \in Conn |-> IF c \in C \cup D THEN None ELSE owner[c]]

Next == \/ \E c \in Conn : Connect(c) \/ Accept(c)
        \/ \E c \in Conn, p \in Pid \cup {None} : Spawn(c, p)
        \/ \E C, D \in SUBSET Conn : Release(C, D)

Spec == Init /\ [][Next]_connVars

=============================================================================
