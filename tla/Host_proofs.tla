---------------------------- MODULE Host_proofs -----------------------------
(***************************************************************************)
(* Proofs about the host, for every set of peers, connections and viewers  *)
(* and every bound: of the requests of peers (PeerRequests), and, as parts *)
(* of MCHost, of the privacy mode (PrivacyMode) and of the frame rate of   *)
(* several viewers (VideoQoS).                                             *)
(***************************************************************************)
EXTENDS MCHost, Integers, SequenceTheorems, WellFoundedInduction, TLAPS

-----------------------------------------------------------------------------
(* The requests of peers (PeerRequests).                                    *)

(* A task that has written.                                                 *)
Written == {"written", "skipped", "handled"}

(* A task that has read its own address has read what its twin wrote, for  *)
(* it had written nothing itself: and then the twin, which read before it  *)
(* wrote, has not read that address from this one.                         *)
ReadOwn(t) ==
  last[t] = Addr(t) =>
    /\ pc[t] # "net"
    /\ pc[Twin(t)] \in Written
    /\ last[Twin(t)] # Addr(t)

(* The last request was written by one of its two tasks.                   *)
WrittenBy == \A t \in Tasks : LAST_MSG = Addr(t) => pc[t] \in Written \/ pc[Twin(t)] \in Written

Read(t) == [task |-> t, op |-> "read"]
Write(t) == [task |-> t, op |-> "write"]

(* What a task has read is what the last write before its reading wrote,   *)
(* and what is there now is what the last write of all wrote; no task      *)
(* reads or writes twice.                                                  *)
LastWrite(t, i, n) ==
  log[i] = Write(t) /\ \A k \in i + 1 .. n : \A u \in Tasks : log[k] # Write(u)

Once == \A i, j \in 1 .. Len(log) : log[i] = log[j] => i = j

Entered ==
  \A i \in 1 .. Len(log), t \in Tasks :
    /\ log[i] = Read(t) => pc[t] # "net"
    /\ log[i] = Write(t) => pc[t] \in Written

ReadLast ==
  \A j \in 1 .. Len(log), v \in Tasks : \A i \in 1 .. j - 1, t \in Tasks :
    log[j] = Read(v) /\ LastWrite(t, i, j) => last[v] = Addr(t)

WroteLast ==
  \A i \in 1 .. Len(log), t \in Tasks : LastWrite(t, i, Len(log)) => LAST_MSG = Addr(t)

Log ==
  /\ log \in Seq({Read(t) : t \in Tasks} \cup {Write(t) : t \in Tasks})
  /\ Once /\ Entered /\ ReadLast /\ WroteLast
  /\ \A t \in Tasks : pc[t] = "handled" => last[t] # Addr(t)

IInv ==
  /\ pc \in [Tasks -> {"net", "read"} \cup Written]
  /\ last \in [Tasks -> Peers \cup {NoAddr}]
  /\ LAST_MSG \in Peers \cup {NoAddr}
  /\ \A t \in Tasks : ReadOwn(t)
  /\ \A t \in Tasks : pc[t] = "skipped" => last[t] = Addr(t)
  /\ WrittenBy

(* A task and its twin are the two of their address.                       *)
LEMMA Twins ==
  ASSUME PeerRequestsAssumption, NEW t \in Tasks
  PROVE  /\ Twin(t) \in Tasks /\ Twin(t) # t /\ Twin(Twin(t)) = t
         /\ Addr(Twin(t)) = Addr(t) /\ Addr(t) \in Peers /\ Addr(t) # NoAddr
         /\ \A u \in Tasks : Addr(u) = Addr(t) => u \in {t, Twin(t)}
BY DEF PeerRequestsAssumption, Tasks, Twin, Addr

(* No request is there to begin with.                                        *)
LEMMA InitInv ==
  ASSUME PeerRequestsAssumption PROVE Init => IInv
BY Twins DEF Init, IInv, ReadOwn, WrittenBy, Written

(* Every step of a task keeps the handled copy of the last address on        *)
(* record.                                                                   *)
LEMMA StepInv ==
  ASSUME PeerRequestsAssumption PROVE IInv /\ [Next]_vars => IInv'
<1> SUFFICES ASSUME IInv, [Next]_vars PROVE IInv'
  OBVIOUS
<1> USE DEF IInv, Written
<1>1. ASSUME NEW t \in Tasks, read_last(t) PROVE IInv'
  <2>1. /\ pc[t] = "net" /\ pc' = [pc EXCEPT ![t] = "read"]
        /\ last' = [last EXCEPT ![t] = LAST_MSG] /\ UNCHANGED LAST_MSG
    BY <1>1 DEF read_last, Goto
  <2>2. ASSUME NEW u \in Tasks PROVE ReadOwn(u)'
    <3>1. CASE u = t
      BY <2>1, <3>1, Twins DEF ReadOwn, WrittenBy
    <3>2. CASE u # t
      BY <2>1, <3>2, Twins DEF ReadOwn
    <3> QED BY <3>1, <3>2
  <2>3. WrittenBy'
    BY <2>1, Twins DEF WrittenBy
  <2> QED BY <2>1, <2>2, <2>3
<1>2. ASSUME NEW t \in Tasks, write(t) PROVE IInv'
  <2>1. /\ pc[t] = "read" /\ pc' = [pc EXCEPT ![t] = "written"]
        /\ LAST_MSG' = Addr(t) /\ UNCHANGED last
    BY <1>2 DEF write, Goto
  <2>2. ASSUME NEW u \in Tasks PROVE ReadOwn(u)'
    BY <2>1, <2>2, Twins DEF ReadOwn
  <2>3. WrittenBy'
    <3>1. \A u \in Tasks : LAST_MSG' = Addr(u) => u = t \/ Twin(u) = t
      BY <2>1, Twins
    <3>2. pc'[t] \in Written
      BY <2>1
    <3> QED  BY <3>1, <3>2 DEF WrittenBy
  <2> QED BY <2>1, <2>2, <2>3, Twins
<1>3. ASSUME NEW t \in Tasks, decide(t) PROVE IInv'
  <2>1. /\ pc[t] = "written" /\ UNCHANGED <<LAST_MSG, last>>
        /\ pc' = [pc EXCEPT ![t] = IF last[t] = Addr(t) THEN "skipped" ELSE "handled"]
    BY <1>3 DEF decide, Goto, duplicate
  <2>2. ASSUME NEW u \in Tasks PROVE ReadOwn(u)'
    BY <2>1, <2>2, Twins DEF ReadOwn
  <2>3. WrittenBy'
    BY <2>1, Twins DEF WrittenBy
  <2> QED BY <2>1, <2>2, <2>3
<1>4. CASE UNCHANGED vars
  BY <1>4 DEF vars, ReadOwn, WrittenBy
<1> QED BY <1>1, <1>2, <1>3, <1>4 DEF Next

(* The entries of the log are told apart by their tasks and kinds.         *)
LEMMA Entries ==
  ASSUME NEW t, NEW u
  PROVE  /\ Read(t) # Write(u)
         /\ Read(t) = Read(u) => t = u
         /\ Write(t) = Write(u) => t = u
BY DEF Read, Write

LEMMA LogInit == Init => Log
BY DEF Init, Log, Once, Entered, ReadLast, WroteLast

(* A reading finds what the last write of all wrote, and a write becomes   *)
(* the last one.                                                           *)
LEMMA LogStep ==
  ASSUME PeerRequestsAssumption PROVE IInv /\ Log /\ [Next]_vars => Log'
<1> SUFFICES ASSUME IInv, Log, [Next]_vars PROVE Log'
  OBVIOUS
<1> DEFINE N == Len(log)
<1> DEFINE E == {Read(t) : t \in Tasks} \cup {Write(t) : t \in Tasks}
<1>0. /\ log \in Seq(E) /\ N \in Nat /\ pc \in [Tasks -> {"net", "read"} \cup Written]
      /\ last \in [Tasks -> Peers \cup {NoAddr}]
  BY DEF Log, IInv
<1>1. ASSUME NEW t \in Tasks, read_last(t) PROVE Log'
  <2>1. /\ pc[t] = "net" /\ pc' = [pc EXCEPT ![t] = "read"] /\ UNCHANGED LAST_MSG
        /\ last' = [last EXCEPT ![t] = LAST_MSG] /\ log' = Append(log, Read(t))
    BY <1>1 DEF read_last, Goto, Read
  <2>2. /\ log' \in Seq(E) /\ Len(log') = N + 1 /\ log'[N + 1] = Read(t)
        /\ \A i \in 1 .. N : log'[i] = log[i]
    BY <1>0, <2>1
  <2>3. \A i \in 1 .. N : log[i] # Read(t)
    BY <2>1 DEF Log, Entered
  <2>4. Once'
    BY <2>2, <2>3, <1>0 DEF Log, Once
  <2>5. Entered'
    <3> SUFFICES ASSUME NEW i \in 1 .. N + 1, NEW u \in Tasks
                 PROVE  /\ log'[i] = Read(u) => pc'[u] # "net"
                        /\ log'[i] = Write(u) => pc'[u] \in Written
      BY <2>2 DEF Entered
    <3>1. CASE i = N + 1
      BY <1>0, <2>1, <2>2, <3>1, Entries
    <3>2. CASE i # N + 1
      BY <1>0, <2>1, <2>2, <3>2 DEF Log, Entered, Written
    <3> QED BY <3>1, <3>2
  <2>6. ReadLast'
    <3> SUFFICES ASSUME NEW j \in 1 .. N + 1, NEW v \in Tasks, NEW i \in 1 .. j - 1,
                        NEW u \in Tasks, log'[j] = Read(v), LastWrite(u, i, j)'
                 PROVE  last'[v] = Addr(u)
      BY <2>2 DEF ReadLast
    <3>1. i \in 1 .. N /\ log[i] = Write(u)
      BY <1>0, <2>2 DEF LastWrite
    <3>2. CASE j = N + 1
      <4>1. v = t /\ last'[v] = LAST_MSG
        BY <1>0, <2>1, <2>2, <3>2, Entries
      <4>2. LastWrite(u, i, N)
        <5>1. ASSUME NEW k \in i + 1 .. N, NEW w \in Tasks PROVE log[k] # Write(w)
          <6>1. k \in 1 .. N /\ k \in i + 1 .. j
            BY <1>0, <3>1, <3>2
          <6>2. log'[k] = log[k]
            BY <2>2, <6>1
          <6> QED  BY <6>1, <6>2 DEF LastWrite
        <5> QED  BY <3>1, <5>1 DEF LastWrite
      <4> QED BY <3>1, <4>1, <4>2 DEF Log, WroteLast
    <3>3. CASE j # N + 1
      <4>1. j \in 1 .. N /\ log[j] = Read(v) /\ v # t
        BY <1>0, <2>2, <2>3, <3>3
      <4>2. LastWrite(u, i, j)
        BY <1>0, <2>2, <3>1, <4>1 DEF LastWrite
      <4>3. last[v] = Addr(u)
        BY <4>1, <4>2 DEF Log, ReadLast
      <4> QED BY <1>0, <2>1, <4>1, <4>3
    <3> QED BY <3>2, <3>3
  <2>7. WroteLast'
    <3>n. PICK n \in Nat : n = N + 1
      BY <1>0
    <3> SUFFICES ASSUME NEW i \in 1 .. n, NEW u \in Tasks, LastWrite(u, i, n)'
                 PROVE  LAST_MSG = Addr(u)
      BY <2>1, <2>2, <3>n DEF WroteLast, LastWrite
    <3>1. i \in 1 .. N /\ log[i] = Write(u)
      BY <1>0, <2>2, <3>n, Entries DEF LastWrite
    <3>2. LastWrite(u, i, N)
      BY <1>0, <2>2, <3>n, <3>1 DEF LastWrite
    <3> QED BY <3>1, <3>2 DEF Log, WroteLast
  <2>8. \A u \in Tasks : pc'[u] = "handled" => last'[u] # Addr(u)
    BY <1>0, <2>1 DEF Log
  <2> QED BY <2>2, <2>4, <2>5, <2>6, <2>7, <2>8 DEF Log
<1>2. ASSUME NEW t \in Tasks, write(t) PROVE Log'
  <2>1. /\ pc[t] = "read" /\ pc' = [pc EXCEPT ![t] = "written"] /\ UNCHANGED last
        /\ LAST_MSG' = Addr(t) /\ log' = Append(log, Write(t))
    BY <1>2 DEF write, Goto, Write
  <2>2. /\ log' \in Seq(E) /\ Len(log') = N + 1 /\ log'[N + 1] = Write(t)
        /\ \A i \in 1 .. N : log'[i] = log[i]
    BY <1>0, <2>1
  <2>3. \A i \in 1 .. N : log[i] # Write(t)
    BY <2>1 DEF Log, Entered, Written
  <2>4. Once'
    BY <2>2, <2>3, <1>0 DEF Log, Once
  <2>5. Entered'
    <3> SUFFICES ASSUME NEW i \in 1 .. N + 1, NEW u \in Tasks
                 PROVE  /\ log'[i] = Read(u) => pc'[u] # "net"
                        /\ log'[i] = Write(u) => pc'[u] \in Written
      BY <2>2 DEF Entered
    <3>1. CASE i = N + 1
      BY <1>0, <2>1, <2>2, <3>1, Entries DEF Written
    <3>2. CASE i # N + 1
      BY <1>0, <2>1, <2>2, <3>2 DEF Log, Entered, Written
    <3> QED BY <3>1, <3>2
  <2>6. ReadLast'
    <3> SUFFICES ASSUME NEW j \in 1 .. N + 1, NEW v \in Tasks, NEW i \in 1 .. j - 1,
                        NEW u \in Tasks, log'[j] = Read(v), LastWrite(u, i, j)'
                 PROVE  last'[v] = Addr(u)
      BY <2>2 DEF ReadLast
    <3>1. j \in 1 .. N /\ log[j] = Read(v)
      BY <1>0, <2>2, Entries
    <3>2. i \in 1 .. N /\ LastWrite(u, i, j)
      <4>1. i \in 1 .. N /\ log[i] = Write(u)
        BY <1>0, <2>2, <3>1 DEF LastWrite
      <4>2. ASSUME NEW k \in i + 1 .. j, NEW w \in Tasks PROVE log[k] # Write(w)
        <5>1. k \in 1 .. N
          BY <1>0, <3>1, <4>1
        <5>2. log'[k] = log[k]
          BY <2>2, <5>1
        <5> QED  BY <5>2 DEF LastWrite
      <4> QED  BY <4>1, <4>2 DEF LastWrite
    <3> QED BY <2>1, <3>1, <3>2 DEF Log, ReadLast
  <2>7. WroteLast'
    <3>n. PICK n \in Nat : n = N + 1
      BY <1>0
    <3> SUFFICES ASSUME NEW i \in 1 .. n, NEW u \in Tasks, LastWrite(u, i, n)'
                 PROVE  Addr(t) = Addr(u)
      BY <2>1, <2>2, <3>n DEF WroteLast, LastWrite
    <3>1. i = n
      BY <1>0, <2>2, <3>n DEF LastWrite
    <3> QED BY <2>2, <3>n, <3>1, Entries DEF LastWrite
  <2>8. \A u \in Tasks : pc'[u] = "handled" => last'[u] # Addr(u)
    BY <1>0, <2>1 DEF Log
  <2> QED BY <2>2, <2>4, <2>5, <2>6, <2>7, <2>8 DEF Log
<1>3. ASSUME NEW t \in Tasks, decide(t) PROVE Log'
  <2>1. /\ pc[t] = "written" /\ UNCHANGED <<LAST_MSG, last, log>>
        /\ pc' = [pc EXCEPT ![t] = IF last[t] = Addr(t) THEN "skipped" ELSE "handled"]
    BY <1>3 DEF decide, Goto, duplicate
  <2>2. Once' /\ ReadLast' /\ WroteLast'
    BY <2>1 DEF Log, Once, ReadLast, WroteLast, LastWrite
  <2>3. Entered'
    BY <1>0, <2>1 DEF Log, Entered, Written
  <2> QED BY <1>0, <2>1, <2>2, <2>3 DEF Log
<1>4. CASE UNCHANGED vars
  BY <1>4 DEF vars, Log, Once, Entered, ReadLast, WroteLast, LastWrite
<1> QED BY <1>1, <1>2, <1>3, <1>4 DEF Next

(* Both copies of a request never are skipped: the one that is had its     *)
(* twin's writing before it, and that twin goes on to handle the request.  *)
LEMMA NoRequestLost ==
  ASSUME PeerRequestsAssumption PROVE IInv => EveryRequestHandled
<1> SUFFICES ASSUME IInv, NEW t \in Tasks, pc[t] = "skipped"
             PROVE  pc[Twin(t)] \in {"written", "handled"}
  BY DEF EveryRequestHandled
<1>1. pc[Twin(t)] \in Written /\ last[Twin(t)] # Addr(t)
  BY DEF IInv, ReadOwn
<1>2. pc[Twin(t)] # "skipped"
  BY <1>1, Twins DEF IInv
<1> QED BY <1>1, <1>2 DEF Written

(* In turn, the later copy has read the address that the earlier one wrote *)
(* and is not handled: the write before its reading was the last there     *)
(* was, for the task itself writes once and no other came in between.      *)
LEMMA OnceInTurn ==
  ASSUME PeerRequestsAssumption PROVE IInv /\ Log => HandledOnceInTurn
<1> SUFFICES ASSUME IInv, Log, NEW t \in Tasks, InTurn(t)
             PROVE  pc[Twin(t)] # "handled"
  BY DEF HandledOnceInTurn
<1>0. DOMAIN log = 1 .. Len(log) /\ Len(log) \in Nat
  BY DEF Log
<1>1. PICK i, j \in 1 .. Len(log) : i < j /\ log[i] = Write(t) /\ log[j] = Read(Twin(t))
  BY <1>0 DEF InTurn, Before, Read, Write
<1>2. ASSUME NEW k \in i + 1 .. j, NEW u \in Tasks, log[k] = Write(u) PROVE FALSE
  <2>1. k \in 1 .. Len(log) /\ i < k /\ k <= j
    BY <1>0, <1>1, <1>2
  <2>2. k < j
    BY <1>1, <1>2, <2>1, Entries
  <2>3. u # t
    BY <1>1, <1>2, <2>1 DEF Log, Once
  <2>4. Before(Write(t), Write(u)) /\ Before(Write(u), Read(Twin(t)))
    BY <1>0, <1>1, <1>2, <2>1, <2>2 DEF Before
  <2> QED BY <2>3, <2>4 DEF InTurn, Read, Write
<1>3. LastWrite(t, i, j)
  BY <1>1, <1>2 DEF LastWrite
<1>4. Twin(t) \in Tasks /\ Addr(Twin(t)) = Addr(t)
  BY Twins
<1>5. i \in 1 .. j - 1
  BY <1>1
<1>6. last[Twin(t)] = Addr(t)
  BY <1>1, <1>3, <1>4, <1>5 DEF Log, ReadLast
<1> QED BY <1>4, <1>6 DEF Log

(* Of the copies of a request one is handled, whatever the order of their  *)
(* reads and writes, and only one when they come in turn.                  *)
THEOREM RequestsAreHandled ==
  ASSUME PeerRequestsAssumption PROVE Spec => []RequestsHandled
<1>1. IInv /\ Log => RequestsHandled
  BY NoRequestLost, OnceInTurn DEF RequestsHandled
<1>2. Init => IInv /\ Log
  BY InitInv, LogInit
<1>3. IInv /\ Log /\ [Next]_vars => (IInv /\ Log)'
  BY StepInv, LogStep
<1> QED BY <1>1, <1>2, <1>3, PTL DEF Spec
-----------------------------------------------------------------------------
(* The privacy mode (PrivacyMode).                                          *)

Messages == {"PrvOnSucceeded", "PrvOnFailed", "PrvOffSucceeded", "PrvOffFailed", "PrvOnByOther"}

(* Those at which a client goes on showing what it shows.                   *)
Silent == {"PrvOffFailed", "PrvOnByOther"}

(* What a client will show that shows sh and has the messages q to read.    *)
ShowsAfter(q, sh) ==
  IF \A i \in DOMAIN q : q[i] \in Silent
  THEN sh
  ELSE \E i \in DOMAIN q :
         q[i] = "PrvOnSucceeded" /\ \A j \in DOMAIN q : i < j => q[j] \in Silent

(* The types of the state of the privacy mode.                              *)
PrivacyTyped ==
  /\ conn_id \in Controllers \cup {Privacy!INVALID}
  /\ lock \in Controllers \cup {Privacy!Free}
  /\ ci \in Controllers \cup {Privacy!INVALID, Privacy!None}
  /\ st \in [Controllers -> {"off", "login", "on", "closed"}]
  /\ task \in [Controllers -> {"idle", "waiting", "late"}]
  /\ job \in [Controllers -> {"none", "start", "working", "ok", "error"}]
  /\ down \in [Controllers -> Seq(Messages)]
  /\ shown \in [Controllers -> BOOLEAN]

(* The job that works at it has the lock, and then nobody has the mode; a   *)
(* connection that has it or wants it is on, and one that is not yet on has *)
(* been told nothing.                                                       *)
Working ==
  /\ \A c \in Controllers : job[c] = "working" <=> lock = c
  /\ lock # Privacy!Free => conn_id = Privacy!INVALID
  /\ \A c \in Controllers : task[c] = "idle" <=> job[c] = "none"
  /\ \A c \in Controllers : task[c] # "idle" \/ conn_id = c => st[c] = "on"
  /\ \A c \in Controllers : st[c] \in {"off", "login"} => down[c] = <<>> /\ ~shown[c]

(* Except while its job has ended and the connection has not yet seen how,  *)
(* what a client will show when it has read its messages is whether it has  *)
(* the mode.                                                                *)
WillShow(c) == ShowsAfter(down[c], shown[c])

ShowsTruly ==
  \A c \in Controllers \ ousted : st[c] = "on" =>
    /\ job[c] = "ok" => conn_id = c
    /\ job[c] \notin {"ok", "error"} => (WillShow(c) <=> conn_id = c)

PrivacyInv == PrivacyTyped /\ Working /\ ShowsTruly /\ Privacy!AloneUnlessMissed

(* The names for nobody are no connections.                                 *)
LEMMA Nobody ==
  /\ Privacy!INVALID \notin Controllers /\ Privacy!Free \notin Controllers
  /\ Privacy!None \notin Controllers /\ Privacy!None # Privacy!INVALID
BY PartsAssumption DEF Privacy!PrivacyModeAssumption, Privacy!INVALID, Privacy!Free, Privacy!None

(* What one more message does to what a client will show.                   *)
LEMMA ShowsAppended ==
  ASSUME NEW q \in Seq(Messages), NEW sh \in BOOLEAN, NEW m \in Messages
  PROVE  /\ Append(q, m) \in Seq(Messages)
         /\ m = "PrvOnSucceeded" => ShowsAfter(Append(q, m), sh)
         /\ m \in {"PrvOnFailed", "PrvOffSucceeded"} => ~ShowsAfter(Append(q, m), sh)
         /\ m \in Silent => (ShowsAfter(Append(q, m), sh) <=> ShowsAfter(q, sh))
<1> DEFINE p == Append(q, m)
<1>0. /\ p \in Seq(Messages) /\ Len(q) \in Nat /\ Len(q) + 1 \in DOMAIN p /\ p[Len(q) + 1] = m
      /\ DOMAIN q = 1 .. Len(q) /\ DOMAIN p = 1 .. Len(q) + 1
      /\ \A i \in DOMAIN q : i \in DOMAIN p /\ p[i] = q[i] /\ i \in Nat /\ i < Len(q) + 1
      /\ \A i \in DOMAIN p : i \in DOMAIN q \/ i = Len(q) + 1
  OBVIOUS
<1>1. /\ "PrvOnSucceeded" \notin Silent /\ "PrvOnFailed" \notin Silent
      /\ "PrvOffSucceeded" \notin Silent
  BY DEF Silent
<1> HIDE DEF p
<1>2. ASSUME m = "PrvOnSucceeded" PROVE ShowsAfter(p, sh)
  <2>1. \A j \in DOMAIN p : Len(q) + 1 < j => p[j] \in Silent
    BY <1>0
  <2> QED  BY <1>0, <1>1, <1>2, <2>1 DEF ShowsAfter
<1>3. ASSUME m \in {"PrvOnFailed", "PrvOffSucceeded"} PROVE ~ShowsAfter(p, sh)
  <2>1. ASSUME NEW i \in DOMAIN p, p[i] = "PrvOnSucceeded",
               \A j \in DOMAIN p : i < j => p[j] \in Silent
        PROVE  FALSE
    <3>1. i # Len(q) + 1
      BY <1>0, <1>3, <2>1
    <3> QED  BY <1>0, <1>1, <1>3, <2>1, <3>1
  <2> QED  BY <1>0, <1>1, <1>3, <2>1 DEF ShowsAfter
<1>4. ASSUME m \in Silent PROVE ShowsAfter(p, sh) <=> ShowsAfter(q, sh)
  <2>1. (\A i \in DOMAIN p : p[i] \in Silent) <=> (\A i \in DOMAIN q : q[i] \in Silent)
    BY <1>0, <1>4
  <2>2. ASSUME NEW i \in DOMAIN p, p[i] = "PrvOnSucceeded",
               \A j \in DOMAIN p : i < j => p[j] \in Silent
        PROVE  i \in DOMAIN q /\ q[i] = "PrvOnSucceeded"
                 /\ \A j \in DOMAIN q : i < j => q[j] \in Silent
    BY <1>0, <1>1, <1>4, <2>2
  <2>3. ASSUME NEW i \in DOMAIN q, q[i] = "PrvOnSucceeded",
               \A j \in DOMAIN q : i < j => q[j] \in Silent
        PROVE  i \in DOMAIN p /\ p[i] = "PrvOnSucceeded"
                 /\ \A j \in DOMAIN p : i < j => p[j] \in Silent
    BY <1>0, <1>4, <2>3
  <2>4. CASE \A i \in DOMAIN q : q[i] \in Silent
    BY <2>1, <2>4 DEF ShowsAfter
  <2>5. CASE ~\A i \in DOMAIN q : q[i] \in Silent
    BY <2>1, <2>2, <2>3, <2>5 DEF ShowsAfter
  <2> QED  BY <2>4, <2>5
<1> QED  BY <1>0, <1>2, <1>3, <1>4 DEF p

(* What reading a message does to it.                                       *)
LEMMA ShowsRead ==
  ASSUME NEW q \in Seq(Messages), q # <<>>, NEW sh \in BOOLEAN, NEW to \in BOOLEAN,
         Head(q) = "PrvOnSucceeded" => to,
         Head(q) \in Silent => (to <=> sh),
         Head(q) # "PrvOnSucceeded" /\ Head(q) \notin Silent => ~to
  PROVE  Tail(q) \in Seq(Messages) /\ (ShowsAfter(Tail(q), to) <=> ShowsAfter(q, sh))
<1> DEFINE p == Tail(q)
<1>0. /\ p \in Seq(Messages) /\ 1 \in DOMAIN q /\ q[1] = Head(q)
      /\ \A i \in DOMAIN p : i \in Nat /\ i >= 1 /\ i + 1 \in DOMAIN q /\ p[i] = q[i + 1]
      /\ \A i \in DOMAIN q : i \in Nat /\ i >= 1 /\ (i # 1 => i - 1 \in DOMAIN p /\ p[i - 1] = q[i])
  OBVIOUS
<1>1. "PrvOnSucceeded" \notin Silent
  BY DEF Silent
<1> HIDE DEF p
<1> SUFFICES ShowsAfter(p, to) <=> ShowsAfter(q, sh)
  BY <1>0 DEF p
<1>2. (\A i \in DOMAIN q : q[i] \in Silent) <=>
        Head(q) \in Silent /\ \A i \in DOMAIN p : p[i] \in Silent
  <2>1. ASSUME \A i \in DOMAIN q : q[i] \in Silent
        PROVE  Head(q) \in Silent /\ \A i \in DOMAIN p : p[i] \in Silent
    BY <1>0, <2>1
  <2>2. ASSUME Head(q) \in Silent, \A i \in DOMAIN p : p[i] \in Silent, NEW i \in DOMAIN q
        PROVE  q[i] \in Silent
    BY <1>0, <2>2
  <2> QED  BY <2>1, <2>2
<1>3. CASE \A i \in DOMAIN p : p[i] \in Silent
  <2>1. ShowsAfter(p, to) <=> to
    BY <1>3 DEF ShowsAfter
  <2>2. CASE Head(q) \in Silent
    <3>1. ShowsAfter(q, sh) <=> sh
      BY <1>2, <1>3, <2>2 DEF ShowsAfter
    <3> QED  BY <2>1, <2>2, <3>1
  <2>3. CASE Head(q) = "PrvOnSucceeded"
    <3>1. \A j \in DOMAIN q : 1 < j => q[j] \in Silent
      <4> SUFFICES ASSUME NEW j \in DOMAIN q, 1 < j PROVE q[j] \in Silent
        OBVIOUS
      <4>1. j - 1 \in DOMAIN p /\ p[j - 1] = q[j]
        BY <1>0
      <4> QED  BY <1>3, <4>1
    <3>2. ShowsAfter(q, sh)
      BY <1>0, <1>1, <1>2, <2>3, <3>1 DEF ShowsAfter
    <3> QED  BY <2>1, <2>3, <3>2
  <2>4. CASE Head(q) \notin Silent /\ Head(q) # "PrvOnSucceeded"
    <3>1. ASSUME NEW i \in DOMAIN q, q[i] = "PrvOnSucceeded" PROVE FALSE
      BY <1>0, <1>1, <1>3, <2>4, <3>1
    <3>2. ~ShowsAfter(q, sh)
      BY <1>2, <2>4, <3>1 DEF ShowsAfter
    <3> QED  BY <2>1, <2>4, <3>2
  <2> QED  BY <2>2, <2>3, <2>4
<1>4. CASE ~\A i \in DOMAIN p : p[i] \in Silent
  <2>1. ASSUME NEW i \in DOMAIN p, p[i] = "PrvOnSucceeded",
               \A j \in DOMAIN p : i < j => p[j] \in Silent
        PROVE  ShowsAfter(q, sh)
    <3>1. i + 1 \in DOMAIN q /\ q[i + 1] = "PrvOnSucceeded"
      BY <1>0, <2>1
    <3>2. \A j \in DOMAIN q : i + 1 < j => q[j] \in Silent
      <4> SUFFICES ASSUME NEW j \in DOMAIN q, i + 1 < j PROVE q[j] \in Silent
        OBVIOUS
      <4>1. i \in Nat /\ j \in Nat /\ j # 1 /\ i < j - 1
        BY <1>0
      <4>2. j - 1 \in DOMAIN p /\ p[j - 1] = q[j]
        BY <1>0, <4>1
      <4> QED  BY <2>1, <4>1, <4>2
    <3> QED  BY <1>2, <1>4, <3>1, <3>2 DEF ShowsAfter
  <2>2. ASSUME NEW i \in DOMAIN q, q[i] = "PrvOnSucceeded",
               \A j \in DOMAIN q : i < j => q[j] \in Silent
        PROVE  ShowsAfter(p, to)
    <3>1. PICK k \in DOMAIN p : p[k] \notin Silent
      BY <1>4
    <3>2. i # 1
      <4>1. k + 1 \in DOMAIN q /\ q[k + 1] \notin Silent /\ 1 < k + 1
        BY <1>0, <3>1
      <4> QED  BY <2>2, <4>1
    <3>3. i - 1 \in DOMAIN p /\ p[i - 1] = "PrvOnSucceeded"
      BY <1>0, <2>2, <3>2
    <3>4. \A j \in DOMAIN p : i - 1 < j => p[j] \in Silent
      <4> SUFFICES ASSUME NEW j \in DOMAIN p, i - 1 < j PROVE p[j] \in Silent
        OBVIOUS
      <4>1. j + 1 \in DOMAIN q /\ p[j] = q[j + 1] /\ j \in Nat /\ i \in Nat
        BY <1>0
      <4>2. i < j + 1
        BY <4>1
      <4> QED  BY <2>2, <4>1, <4>2
    <3> QED  BY <1>4, <3>3, <3>4 DEF ShowsAfter
  <2>3. ~\A i \in DOMAIN q : q[i] \in Silent
    BY <1>2, <1>4
  <2>4. /\ ShowsAfter(p, to) <=> \E i \in DOMAIN p : p[i] = "PrvOnSucceeded" /\
              \A j \in DOMAIN p : i < j => p[j] \in Silent
        /\ ShowsAfter(q, sh) <=> \E i \in DOMAIN q : q[i] = "PrvOnSucceeded" /\
              \A j \in DOMAIN q : i < j => q[j] \in Silent
    BY <1>4, <2>3 DEF ShowsAfter
  <2> QED  BY <2>1, <2>2, <2>4
<1> QED  BY <1>3, <1>4

(* At the start nobody has it and nothing is shown.                         *)
LEMMA PrivacyInitially == Privacy!Init => PrivacyInv
<1> SUFFICES ASSUME Privacy!Init PROVE PrivacyInv
  OBVIOUS
<1> USE DEF Privacy!Init
<1>1. PrivacyTyped
  BY DEF PrivacyTyped
<1>2. Working /\ ShowsTruly
  BY Nobody DEF Working, ShowsTruly
<1>3. Privacy!AloneUnlessMissed
  BY DEF Privacy!AloneUnlessMissed, Privacy!Alone, Privacy!is_in_privacy_mode
<1> QED  BY <1>1, <1>2, <1>3 DEF PrivacyInv

(* What is sent to a client, and what that does to what it will show.       *)
LEMMA Sent ==
  ASSUME PrivacyTyped, NEW c \in Controllers, NEW m \in Messages, Privacy!send(c, m), shown' = shown
  PROVE  /\ down' \in [Controllers -> Seq(Messages)]
         /\ \A d \in Controllers \ {c} : down'[d] = down[d]
         /\ \A d \in Controllers : \A i \in DOMAIN down[d] :
              i \in DOMAIN down'[d] /\ down'[d][i] = down[d][i]
         /\ \A d \in Controllers \ {c} : WillShow(d)' <=> WillShow(d)
         /\ m = "PrvOnSucceeded" => WillShow(c)'
         /\ m \in {"PrvOnFailed", "PrvOffSucceeded"} => ~WillShow(c)'
         /\ m \in Silent => (WillShow(c)' <=> WillShow(c))
<1>1. down[c] \in Seq(Messages) /\ shown[c] \in BOOLEAN /\ down \in [Controllers -> Seq(Messages)]
  BY DEF PrivacyTyped
<1>2. down' = [down EXCEPT ![c] = Append(@, m)]
  BY DEF Privacy!send
<1>3. down'[c] = Append(down[c], m) /\ \A d \in Controllers \ {c} : down'[d] = down[d]
  BY <1>1, <1>2
<1>4. down' \in [Controllers -> Seq(Messages)]
  BY <1>1, <1>2, ShowsAppended
<1>5. \A i \in DOMAIN down[c] : i \in DOMAIN down'[c] /\ down'[c][i] = down[c][i]
  BY <1>1, <1>3
<1>6. /\ m = "PrvOnSucceeded" => ShowsAfter(down'[c], shown[c])
      /\ m \in {"PrvOnFailed", "PrvOffSucceeded"} => ~ShowsAfter(down'[c], shown[c])
      /\ m \in Silent => (ShowsAfter(down'[c], shown[c]) <=> ShowsAfter(down[c], shown[c]))
  BY <1>1, <1>3, ShowsAppended
<1>7. \A d \in Controllers \ {c} : WillShow(d)' <=> WillShow(d)
  BY <1>3 DEF WillShow
<1> QED  BY <1>3, <1>4, <1>5, <1>6, <1>7 DEF WillShow

(* Nobody is left with the owner while a message more is on its way.        *)
LEMMA AloneKept ==
  ASSUME Privacy!AloneUnlessMissed, missed => missed', conn_id' = conn_id, ci' = ci,
         \A d \in Controllers : st'[d] = "on" => st[d] = "on",
         \A d \in Controllers : \A i \in DOMAIN down[d] : down[d][i] = "PrvOnByOther" /\ st'[d] = "on" =>
           \E j \in DOMAIN down'[d] : down'[d][j] = "PrvOnByOther"
  PROVE  Privacy!AloneUnlessMissed'
BY DEF Privacy!AloneUnlessMissed, Privacy!Alone, Privacy!is_in_privacy_mode

(* ... and nobody has to be while there is no owner.                        *)
LEMMA NoOwner ==
  ASSUME conn_id' = Privacy!INVALID
  PROVE  Privacy!AloneUnlessMissed'
BY DEF Privacy!AloneUnlessMissed, Privacy!Alone, Privacy!is_in_privacy_mode

(* Nothing that the privacy mode depends on changes.                        *)
LEMMA PrivacyRests ==
  ASSUME PrivacyInv, UNCHANGED privacy_vars
  PROVE  PrivacyInv'
<1> USE DEF PrivacyInv, privacy_vars
<1>1. PrivacyTyped'
  BY DEF PrivacyTyped
<1>2. Working'
  BY DEF Working
<1>3. ShowsTruly'
  BY DEF ShowsTruly, WillShow
<1>4. Privacy!AloneUnlessMissed'
  BY DEF Privacy!AloneUnlessMissed, Privacy!Alone, Privacy!is_in_privacy_mode
<1> QED  BY <1>1, <1>2, <1>3, <1>4

(* A request to log in, and its success.                                    *)
LEMMA PrivacyLogin ==
  ASSUME PrivacyInv, NEW c \in Controllers, Privacy!login_request(c) \/ Privacy!authorized(c)
  PROVE  PrivacyInv'
<1> USE DEF PrivacyInv
<1>0. /\ st[c] \in {"off", "login"} /\ \E s \in {"login", "on"} : st' = [st EXCEPT ![c] = s]
      /\ UNCHANGED <<conn_id, lock, task, job, down, shown, ci, ousted>>
  BY DEF Privacy!login_request, Privacy!authorized, Privacy!turn
<1>1. PrivacyTyped'
  BY <1>0 DEF PrivacyTyped
<1>2. \A d \in Controllers \ {c} : st'[d] = st[d]
  BY <1>0 DEF PrivacyTyped
<1>3. st'[c] \in {"login", "on"} /\ st[c] # "on"
  BY <1>0 DEF PrivacyTyped
<1>4. Working'
  BY <1>0, <1>2, <1>3 DEF Working
<1>5. conn_id # c /\ job[c] = "none" /\ down[c] = <<>> /\ ~shown[c]
  BY <1>0 DEF Working
<1>6. ~WillShow(c)
  BY <1>5 DEF WillShow, ShowsAfter
<1>7. ShowsTruly'
  <2>1. ASSUME NEW d \in Controllers PROVE WillShow(d)' <=> WillShow(d)
    BY <1>0 DEF WillShow
  <2> QED  BY <1>0, <1>2, <1>5, <1>6, <2>1 DEF ShowsTruly
<1>8. Privacy!AloneUnlessMissed'
  <2>1. CASE Privacy!login_request(c)
    <3>1. st'[c] = "login" /\ missed' = missed
      BY <2>1, <1>0 DEF Privacy!login_request, PrivacyTyped
    <3> QED  BY <1>0, <1>2, <3>1, AloneKept
  <2>2. CASE Privacy!authorized(c)
    <3>1. missed' = (missed \/ conn_id # Privacy!INVALID \/ lock # Privacy!Free)
      BY <2>2 DEF Privacy!authorized, Privacy!is_in_privacy_mode
    <3> QED  BY <1>0, <3>1 DEF Privacy!AloneUnlessMissed, Privacy!Alone, Privacy!is_in_privacy_mode
  <2> QED  BY <2>1, <2>2
<1> QED  BY <1>1, <1>4, <1>7, <1>8

(* The thread that turns it on begins.                                      *)
LEMMA PrivacyJob ==
  ASSUME PrivacyInv, NEW c \in Controllers,
         Privacy!turn_on_privacy(c) \/ Privacy!job_lock(c) \/ Privacy!timeout(c)
  PROVE  PrivacyInv'
<1> USE DEF PrivacyInv
<1>0. UNCHANGED <<conn_id, st, down, shown, ci, ousted, missed>>
  BY DEF Privacy!turn_on_privacy, Privacy!toggle, Privacy!job_lock, Privacy!timeout
<1>1. \A d \in Controllers : WillShow(d)' <=> WillShow(d)
  BY <1>0 DEF WillShow
<1>2. Privacy!AloneUnlessMissed'
  BY <1>0, AloneKept
<1>3. CASE Privacy!turn_on_privacy(c)
  <2>1. /\ st[c] = "on" /\ task[c] = "idle" /\ job[c] = "none"
        /\ task' = [task EXCEPT ![c] = "waiting"] /\ job' = [job EXCEPT ![c] = "start"] /\ lock' = lock
    BY <1>3 DEF Privacy!turn_on_privacy, Privacy!toggle
  <2>2. PrivacyTyped'
    BY <1>0, <2>1 DEF PrivacyTyped
  <2>3. /\ task'[c] = "waiting" /\ job'[c] = "start"
        /\ \A d \in Controllers \ {c} : task'[d] = task[d] /\ job'[d] = job[d]
    BY <2>1 DEF PrivacyTyped
  <2>4. Working'
    BY <1>0, <2>1, <2>3 DEF Working
  <2>5. ShowsTruly'
    BY <1>0, <1>1, <2>1, <2>3 DEF ShowsTruly
  <2> QED  BY <1>2, <2>2, <2>4, <2>5
<1>4. CASE Privacy!job_lock(c)
  <2>0. /\ job[c] = "start" /\ lock = Privacy!Free /\ task' = task
        /\ job' = [job EXCEPT ![c] = Privacy!check_on_conn_id(c)]
        /\ lock' = IF Privacy!check_on_conn_id(c) = "working" THEN c ELSE Privacy!Free
    BY <1>4 DEF Privacy!job_lock
  <2>1. /\ Privacy!check_on_conn_id(c) \in {"ok", "working", "error"}
        /\ Privacy!check_on_conn_id(c) = "ok" <=> conn_id = c
        /\ Privacy!check_on_conn_id(c) = "working" <=> conn_id = Privacy!INVALID
    BY Nobody DEF Privacy!check_on_conn_id
  <2>2. PrivacyTyped'
    BY <1>0, <2>0, <2>1 DEF PrivacyTyped
  <2>3. /\ job'[c] = Privacy!check_on_conn_id(c)
        /\ \A d \in Controllers \ {c} : job'[d] = job[d]
    BY <2>0 DEF PrivacyTyped
  <2>4. Working'
    BY <1>0, <2>0, <2>1, <2>3, Nobody DEF Working
  <2>5. ShowsTruly'
    BY <1>0, <1>1, <2>0, <2>1, <2>3 DEF ShowsTruly
  <2> QED  BY <1>2, <2>2, <2>4, <2>5
<1>5. CASE Privacy!timeout(c)
  <2>1. /\ task[c] = "waiting" /\ task' = [task EXCEPT ![c] = "late"] /\ job' = job /\ lock' = lock
    BY <1>5 DEF Privacy!timeout
  <2>2. PrivacyTyped'
    BY <1>0, <2>1 DEF PrivacyTyped
  <2>3. task'[c] = "late" /\ \A d \in Controllers \ {c} : task'[d] = task[d]
    BY <2>1 DEF PrivacyTyped
  <2>4. Working'
    BY <1>0, <2>1, <2>3 DEF Working
  <2>5. ShowsTruly'
    BY <1>0, <1>1, <2>1 DEF ShowsTruly
  <2> QED  BY <1>2, <2>2, <2>4, <2>5
<1> QED  BY <1>3, <1>4, <1>5

(* The thread ends.                                                         *)
LEMMA PrivacyJobDone ==
  ASSUME PrivacyInv, NEW c \in Controllers, Privacy!job_done(c)
  PROVE  PrivacyInv'
<1> USE DEF PrivacyInv
<1>0. /\ lock = c /\ lock' = Privacy!Free /\ UNCHANGED <<task, st, down, shown, ci, ousted>>
      /\ \/ conn_id' = c /\ job' = [job EXCEPT ![c] = "ok"] /\ missed' = (missed \/ ci = c)
         \/ conn_id' = Privacy!INVALID /\ job' = [job EXCEPT ![c] = "error"] /\ missed' = missed
  BY DEF Privacy!job_done
<1>1. \A d \in Controllers : WillShow(d)' <=> WillShow(d)
  BY <1>0 DEF WillShow
<1>2. /\ conn_id = Privacy!INVALID /\ job[c] = "working" /\ st[c] = "on"
      /\ \A d \in Controllers \ {c} : job[d] # "working"
  BY <1>0, Nobody DEF Working
<1>3. PrivacyTyped'
  BY <1>0 DEF PrivacyTyped
<1>4. /\ \A d \in Controllers \ {c} : job'[d] = job[d]
      /\ \/ conn_id' = c /\ job'[c] = "ok"
         \/ conn_id' = Privacy!INVALID /\ job'[c] = "error"
  BY <1>0 DEF PrivacyTyped
<1>5. Working'
  BY <1>0, <1>2, <1>4, Nobody DEF Working
<1>6. ShowsTruly'
  <2>1. ASSUME NEW d \in Controllers \ {c} PROVE conn_id # d /\ conn_id' # d
    BY <1>2, <1>4, Nobody
  <2> QED  BY <1>0, <1>1, <1>2, <1>4, <2>1 DEF ShowsTruly
<1>7. Privacy!AloneUnlessMissed'
  BY <1>0 DEF Privacy!AloneUnlessMissed, Privacy!Alone, Privacy!is_in_privacy_mode
<1> QED  BY <1>3, <1>5, <1>6, <1>7

(* The connection sees how its job has ended, or that it has waited too     *)
(* long; at an error the mode is turned off, whoever has it.                *)
LEMMA PrivacyAnswer ==
  ASSUME PrivacyInv, NEW c \in Controllers, Privacy!answer(c) \/ Privacy!answer_late(c)
  PROVE  PrivacyInv'
<1> USE DEF PrivacyInv
<1>0. /\ lock = Privacy!Free /\ task[c] # "idle" /\ UNCHANGED <<lock, st, shown, ci, missed>>
      /\ task' = [task EXCEPT ![c] = "idle"] /\ job' = [job EXCEPT ![c] = "none"]
  BY DEF Privacy!answer, Privacy!answer_late
<1>1. \/ /\ Privacy!send(c, "PrvOnSucceeded") /\ UNCHANGED <<conn_id, ousted>> /\ job[c] = "ok"
      \/ /\ Privacy!send(c, "PrvOnFailed") /\ conn_id' = Privacy!INVALID
         /\ ousted' = IF conn_id \in {c, Privacy!INVALID} THEN ousted ELSE ousted \cup {conn_id}
  BY DEF Privacy!answer, Privacy!answer_late, Privacy!turn_off_after_error
<1>2. PICK m \in {"PrvOnSucceeded", "PrvOnFailed"} :
        /\ Privacy!send(c, m)
        /\ m = "PrvOnSucceeded" => UNCHANGED <<conn_id, ousted>> /\ job[c] = "ok"
        /\ m = "PrvOnFailed" =>
             /\ conn_id' = Privacy!INVALID
             /\ ousted' = IF conn_id \in {c, Privacy!INVALID} THEN ousted ELSE ousted \cup {conn_id}
  BY <1>1
<1>3. m \in Messages /\ m # "PrvOnByOther"
  BY DEF Messages
<1>4. /\ down' \in [Controllers -> Seq(Messages)]
      /\ \A d \in Controllers \ {c} : down'[d] = down[d]
      /\ \A d \in Controllers : \A i \in DOMAIN down[d] :
           i \in DOMAIN down'[d] /\ down'[d][i] = down[d][i]
      /\ \A d \in Controllers \ {c} : WillShow(d)' <=> WillShow(d)
      /\ m = "PrvOnSucceeded" => WillShow(c)'
      /\ m = "PrvOnFailed" => ~WillShow(c)'
  BY <1>0, <1>2, <1>3, Sent
<1>5. PrivacyTyped'
  BY <1>0, <1>2, <1>4 DEF PrivacyTyped
<1>6. /\ task'[c] = "idle" /\ job'[c] = "none"
      /\ \A d \in Controllers \ {c} : task'[d] = task[d] /\ job'[d] = job[d]
  BY <1>0 DEF PrivacyTyped
<1>7. st[c] = "on"
  BY <1>0 DEF Working
<1>8. Working'
  BY <1>0, <1>2, <1>4, <1>6, <1>7, Nobody DEF Working
<1>9. ShowsTruly'
  <2>1. ASSUME c \notin ousted' PROVE WillShow(c)' <=> conn_id' = c
    <3>1. CASE m = "PrvOnSucceeded"
      <4>1. conn_id' = c
        BY <1>2, <1>7, <2>1, <3>1 DEF ShowsTruly
      <4> QED  BY <1>4, <3>1, <4>1
    <3>2. CASE m = "PrvOnFailed"
      BY <1>2, <1>4, <3>2, Nobody
    <3> QED  BY <3>1, <3>2
  <2>2. ASSUME NEW d \in Controllers \ {c}, d \notin ousted'
        PROVE  d \notin ousted /\ (conn_id' = d <=> conn_id = d)
    <3>1. CASE m = "PrvOnSucceeded"
      BY <1>2, <2>2, <3>1
    <3>2. CASE m = "PrvOnFailed"
      <4>1. conn_id # d /\ d \notin ousted
        BY <1>2, <2>2, <3>2, Nobody
      <4> QED  BY <1>2, <3>2, <4>1, Nobody
    <3> QED  BY <3>1, <3>2
  <2> QED  BY <1>0, <1>4, <1>6, <2>1, <2>2 DEF ShowsTruly
<1>10. Privacy!AloneUnlessMissed'
  <2>1. CASE m = "PrvOnSucceeded"
    BY <1>0, <1>2, <1>4, <2>1, AloneKept
  <2>2. CASE m = "PrvOnFailed"
    BY <1>2, <2>2, NoOwner
  <2> QED  BY <2>1, <2>2
<1> QED  BY <1>5, <1>8, <1>9, <1>10

(* The owner turns it off; another may not.                                 *)
LEMMA PrivacyOff ==
  ASSUME PrivacyInv, NEW c \in Controllers, Privacy!turn_off_privacy(c)
  PROVE  PrivacyInv'
<1> USE DEF PrivacyInv
<1>0. /\ st[c] = "on" /\ task[c] = "idle" /\ lock = Privacy!Free
      /\ UNCHANGED <<lock, task, job, st, shown, ci, ousted, missed>>
  BY DEF Privacy!turn_off_privacy, Privacy!toggle
<1>1. PICK m \in {"PrvOffSucceeded", "PrvOffFailed"} :
        /\ Privacy!send(c, m)
        /\ m = "PrvOffSucceeded" => conn_id \in {c, Privacy!INVALID} /\ conn_id' = Privacy!INVALID
        /\ m = "PrvOffFailed" => conn_id' = conn_id
  BY DEF Privacy!turn_off_privacy, Privacy!check_off_conn_id
<1>2. m \in Messages /\ (m = "PrvOffFailed" => m \in Silent)
  BY DEF Messages, Silent
<1>3. /\ down' \in [Controllers -> Seq(Messages)]
      /\ \A d \in Controllers \ {c} : down'[d] = down[d]
      /\ \A d \in Controllers : \A i \in DOMAIN down[d] :
           i \in DOMAIN down'[d] /\ down'[d][i] = down[d][i]
      /\ \A d \in Controllers \ {c} : WillShow(d)' <=> WillShow(d)
      /\ m = "PrvOffSucceeded" => ~WillShow(c)'
      /\ m = "PrvOffFailed" => (WillShow(c)' <=> WillShow(c))
  BY <1>0, <1>1, <1>2, Sent
<1>4. PrivacyTyped'
  BY <1>0, <1>1, <1>3 DEF PrivacyTyped
<1>5. Working'
  BY <1>0, <1>1, <1>3, Nobody DEF Working
<1>6. ShowsTruly'
  <2>1. CASE m = "PrvOffSucceeded"
    <3>1. \A d \in Controllers \ {c} : conn_id # d /\ conn_id' # d
      BY <1>1, <2>1, Nobody
    <3>2. conn_id' # c /\ job[c] = "none"
      BY <1>0, <1>1, <2>1, Nobody DEF Working
    <3> QED  BY <1>0, <1>3, <2>1, <3>1, <3>2 DEF ShowsTruly
  <2>2. CASE m = "PrvOffFailed"
    BY <1>0, <1>1, <1>3, <2>2 DEF ShowsTruly
  <2> QED  BY <2>1, <2>2
<1>7. Privacy!AloneUnlessMissed'
  <2>1. CASE m = "PrvOffSucceeded"
    BY <1>1, <2>1, NoOwner
  <2>2. CASE m = "PrvOffFailed"
    BY <1>0, <1>1, <1>3, <2>2, AloneKept
  <2> QED  BY <2>1, <2>2
<1> QED  BY <1>4, <1>5, <1>6, <1>7

(* A connection closes, and leaves no mode behind.                          *)
LEMMA PrivacyClose ==
  ASSUME PrivacyInv, NEW c \in Controllers, Privacy!on_close(c)
  PROVE  PrivacyInv'
<1> USE DEF PrivacyInv
<1>0. /\ st[c] = "on" /\ task[c] = "idle" /\ lock = Privacy!Free
      /\ st' = [st EXCEPT ![c] = "closed"]
      /\ conn_id' = IF conn_id = c THEN Privacy!INVALID ELSE conn_id
      /\ down' = [down EXCEPT ![c] = <<>>] /\ shown' = [shown EXCEPT ![c] = FALSE]
      /\ UNCHANGED <<lock, task, job, ci, ousted, missed>>
  BY DEF Privacy!on_close
<1>1. PrivacyTyped'
  <2>1. down' \in [Controllers -> Seq(Messages)]
    BY <1>0 DEF PrivacyTyped
  <2>2. shown' \in [Controllers -> BOOLEAN]
    BY <1>0 DEF PrivacyTyped
  <2> QED  BY <1>0, <2>1, <2>2 DEF PrivacyTyped
<1>2. /\ st'[c] = "closed"
      /\ \A d \in Controllers \ {c} : st'[d] = st[d] /\ down'[d] = down[d]
  BY <1>0 DEF PrivacyTyped
<1>3. \A d \in Controllers \ {c} : shown'[d] = shown[d]
  BY <1>0 DEF PrivacyTyped
<1>4. conn_id' # c /\ \A d \in Controllers \ {c} : conn_id' = d <=> conn_id = d
  BY <1>0, Nobody
<1>5. Working'
  BY <1>0, <1>2, <1>3, <1>4, Nobody DEF Working
<1>6. ASSUME NEW d \in Controllers \ {c} PROVE WillShow(d)' <=> WillShow(d)
  BY <1>2, <1>3 DEF WillShow
<1>7. ShowsTruly'
  BY <1>0, <1>2, <1>4, <1>6 DEF ShowsTruly
<1>8. Privacy!AloneUnlessMissed'
  <2>1. CASE conn_id = c
    BY <1>0, <2>1, NoOwner
  <2>2. CASE conn_id # c
    <3>1. \A d \in Controllers : st'[d] = "on" => d # c /\ st[d] = "on"
      BY <1>2
    <3> QED  BY <1>0, <1>2, <2>2, <3>1, AloneKept
  <2> QED  BY <2>1, <2>2
<1> QED  BY <1>1, <1>5, <1>7, <1>8

(* A client reads a message.                                                *)
LEMMA PrivacyRead ==
  ASSUME PrivacyInv, NEW c \in Controllers, Privacy!handle_back_msg_privacy_mode(c)
  PROVE  PrivacyInv'
<1> USE DEF PrivacyInv
<1>0. /\ down[c] # <<>> /\ Head(down[c]) # "PrvOnByOther"
      /\ down' = [down EXCEPT ![c] = Tail(@)]
      /\ UNCHANGED <<conn_id, lock, task, job, st, ci, ousted, missed>>
  BY DEF Privacy!handle_back_msg_privacy_mode, Privacy!turn
<1>a. shown' = [shown EXCEPT ![c] = CASE Head(down[c]) = "PrvOnSucceeded" -> TRUE
         [] Head(down[c]) = "PrvOffFailed" -> @ [] OTHER -> FALSE]
  BY DEF Privacy!handle_back_msg_privacy_mode
<1>1. down[c] \in Seq(Messages) /\ shown[c] \in BOOLEAN
  BY DEF PrivacyTyped
<1>2. /\ down'[c] = Tail(down[c]) /\ \A d \in Controllers \ {c} : down'[d] = down[d]
  BY <1>0 DEF PrivacyTyped
<1>3. /\ shown' \in [Controllers -> BOOLEAN]
      /\ \A d \in Controllers \ {c} : shown'[d] = shown[d]
  BY <1>a, <1>1 DEF PrivacyTyped
<1>4. /\ Head(down[c]) = "PrvOnSucceeded" => shown'[c]
      /\ Head(down[c]) \in Silent => (shown'[c] <=> shown[c])
      /\ Head(down[c]) # "PrvOnSucceeded" /\ Head(down[c]) \notin Silent => ~shown'[c]
  <2>1. shown'[c] = CASE Head(down[c]) = "PrvOnSucceeded" -> TRUE
         [] Head(down[c]) = "PrvOffFailed" -> shown[c] [] OTHER -> FALSE
    BY <1>a DEF PrivacyTyped
  <2>2. Head(down[c]) \in Silent <=> Head(down[c]) = "PrvOffFailed"
    BY <1>0 DEF Silent
  <2>3. CASE Head(down[c]) = "PrvOnSucceeded"
    <3>1. shown'[c] = TRUE
      BY <2>1, <2>3
    <3>2. Head(down[c]) # "PrvOffFailed"
      BY <2>3
    <3> QED  BY <2>2, <2>3, <3>1, <3>2
  <2>4. CASE Head(down[c]) = "PrvOffFailed"
    <3>1. Head(down[c]) # "PrvOnSucceeded"
      BY <2>4
    <3>2. shown'[c] = shown[c]
      BY <2>1, <2>4, <3>1
    <3> QED  BY <2>2, <2>4, <3>1, <3>2
  <2>5. CASE Head(down[c]) # "PrvOnSucceeded" /\ Head(down[c]) # "PrvOffFailed"
    <3>1. shown'[c] = FALSE
      BY <2>1, <2>5
    <3> QED  BY <2>2, <2>5, <3>1
  <2> QED  BY <2>3, <2>4, <2>5
<1>5. Tail(down[c]) \in Seq(Messages)
        /\ (ShowsAfter(Tail(down[c]), shown'[c]) <=> ShowsAfter(down[c], shown[c]))
  <2>1. shown'[c] \in BOOLEAN
    BY <1>3
  <2> QED  BY <1>0, <1>1, <1>4, <2>1, ShowsRead
<1>6. \A d \in Controllers : WillShow(d)' <=> WillShow(d)
  BY <1>2, <1>3, <1>5 DEF WillShow
<1>7. PrivacyTyped'
  BY <1>0, <1>3, <1>5 DEF PrivacyTyped
<1>8. Working'
  BY <1>0, <1>2, <1>3 DEF Working
<1>9. ShowsTruly'
  BY <1>0, <1>6 DEF ShowsTruly
<1>10. \A i \in DOMAIN down[c] : down[c][i] = "PrvOnByOther" =>
         \E j \in DOMAIN down'[c] : down'[c][j] = "PrvOnByOther"
  <2> SUFFICES ASSUME NEW i \in DOMAIN down[c], down[c][i] = "PrvOnByOther"
               PROVE  i - 1 \in DOMAIN Tail(down[c]) /\ Tail(down[c])[i - 1] = "PrvOnByOther"
    BY <1>2
  <2>1. i # 1
    BY <1>0, <1>1
  <2>2. down[c] \in Seq(Messages) /\ down[c] # <<>>
    BY <1>0, <1>1
  <2>3. i - 1 \in 1 .. Len(down[c]) - 1 /\ (i - 1) + 1 = i
    BY <2>1, <2>2
  <2> QED  BY <2>2, <2>3
<1>11. Privacy!AloneUnlessMissed'
  BY <1>0, <1>2, <1>10, AloneKept
<1> QED  BY <1>7, <1>8, <1>9, <1>11

(* The video service begins a capture, sees the owner change and tells the  *)
(* others to leave, or begins anew.                                         *)
LEMMA PrivacyCapture ==
  ASSUME PrivacyInv,
         Privacy!get_capturer \/ Privacy!check_privacy_mode_changed \/ Privacy!switch
  PROVE  PrivacyInv'
<1> USE DEF PrivacyInv
<1>0. UNCHANGED <<conn_id, lock, task, job, st, shown, ousted>>
  BY DEF Privacy!get_capturer, Privacy!check_privacy_mode_changed, Privacy!switch, Privacy!turn
<1>1. /\ ci' \in {conn_id, Privacy!None}
      /\ \/ down' = down /\ UNCHANGED missed /\ ci' = Privacy!None
         \/ down' = down /\ missed' = (missed \/ conn_id # Privacy!INVALID)
         \/ Privacy!send_to_others /\ missed' = missed
         \/ down' = down /\ missed' = missed /\ conn_id = Privacy!INVALID
  BY DEF Privacy!get_capturer, Privacy!check_privacy_mode_changed, Privacy!switch,
         Privacy!is_in_privacy_mode
<1>2. down \in [Controllers -> Seq(Messages)] /\ shown \in [Controllers -> BOOLEAN]
  BY DEF PrivacyTyped
<1>3. "PrvOnByOther" \in Messages /\ "PrvOnByOther" \in Silent
  BY DEF Messages, Silent
<1>4. ASSUME Privacy!send_to_others
      PROVE  /\ down' \in [Controllers -> Seq(Messages)]
             /\ \A d \in Controllers : WillShow(d)' <=> WillShow(d)
             /\ \A d \in Controllers : st[d] # "on" => down'[d] = down[d]
             /\ \A d \in Controllers \ {conn_id} : st[d] = "on" =>
                  \E i \in DOMAIN down'[d] : down'[d][i] = "PrvOnByOther"
  <2>1. down' = [d \in Controllers |->
           IF st[d] = "on" /\ d # conn_id THEN Append(down[d], "PrvOnByOther") ELSE down[d]]
    BY <1>4 DEF Privacy!send_to_others
  <2>2. ASSUME NEW d \in Controllers, down'[d] = Append(down[d], "PrvOnByOther")
        PROVE  /\ Append(down[d], "PrvOnByOther") \in Seq(Messages)
               /\ WillShow(d)' <=> WillShow(d)
               /\ \E i \in DOMAIN down'[d] : down'[d][i] = "PrvOnByOther"
    <3>1. down[d] \in Seq(Messages) /\ shown[d] \in BOOLEAN
      BY <1>2
    <3>2. /\ Append(down[d], "PrvOnByOther") \in Seq(Messages)
          /\ ShowsAfter(down'[d], shown[d]) <=> ShowsAfter(down[d], shown[d])
      BY <1>3, <2>2, <3>1, ShowsAppended
    <3>3. Len(down[d]) + 1 \in DOMAIN down'[d] /\ down'[d][Len(down[d]) + 1] = "PrvOnByOther"
      BY <2>2, <3>1
    <3> QED  BY <1>0, <3>2, <3>3 DEF WillShow
  <2>3. ASSUME NEW d \in Controllers, down'[d] = down[d] PROVE WillShow(d)' <=> WillShow(d)
    BY <1>0, <2>3 DEF WillShow
  <2>4. \A d \in Controllers : down'[d] = down[d] \/
          (down'[d] = Append(down[d], "PrvOnByOther") /\ st[d] = "on" /\ d # conn_id)
    BY <2>1
  <2>5. down' \in [Controllers -> Seq(Messages)]
    <3>1. \A d \in Controllers : Append(down[d], "PrvOnByOther") \in Seq(Messages)
      BY <1>2, <1>3
    <3> QED  BY <1>2, <2>1, <3>1
  <2>6. ASSUME NEW d \in Controllers \ {conn_id}, st[d] = "on"
        PROVE  down'[d] = Append(down[d], "PrvOnByOther")
    BY <2>1, <2>6
  <2> QED  BY <2>2, <2>3, <2>4, <2>5, <2>6
<1>5. /\ down' \in [Controllers -> Seq(Messages)]
      /\ \A d \in Controllers : WillShow(d)' <=> WillShow(d)
      /\ \A d \in Controllers : st[d] # "on" => down'[d] = down[d]
  <2>1. CASE down' = down
    BY <1>0, <1>2, <2>1 DEF WillShow
  <2>2. CASE Privacy!send_to_others
    BY <1>4, <2>2
  <2> QED  BY <1>1, <2>1, <2>2
<1>6. PrivacyTyped'
  BY <1>0, <1>1, <1>5 DEF PrivacyTyped
<1>7. Working'
  BY <1>0, <1>5 DEF Working
<1>8. ShowsTruly'
  BY <1>0, <1>5 DEF ShowsTruly
<1>9. Privacy!AloneUnlessMissed'
  <2>1. CASE conn_id = Privacy!INVALID
    BY <1>0, <2>1, NoOwner
  <2>2. CASE ci' = Privacy!None
    <3>1. ci' # conn_id'
      BY <1>0, <2>2, Nobody DEF PrivacyTyped
    <3> QED  BY <3>1 DEF Privacy!AloneUnlessMissed, Privacy!Alone
  <2>3. CASE missed'
    BY <2>3 DEF Privacy!AloneUnlessMissed
  <2>4. CASE Privacy!send_to_others
    BY <1>0, <1>4, <2>4 DEF Privacy!AloneUnlessMissed, Privacy!Alone
  <2> QED  BY <1>1, <2>1, <2>2, <2>3, <2>4
<1> QED  BY <1>6, <1>7, <1>8, <1>9

(* Every step of the privacy mode keeps its invariant.                      *)
LEMMA PrivacyStep == PrivacyInv /\ [Privacy!Next]_privacy_vars => PrivacyInv'
<1> SUFFICES ASSUME PrivacyInv, [Privacy!Next]_privacy_vars PROVE PrivacyInv'
  OBVIOUS
<1>1. ASSUME NEW c \in Controllers, Privacy!exit_by_other(c) PROVE PrivacyInv'
  BY <1>1, PrivacyClose DEF Privacy!exit_by_other
<1> QED  BY <1>1, PrivacyRests, PrivacyLogin, PrivacyJob, PrivacyJobDone, PrivacyAnswer, PrivacyOff,
         PrivacyClose, PrivacyRead, PrivacyCapture DEF Privacy!Next

(* What it promises follows.                                                *)
LEMMA PrivacyFollows == PrivacyInv => Privacy!ShownTruly /\ Privacy!AloneUnlessMissed
<1> SUFFICES ASSUME PrivacyInv, NEW c \in Controllers \ ousted, st[c] = "on", down[c] = <<>>,
                    task[c] = "idle"
             PROVE  shown[c] <=> conn_id = c
  BY DEF Privacy!ShownTruly, PrivacyInv
<1>1. job[c] = "none"
  BY DEF PrivacyInv, Working
<1>2. WillShow(c) <=> conn_id = c
  BY <1>1 DEF PrivacyInv, ShowsTruly
<1>3. WillShow(c) <=> shown[c]
  BY DEF WillShow, ShowsAfter
<1> QED  BY <1>2, <1>3

-----------------------------------------------------------------------------
(* The frame rate with several viewers (VideoQoS).                          *)

(* A user of the host. The rate that he wishes is one that the host can do, *)
(* and his choice of a quality has the number of an option that was set.    *)
IsUser(u, n) ==
  /\ u = [fps |-> u.fps, delayed |-> u.delayed, samples |-> u.samples, min_rtt |-> u.min_rtt,
          smoothed |-> u.smoothed, quick |-> u.quick, increase |-> u.increase,
          custom |-> u.custom, quality |-> u.quality]
  /\ u.fps \in Nat /\ u.custom \in 1 .. 120 /\ u.samples \in Seq(Nat)
  /\ u.min_rtt \in Nat /\ u.smoothed \in Nat /\ u.quick \in Nat /\ u.increase \in Nat
  /\ u.quality \in (0 .. n) \X {"best", "balanced", "low"}

(* The users of the connections that are open.                              *)
AreUsers(us, n) ==
  /\ DOMAIN us = Viewers /\ us = [c \in Viewers |-> us[c]]
  /\ \A c \in Viewers : us[c] = Both!NoUser \/ IsUser(us[c], n)

RateTyped ==
  /\ fps \in 1 .. 120 /\ fresh \in BOOLEAN /\ options \in Nat /\ AreUsers(users, options)
  /\ net \in [Viewers -> Nat] /\ asked \in [Viewers -> -1 .. 3]
  /\ \A c \in due : c \in Viewers /\ IsUser(users[c], options)

(* ... and while the answer of one is overdue, the rate is low.             *)
RateInv == RateTyped /\ Both!StallSlows

(* A set of numbers that is not empty has a least one.                      *)
LEMMA LeastIs ==
  ASSUME NEW S \in SUBSET Nat, S # {}
  PROVE  Both!Least(S) \in S /\ \A m \in S : Both!Least(S) <= m
<1> DEFINE Below == {ss \in Nat \X Nat : ss[1] < ss[2]}
<1>1. IsWellFoundedOn(Below, Nat)
  <2>1. OpToRel(<, Nat) = Below
    BY DEF OpToRel
  <2> QED  BY <2>1, NatLessThanWellFounded
<1> HIDE DEF Below
<1>2. PICK n \in S : \A m \in S : ~(<<m, n>> \in Below)
  BY <1>1, WFMin
<1>3. ASSUME NEW m \in S PROVE n <= m
  <2>1. ~(m < n)
    BY <1>2 DEF Below
  <2> QED  BY <2>1
<1> QED  BY <1>3 DEF Both!Least

(* ... and one that has a bound a greatest.                                 *)
LEMMA GreatestIs ==
  ASSUME NEW n \in Nat, NEW S \in SUBSET (0 .. n), S # {}
  PROVE  \E m \in S : \A k \in S : k <= m
<1> DEFINE T == {n - k : k \in S}
<1>1. T \in SUBSET Nat /\ T # {}
  <2>1. \A k \in S : n - k \in Nat
    OBVIOUS
  <2> QED  BY <2>1
<1>2. PICK t \in T : \A s \in T : t <= s
  BY <1>1, LeastIs
<1>3. PICK m \in S : t = n - m
  OBVIOUS
<1>4. ASSUME NEW k \in S PROVE k <= m
  <2>1. n - k \in T
    OBVIOUS
  <2>2. n - m <= n - k
    BY <1>2, <1>3, <2>1
  <2> QED  BY <2>2
<1> QED  BY <1>4

(* A user is no closed connection.                                          *)
LEMMA UserIsOpen ==
  ASSUME NEW u, NEW n, IsUser(u, n)
  PROVE  u # Both!NoUser
BY DEF IsUser, Both!NoUser

(* What a user may ask for stays so when more options are set.              *)
LEMMA UserGrows ==
  ASSUME NEW u, NEW n \in Nat, IsUser(u, n)
  PROVE  IsUser(u, n + 1)
BY DEF IsUser

(* The highest rate that the users allow, and the quality chosen last, are  *)
(* what they ought to be.                                                   *)
LEMMA HighestRate ==
  ASSUME NEW us, NEW n \in Nat, AreUsers(us, n)
  PROVE  Both!highest_fps(us) \in 1 .. 120
<1> DEFINE W == {us[c].custom : c \in {d \in Viewers : us[d] # Both!NoUser}}
<1>1. W \subseteq 1 .. 120
  <2>1. \A c \in Viewers : us[c] # Both!NoUser => us[c].custom \in 1 .. 120
    BY DEF AreUsers, IsUser
  <2> QED  BY <2>1
<1>2. (IF W = {} THEN 30 ELSE Both!Least(W)) \in Int
  <2>1. CASE W = {}
    BY <2>1
  <2>2. CASE W # {}
    <3>1. W \in SUBSET Nat
      BY <1>1
    <3>2. Both!Least(W) \in Nat
      BY <2>2, <3>1, LeastIs
    <3> QED  BY <2>2, <3>2
  <2> QED  BY <2>1, <2>2
<1> HIDE DEF W
<1>3. Both!Clamp(IF W = {} THEN 30 ELSE Both!Least(W), 1, 120) \in 1 .. 120
  BY <1>2 DEF Both!Clamp, Both!Smaller, Both!Larger
<1> QED  BY <1>3 DEF W, Both!highest_fps

LEMMA LatestQuality ==
  ASSUME NEW us, NEW n \in Nat, AreUsers(us, n)
  PROVE  Both!latest_quality(us) \in {"best", "balanced", "low"}
<1> DEFINE C == {us[c].quality : c \in {d \in Viewers : us[d] # Both!NoUser}}
<1>1. C \subseteq (0 .. n) \X {"best", "balanced", "low"}
  BY DEF AreUsers, IsUser
<1>2. CASE \A q \in C : q[1] = 0
  BY <1>2 DEF Both!latest_quality
<1>3. CASE ~\A q \in C : q[1] = 0
  <2> DEFINE N == {q[1] : q \in C}
  <2>1. N \in SUBSET (0 .. n) /\ N # {}
    BY <1>1, <1>3
  <2>2. PICK m \in N : \A k \in N : k <= m
    BY <2>1, GreatestIs
  <2>3. \E q \in C : \A r \in C : r[1] <= q[1]
    BY <2>2
  <2>4. (CHOOSE q \in C : \A r \in C : r[1] <= q[1]) \in C
    BY <2>3
  <2>5. (CHOOSE q \in C : \A r \in C : r[1] <= q[1])[2] \in {"best", "balanced", "low"}
    BY <1>1, <2>4
  <2> QED  BY <1>3, <2>5 DEF Both!latest_quality
<1> QED  BY <1>2, <1>3

(* The rate for all is in its range, and low while one is delayed.          *)
LEMMA AdjustedRate ==
  ASSUME NEW us, NEW n \in Nat, AreUsers(us, n), NEW new \in BOOLEAN
  PROVE  /\ Both!adjusted(us, new) \in 1 .. 120
         /\ (\E c \in Viewers : us[c] # Both!NoUser /\ us[c].delayed) => Both!adjusted(us, new) <= 2
<1> DEFINE All == {us[c] : c \in {d \in Viewers : us[d] # Both!NoUser}}
           F == {IF u.fps = 0 THEN 15 ELSE u.fps : u \in All}
           least == IF All = {} THEN 15 ELSE Both!Least(F)
           slowed == IF \E u \in All : u.delayed THEN Both!Smaller(least, 1 + 1) ELSE least
           start == IF new THEN Both!Smaller(slowed, 15) ELSE slowed
           high == Both!highest_fps(us)
<1>1. Both!adjusted(us, new) = Both!Clamp(start, 1, high)
  BY DEF Both!adjusted
<1>2. \A u \in All : u.fps \in Nat
  BY DEF AreUsers, IsUser
<1>3. least \in Nat
  <2>1. CASE All = {}
    BY <2>1
  <2>2. CASE All # {}
    <3>1. F \in SUBSET Nat /\ F # {}
      BY <1>2, <2>2
    <3>2. Both!Least(F) \in Nat
      BY <3>1, LeastIs
    <3> QED  BY <2>2, <3>2
  <2> QED  BY <2>1, <2>2
<1>4. high \in 1 .. 120
  BY HighestRate
<1>5. (\E c \in Viewers : us[c] # Both!NoUser /\ us[c].delayed) => \E u \in All : u.delayed
  OBVIOUS
<1> HIDE DEF All, F, least, high
<1>6. slowed \in Nat /\ ((\E u \in All : u.delayed) => slowed <= 2)
  BY <1>3 DEF Both!Smaller
<1> HIDE DEF slowed
<1>7. start \in Nat /\ start <= slowed
  BY <1>6 DEF Both!Smaller
<1> HIDE DEF start
<1>8. Both!Clamp(start, 1, high) \in 1 .. high
  BY <1>4, <1>7 DEF Both!Clamp, Both!Smaller, Both!Larger
<1>9. ASSUME start <= 2 PROVE Both!Clamp(start, 1, high) <= 2
  BY <1>4, <1>7, <1>9 DEF Both!Clamp, Both!Smaller, Both!Larger
<1>10. ASSUME \E u \in All : u.delayed PROVE start <= 2
  BY <1>6, <1>7, <1>10
<1> QED  BY <1>1, <1>4, <1>5, <1>8, <1>9, <1>10

(* A round trip that was measured leaves a user a user.                     *)
LEMMA DelayAdded ==
  ASSUME NEW u, NEW n \in Nat, IsUser(u, n), NEW d \in Nat
  PROVE  /\ IsUser(Both!add_delay(u, d), n)
         /\ Both!add_delay(u, d).samples # <<>>
<1> DEFINE kept == IF Len(u.samples) >= WINDOW_SAMPLES THEN Tail(u.samples) ELSE u.samples
           samples == Append(kept, d)
           low == IF u.min_rtt = 0 \/ d < u.min_rtt THEN d ELSE u.min_rtt
           smooth == IF Len(samples) >= WINDOW_SAMPLES
                     THEN (low + Both!Least(Both!ToSet(samples))) \div 2 ELSE u.smoothed
<1>1. Both!add_delay(u, d) = [u EXCEPT !.samples = samples, !.min_rtt = low, !.smoothed = smooth]
  BY DEF Both!add_delay
<1>2. u.samples \in Seq(Nat) /\ u.min_rtt \in Nat /\ u.smoothed \in Nat
  BY DEF IsUser
<1>3. WINDOW_SAMPLES \in Nat \ {0}
  BY PartsAssumption DEF Both!VideoQoSAssumption
<1>4. kept \in Seq(Nat)
  <2>1. CASE Len(u.samples) >= WINDOW_SAMPLES
    <3>1. u.samples # <<>>
      BY <1>2, <1>3, <2>1
    <3> QED  BY <1>2, <2>1, <3>1
  <2>2. CASE ~(Len(u.samples) >= WINDOW_SAMPLES)
    BY <1>2, <2>2
  <2> QED  BY <2>1, <2>2
<1> HIDE DEF kept
<1>5. samples \in Seq(Nat) /\ samples # <<>> /\ DOMAIN samples # {}
      /\ \A i \in DOMAIN samples : samples[i] \in Nat
  <2>1. Len(kept) \in Nat /\ Len(samples) = Len(kept) + 1 /\ samples \in Seq(Nat)
    BY <1>4
  <2>2. 1 \in DOMAIN samples
    BY <2>1
  <2> QED  BY <2>1, <2>2
<1>6. low \in Nat
  BY <1>2
<1> HIDE DEF samples, low
<1>7. smooth \in Nat
  <2>1. Both!ToSet(samples) \in SUBSET Nat /\ Both!ToSet(samples) # {}
    BY <1>5 DEF Both!ToSet
  <2>2. Both!Least(Both!ToSet(samples)) \in Nat
    BY <2>1, LeastIs
  <2>3. (low + Both!Least(Both!ToSet(samples))) \div 2 \in Nat
    BY <1>6, <2>2
  <2> QED  BY <1>2, <2>3
<1> HIDE DEF smooth
<1>8. Both!add_delay(u, d) =
        [fps |-> u.fps, delayed |-> u.delayed, samples |-> samples, min_rtt |-> low,
         smoothed |-> smooth, quick |-> u.quick, increase |-> u.increase,
         custom |-> u.custom, quality |-> u.quality]
  BY <1>1 DEF IsUser
<1> QED  BY <1>5, <1>6, <1>7, <1>8 DEF IsUser

(* The delay that is over the round trip is a number.                       *)
LEMMA AverageDelay ==
  ASSUME NEW u, NEW n \in Nat, IsUser(u, n)
  PROVE  Both!avg_delay(u) \in Int
<1> DEFINE h == Both!delay_history(u)
<1>1. u.samples \in Seq(Nat) /\ u.min_rtt \in Nat /\ u.smoothed \in Nat
  BY DEF IsUser
<1>2. h \in Seq(Nat)
  <2>1. Len(u.samples) \in Nat
    BY <1>1
  <2>2. Both!Larger(1, Len(u.samples) - 2) \in 1 .. Len(u.samples) + 1
    BY <2>1 DEF Both!Larger
  <2>3. ASSUME NEW m \in 1 .. Len(u.samples) + 1
        PROVE  SubSeq(u.samples, m, Len(u.samples)) \in Seq(Nat)
    <3>1. Len(u.samples) \in m - 1 .. Len(u.samples)
      BY <2>1
    <3> QED  BY <1>1, <3>1, SubSeqProperties
  <2> QED  BY <2>2, <2>3 DEF Both!delay_history, Both!HISTORY_DELAY_LEN
<1> HIDE DEF h
<1>3. Both!Total(h) \in Nat
  <2>1. \A i \in DOMAIN h : h[i] \in Nat
    BY <1>2
  <2> QED  BY <2>1 DEF Both!Total
<1>4. Both!get_rtt(u) \in Nat
  BY <1>1 DEF Both!get_rtt
<1>5. h # <<>> => Both!Total(h) \div Len(h) \in Int
  <2> SUFFICES ASSUME h # <<>> PROVE Both!Total(h) \div Len(h) \in Int
    OBVIOUS
  <2>1. Len(h) \in Nat /\ Len(h) > 0
    BY <1>2
  <2> QED  BY <1>3, <2>1
<1>6. CASE h = <<>>
  BY <1>6 DEF Both!avg_delay, h, Both!DELAY_THRESHOLD_150MS
<1>7. CASE h # <<>>
  <2>1. Both!avg_delay(u) = IF Both!get_rtt(u) # 0 /\ Both!Total(h) \div Len(h) > Both!get_rtt(u)
                            THEN (Both!Total(h) \div Len(h)) - Both!get_rtt(u)
                            ELSE Both!Total(h) \div Len(h)
    BY <1>7 DEF Both!avg_delay, h
  <2> QED  BY <1>4, <1>5, <1>7, <2>1
<1> QED  BY <1>6, <1>7

(* The rate for a delay is a number.                                        *)
LEMMA RateForDelay ==
  ASSUME NEW f \in Nat, NEW u, NEW n, IsUser(u, n), NEW q \in {"best", "balanced", "low"},
         NEW old \in Int, NEW avg \in Int, avg >= 10
  PROVE  Both!BaseFps(f, u, q, old, avg) \in Int
<1> DEFINE low == Both!min_fps(q)
           step == Both!Step(f, q)
           divided == Both!CeilDiv(f * 150, avg)
           product == (150 * low) \div avg
<1>1. low \in {8, 10, 12}
  BY DEF Both!min_fps
<1>2. step \in {0, 1}
  BY DEF Both!Step
<1>3. product \in Int
  <2>1. 150 * low \in Int
    BY <1>1
  <2> QED  BY <2>1
<1>4. divided \in Int
  <2>1. f * 150 + avg - 1 \in Int
    OBVIOUS
  <2> QED  BY <2>1 DEF Both!CeilDiv
<1> HIDE DEF low, step, divided, product
<1>5. Both!BaseFps(f, u, q, old, avg) =
        CASE avg < 50 -> Both!Larger(low, f + (IF u.quick >= 2 THEN 5 ELSE step))
          [] avg \in 50 .. 99 -> Both!Larger(low, f + (IF avg < old THEN step ELSE 0))
          [] avg \in 100 .. 149 -> Both!Larger(low, f)
          [] avg \in 150 .. 199 -> Both!Larger(low, divided)
          [] avg \in 200 .. 299 -> Both!Smaller(low, divided)
          [] avg \in 300 .. 599 -> product
          [] avg >= 600 -> Both!Smaller(product, divided)
  BY DEF Both!BaseFps, Both!DELAY_THRESHOLD_150MS, low, step, divided, product
<1>6. \A i, j \in Int : Both!Larger(i, j) \in Int /\ Both!Smaller(i, j) \in Int
  BY DEF Both!Larger, Both!Smaller
<1>7. /\ Both!Larger(low, f + (IF u.quick >= 2 THEN 5 ELSE step)) \in Int
      /\ Both!Larger(low, f + (IF avg < old THEN step ELSE 0)) \in Int
      /\ Both!Larger(low, f) \in Int /\ Both!Larger(low, divided) \in Int
      /\ Both!Smaller(low, divided) \in Int /\ Both!Smaller(product, divided) \in Int
  <2>1. /\ low \in Int /\ f \in Int /\ f + (IF u.quick >= 2 THEN 5 ELSE step) \in Int
        /\ f + (IF avg < old THEN step ELSE 0) \in Int
    BY <1>1, <1>2
  <2> QED  BY <1>3, <1>4, <1>6, <2>1
<1>8. \/ avg < 50 \/ avg \in 50 .. 99 \/ avg \in 100 .. 149 \/ avg \in 150 .. 199
      \/ avg \in 200 .. 299 \/ avg \in 300 .. 599 \/ avg >= 600
  OBVIOUS
<1> QED  BY <1>3, <1>5, <1>7, <1>8

(* The user after an answer.                                                *)
LEMMA AnsweredUser ==
  ASSUME NEW u, NEW a, NEW n \in Nat, IsUser(u, n), IsUser(a, n), AreUsers(users, n),
         NEW avg \in Int, NEW base \in Int
  PROVE  /\ IsUser(Both!network_delay(u, a, avg, base), n)
         /\ Both!network_delay(u, a, avg, base).delayed = a.delayed
<1> DEFINE quick == IF avg < 50 THEN (a.quick + 1) % 3 ELSE IF avg > 50 THEN 0 ELSE a.quick
           increase == IF avg < 150 /\ a.increase < 2 THEN a.increase + 1 ELSE 0
           rate == Both!Clamp(IF Both!Third(u, avg) THEN base + 1 ELSE base, 1,
                              Both!highest_fps(users))
<1>1. Both!network_delay(u, a, avg, base) =
        [[a EXCEPT !.quick = quick, !.increase = increase] EXCEPT !.fps = rate]
  BY DEF Both!network_delay, Both!counted, Both!DELAY_THRESHOLD_150MS
<1>2. quick \in Nat /\ increase \in Nat
  <2>1. a.quick \in Nat /\ a.increase \in Nat
    BY DEF IsUser
  <2>2. (a.quick + 1) % 3 \in Nat
    BY <2>1
  <2> QED  BY <2>1, <2>2
<1>3. rate \in Nat
  <2>1. Both!highest_fps(users) \in 1 .. 120
    BY HighestRate
  <2>2. (IF Both!Third(u, avg) THEN base + 1 ELSE base) \in Int
    OBVIOUS
  <2>3. \A k \in Int : Both!Clamp(k, 1, Both!highest_fps(users)) \in Nat
    BY <2>1 DEF Both!Clamp, Both!Smaller, Both!Larger
  <2> QED  BY <2>2, <2>3
<1> HIDE DEF quick, increase, rate
<1>4. Both!network_delay(u, a, avg, base) =
        [fps |-> rate, delayed |-> a.delayed, samples |-> a.samples, min_rtt |-> a.min_rtt,
         smoothed |-> a.smoothed, quick |-> quick, increase |-> increase,
         custom |-> a.custom, quality |-> a.quality]
  BY <1>1 DEF IsUser
<1> QED  BY <1>2, <1>3, <1>4 DEF IsUser

(* One user is set, or leaves.                                              *)
LEMMA UserSet ==
  ASSUME NEW us, NEW n, AreUsers(us, n), NEW c \in Viewers, NEW v, v = Both!NoUser \/ IsUser(v, n)
  PROVE  AreUsers([us EXCEPT ![c] = v], n)
<1> DEFINE w == [us EXCEPT ![c] = v]
<1>1. us = [d \in Viewers |-> us[d]]
  BY DEF AreUsers
<1>2. w = [d \in Viewers |-> IF d = c THEN v ELSE us[d]]
  BY <1>1
<1> HIDE DEF w
<1>3. DOMAIN w = Viewers /\ w = [d \in Viewers |-> w[d]]
  BY <1>2
<1>4. ASSUME NEW d \in Viewers PROVE w[d] = Both!NoUser \/ IsUser(w[d], n)
  BY <1>2, <1>4 DEF AreUsers
<1> SUFFICES AreUsers(w, n)
  BY DEF w
<1> QED  BY <1>3, <1>4 DEF AreUsers

(* A new user is not delayed.                                               *)
LEMMA RateOpens ==
  ASSUME RateInv, NEW c \in Viewers, Both!on_connection_open(c)
  PROVE  RateInv'
<1> USE DEF RateInv
<1>1. users[c] = Both!NoUser /\ users' = [users EXCEPT ![c] = Both!NewUser]
      /\ asked' = [asked EXCEPT ![c] = -1] /\ due' = due \cup {c}
      /\ fps' = fps /\ fresh' = TRUE /\ net' = net /\ options' = options
  BY DEF Both!on_connection_open, Both!network
<1>2. options \in Nat /\ AreUsers(users, options) /\ asked \in [Viewers -> -1 .. 3]
  BY DEF RateTyped
<1>3. IsUser(Both!NewUser, options) /\ ~Both!NewUser.delayed
  BY <1>2 DEF IsUser, Both!NewUser
<1>4. AreUsers(users', options)
  BY <1>1, <1>2, <1>3, UserSet
<1>5. \A d \in Viewers : users'[d] = IF d = c THEN Both!NewUser ELSE users[d]
  BY <1>1, <1>2 DEF AreUsers
<1>6. asked' \in [Viewers -> -1 .. 3]
  BY <1>1, <1>2
<1>7. ASSUME NEW d \in due' PROVE d \in Viewers /\ IsUser(users'[d], options)
  BY <1>1, <1>3, <1>5, <1>7 DEF RateTyped
<1>8. Both!StallSlows'
  <2>1. ASSUME NEW d \in Viewers, users'[d] # Both!NoUser, users'[d].delayed
        PROVE  users[d] # Both!NoUser /\ users[d].delayed
    BY <1>3, <1>5, <2>1
  <2> QED  BY <1>1, <2>1 DEF Both!StallSlows, Both!Open
<1> QED  BY <1>1, <1>4, <1>6, <1>7, <1>8 DEF RateTyped

(* With the last user the rate starts again, and nobody is delayed.         *)
LEMMA RateCloses ==
  ASSUME RateInv, NEW c \in Viewers, Both!on_connection_close(c)
  PROVE  RateInv'
<1> USE DEF RateInv
<1>1. users[c] # Both!NoUser /\ users' = [users EXCEPT ![c] = Both!NoUser]
      /\ fps' = (IF Both!Open = {c} THEN 30 ELSE fps) /\ due' = due \ {c}
      /\ fresh' = fresh /\ asked' = asked /\ net' = net /\ options' = options
  BY DEF Both!on_connection_close, Both!network
<1>2. AreUsers(users, options)
  BY DEF RateTyped
<1>3. AreUsers(users', options)
  BY <1>1, <1>2, UserSet
<1>4. \A d \in Viewers : users'[d] = IF d = c THEN Both!NoUser ELSE users[d]
  BY <1>1, <1>2 DEF AreUsers
<1>5. ASSUME NEW d \in due' PROVE d \in Viewers /\ IsUser(users'[d], options)
  BY <1>1, <1>4, <1>5 DEF RateTyped
<1>6. Both!StallSlows'
  <2>1. ASSUME NEW d \in Viewers, users'[d] # Both!NoUser, users'[d].delayed
        PROVE  d # c /\ users[d] # Both!NoUser /\ users[d].delayed
    BY <1>4, <2>1
  <2>2. ASSUME NEW d \in Viewers, users'[d] # Both!NoUser, users'[d].delayed
        PROVE  fps' = fps
    BY <1>1, <2>1, <2>2 DEF Both!Open
  <2> QED  BY <2>1, <2>2 DEF Both!StallSlows, Both!Open
<1>7. fps' \in 1 .. 120
  BY <1>1 DEF RateTyped
<1> QED  BY <1>1, <1>3, <1>5, <1>6, <1>7 DEF RateTyped

(* A user who is delayed, or no longer.                                     *)
LEMMA DelayedUser ==
  ASSUME NEW u, NEW n, IsUser(u, n), NEW b
  PROVE  IsUser([u EXCEPT !.delayed = b], n) /\ [u EXCEPT !.delayed = b].delayed = b
<1>1. u = [fps |-> u.fps, delayed |-> u.delayed, samples |-> u.samples, min_rtt |-> u.min_rtt,
           smoothed |-> u.smoothed, quick |-> u.quick, increase |-> u.increase,
           custom |-> u.custom, quality |-> u.quality]
  BY DEF IsUser
<1> DEFINE w == [u EXCEPT !.delayed = b]
<1>2. w = [fps |-> u.fps, delayed |-> b, samples |-> u.samples, min_rtt |-> u.min_rtt,
           smoothed |-> u.smoothed, quick |-> u.quick, increase |-> u.increase,
           custom |-> u.custom, quality |-> u.quality]
  BY <1>1
<1> HIDE DEF w
<1>3. IsUser(w, n) /\ w.delayed = b
  BY <1>2 DEF IsUser
<1> QED  BY <1>3 DEF w

(* An overdue answer makes the user a delayed one, and the rate is set.     *)
LEMMA RateTicks ==
  ASSUME RateInv, NEW c \in Viewers, Both!test_delay_tick(c)
  PROVE  RateInv'
<1> USE DEF RateInv
<1>1. PICK n \in {IF asked[c] < 0 THEN 0 ELSE Both!Saturated(asked[c] + 1)} :
        /\ c \in due /\ due' = due \ {c}
        /\ asked' = [asked EXCEPT ![c] = n]
        /\ users' = [users EXCEPT ![c] = Both!user_delay_response_elapsed(users[c], n)]
        /\ fps' = IF n > 2 THEN Both!adjusted(users', fresh) ELSE fps
  BY DEF Both!test_delay_tick
<1>0. net' = net /\ options' = options /\ fresh' \in BOOLEAN
  <2>1. UNCHANGED <<fresh, Both!network, options, opens>>
    BY Zenon DEF Both!test_delay_tick
  <2> QED  BY <2>1 DEF Both!network, RateTyped
<1>2. options \in Nat /\ AreUsers(users, options) /\ asked \in [Viewers -> -1 .. 3]
      /\ IsUser(users[c], options)
  BY <1>1 DEF RateTyped
<1>3. n \in 0 .. 3
  <2>1. asked[c] \in -1 .. 3
    BY <1>2
  <2> QED  BY <1>1, <2>1 DEF Both!Saturated, Both!Smaller
<1> DEFINE late == [Both!add_delay(users[c], 1000 * n) EXCEPT !.delayed = TRUE]
           timely == [users[c] EXCEPT !.delayed = FALSE]
           v == Both!user_delay_response_elapsed(users[c], n)
<1>4. IsUser(late, options)
  <2>1. 1000 * n \in Nat
    BY <1>3
  <2>2. IsUser(Both!add_delay(users[c], 1000 * n), options)
    BY <1>2, <2>1, DelayAdded
  <2> QED  BY <2>2, DelayedUser
<1>5. IsUser(timely, options) /\ timely.delayed = FALSE
  BY <1>2, DelayedUser
<1>6. v = IF n > 2 THEN late ELSE timely
  BY DEF Both!user_delay_response_elapsed
<1> HIDE DEF late, timely, v
<1>7. IsUser(v, options) /\ users' = [users EXCEPT ![c] = v]
  BY <1>1, <1>4, <1>5, <1>6 DEF v
<1>8. AreUsers(users', options)
  BY <1>2, <1>7, UserSet
<1>9. \A d \in Viewers : users'[d] = IF d = c THEN v ELSE users[d]
  BY <1>2, <1>7 DEF AreUsers
<1>10. asked' \in [Viewers -> -1 .. 3]
  <2>1. n \in -1 .. 3
    BY <1>3
  <2> QED  BY <1>1, <1>2, <2>1
<1>11. ASSUME NEW d \in due' PROVE d \in Viewers /\ IsUser(users'[d], options')
  BY <1>0, <1>1, <1>7, <1>9, <1>11 DEF RateTyped
<1>12. CASE n > 2
  <2>1. fps' = Both!adjusted(users', fresh)
    BY <1>1, <1>12
  <2>2. fresh \in BOOLEAN
    BY DEF RateTyped
  <2>3. fps' \in 1 .. 120
        /\ ((\E d \in Viewers : users'[d] # Both!NoUser /\ users'[d].delayed) => fps' <= 2)
    BY <1>2, <1>8, <2>1, <2>2, AdjustedRate
  <2>4. Both!StallSlows'
    BY <2>3 DEF Both!StallSlows, Both!Open
  <2> QED  BY <1>0, <1>1, <1>8, <1>10, <1>11, <2>3, <2>4 DEF RateTyped
<1>13. CASE ~(n > 2)
  <2>1. fps' = fps
    BY <1>1, <1>13
  <2>2. v = timely
    BY <1>6, <1>13
  <2>3. ASSUME NEW d \in Viewers, users'[d] # Both!NoUser, users'[d].delayed
        PROVE  users[d] # Both!NoUser /\ users[d].delayed
    BY <1>5, <1>9, <2>2, <2>3
  <2>4. Both!StallSlows'
    BY <2>1, <2>3 DEF Both!StallSlows, Both!Open
  <2> QED  BY <1>0, <1>1, <1>8, <1>10, <1>11, <2>1, <2>4 DEF RateTyped
<1> QED  BY <1>12, <1>13

(* An answer sets the rate from all users.                                  *)
LEMMA RateAnswered ==
  ASSUME RateInv, NEW c \in Viewers, Both!user_network_delay(c)
  PROVE  RateInv'
<1> USE DEF RateInv
<1>1. /\ users[c] # Both!NoUser /\ asked[c] >= 0
      /\ asked' = [asked EXCEPT ![c] = -1]
      /\ fps' = Both!adjusted(users', fresh)
      /\ due' = due /\ fresh' = fresh /\ net' = net /\ options' = options
  BY DEF Both!user_network_delay, Both!network
<1>2. /\ options \in Nat /\ AreUsers(users, options) /\ asked \in [Viewers -> -1 .. 3]
      /\ net \in [Viewers -> Nat] /\ fresh \in BOOLEAN /\ fps \in Nat
  BY DEF RateTyped
<1>3. IsUser(users[c], options)
  BY <1>1, <1>2 DEF AreUsers
<1>4. PICK a \in {Both!add_delay(users[c], Both!Larger(net[c] + 1000 * asked[c], 10))} :
        \E avg \in {Both!Larger(Both!avg_delay(a), 10)} :
          \E base \in {Both!BaseFps(fps, users[c], Both!latest_quality(users),
                                    Both!avg_delay(users[c]), avg)} :
            users' = [users EXCEPT ![c] = Both!network_delay(users[c], a, avg, base)]
  BY DEF Both!user_network_delay
<1>5. PICK avg \in {Both!Larger(Both!avg_delay(a), 10)} :
        \E base \in {Both!BaseFps(fps, users[c], Both!latest_quality(users),
                                  Both!avg_delay(users[c]), avg)} :
          users' = [users EXCEPT ![c] = Both!network_delay(users[c], a, avg, base)]
  BY <1>4
<1>6. PICK base \in {Both!BaseFps(fps, users[c], Both!latest_quality(users),
                                  Both!avg_delay(users[c]), avg)} :
        users' = [users EXCEPT ![c] = Both!network_delay(users[c], a, avg, base)]
  BY <1>5
<1>7. IsUser(a, options)
  <2>1. net[c] \in Nat /\ asked[c] \in Nat
    BY <1>1, <1>2
  <2>2. Both!Larger(net[c] + 1000 * asked[c], 10) \in Nat
    BY <2>1 DEF Both!Larger
  <2> QED  BY <1>2, <1>3, <1>4, <2>2, DelayAdded
<1>8. avg \in Int /\ avg >= 10
  <2>1. Both!avg_delay(a) \in Int
    BY <1>2, <1>7, AverageDelay
  <2> QED  BY <1>5, <2>1 DEF Both!Larger
<1>9. base \in Int
  <2>1. Both!avg_delay(users[c]) \in Int
    BY <1>2, <1>3, AverageDelay
  <2>2. Both!latest_quality(users) \in {"best", "balanced", "low"}
    BY <1>2, LatestQuality
  <2>3. Both!BaseFps(fps, users[c], Both!latest_quality(users), Both!avg_delay(users[c]), avg) \in Int
    BY <1>2, <1>3, <1>8, <2>1, <2>2, RateForDelay
  <2> QED  BY <1>6, <2>3
<1> DEFINE v == Both!network_delay(users[c], a, avg, base)
<1>10. IsUser(v, options)
  BY <1>2, <1>3, <1>7, <1>8, <1>9, AnsweredUser
<1> HIDE DEF v
<1>11. users' = [users EXCEPT ![c] = v]
  BY <1>6 DEF v
<1>12. AreUsers(users', options)
  <2>1. AreUsers([users EXCEPT ![c] = v], options)
    BY <1>2, <1>10, UserSet
  <2> QED  BY <1>11, <2>1
<1>13. \A d \in Viewers : users'[d] = IF d = c THEN v ELSE users[d]
  BY <1>2, <1>11 DEF AreUsers
<1>14. fps' \in 1 .. 120
       /\ ((\E d \in Viewers : users'[d] # Both!NoUser /\ users'[d].delayed) => fps' <= 2)
  BY <1>1, <1>2, <1>12, AdjustedRate
<1>15. Both!StallSlows'
  BY <1>14 DEF Both!StallSlows, Both!Open
<1>16. asked' \in [Viewers -> -1 .. 3]
  BY <1>1, <1>2
<1>17. ASSUME NEW d \in due' PROVE d \in Viewers /\ IsUser(users'[d], options)
  BY <1>1, <1>10, <1>13, <1>17 DEF RateTyped
<1> QED  BY <1>1, <1>2, <1>12, <1>14, <1>15, <1>16, <1>17 DEF RateTyped

(* Every second the rate is set again.                                      *)
LEMMA RateSeconds ==
  ASSUME RateInv, Both!second
  PROVE  RateInv'
<1> USE DEF RateInv
<1>1. due' = Both!Open /\ fresh' = FALSE /\ fps' = Both!adjusted(users, FALSE)
      /\ users' = users /\ asked' = asked /\ net' = net /\ options' = options
  BY DEF Both!second, Both!network
<1>2. options \in Nat /\ AreUsers(users, options)
  BY DEF RateTyped
<1>3. fps' \in 1 .. 120
      /\ ((\E d \in Viewers : users[d] # Both!NoUser /\ users[d].delayed) => fps' <= 2)
  BY <1>1, <1>2, AdjustedRate
<1>4. Both!StallSlows'
  <2>1. (\E d \in Viewers : users'[d] # Both!NoUser /\ users'[d].delayed) => fps' <= 2
    BY <1>1, <1>3
  <2> QED  BY <2>1 DEF Both!StallSlows, Both!Open
<1>5. ASSUME NEW d \in due' PROVE d \in Viewers /\ IsUser(users[d], options)
  BY <1>1, <1>2, <1>5 DEF AreUsers, Both!Open
<1> QED  BY <1>1, <1>3, <1>4, <1>5 DEF RateTyped

(* What a user asks for changes no rate at once.                            *)
LEMMA RateAsked ==
  ASSUME RateInv, NEW c \in Viewers, Both!user_custom_fps(c) \/ Both!user_image_quality(c)
  PROVE  RateInv'
<1> USE DEF RateInv
<1>1. users[c] # Both!NoUser /\ options' = options + 1 /\ fps' = fps /\ fresh' = fresh
      /\ net' = net /\ asked' = asked /\ due' = due
  BY DEF Both!user_custom_fps, Both!user_image_quality, Both!network
<1>2. options \in Nat /\ AreUsers(users, options)
  BY DEF RateTyped
<1>3. IsUser(users[c], options) /\ IsUser(users[c], options + 1)
  <2>1. IsUser(users[c], options)
    BY <1>1, <1>2 DEF AreUsers
  <2> QED  BY <1>2, <2>1, UserGrows
<1>4. AreUsers(users, options + 1)
  BY <1>2, UserGrows DEF AreUsers
<1>5. PICK v : users' = [users EXCEPT ![c] = v] /\ IsUser(v, options + 1)
               /\ (v.delayed => users[c].delayed)
  <2> DEFINE u == users[c]
  <2>1. u = [fps |-> u.fps, delayed |-> u.delayed, samples |-> u.samples, min_rtt |-> u.min_rtt,
             smoothed |-> u.smoothed, quick |-> u.quick, increase |-> u.increase,
             custom |-> u.custom, quality |-> u.quality]
        /\ IsUser(u, options + 1)
    BY <1>3 DEF IsUser
  <2>2. CASE Both!user_custom_fps(c)
    <3>1. PICK n \in Customs : users' = [users EXCEPT ![c] = [u EXCEPT !.custom = n]]
      BY <2>2 DEF Both!user_custom_fps
    <3>2. n \in 1 .. 120
      BY <3>1, PartsAssumption DEF Both!VideoQoSAssumption
    <3> HIDE DEF u
    <3> DEFINE w == [u EXCEPT !.custom = n]
    <3>3. w = [fps |-> u.fps, delayed |-> u.delayed, samples |-> u.samples, min_rtt |-> u.min_rtt,
               smoothed |-> u.smoothed, quick |-> u.quick, increase |-> u.increase,
               custom |-> n, quality |-> u.quality]
      BY <2>1
    <3> HIDE DEF w
    <3>4. IsUser(w, options + 1)
      BY <2>1, <3>2, <3>3 DEF IsUser
    <3>5. w.delayed = u.delayed
      BY <3>3
    <3>6. users' = [users EXCEPT ![c] = w]
      BY <3>1 DEF w
    <3>7. w.delayed => users[c].delayed
      BY <3>5 DEF u
    <3> QED  BY <3>4, <3>6, <3>7
  <2>3. CASE Both!user_image_quality(c)
    <3>1. PICK q \in Qualities : users' = [users EXCEPT ![c] = [u EXCEPT !.quality = <<options + 1, q>>]]
      BY <2>3 DEF Both!user_image_quality
    <3>2. <<options + 1, q>> \in (0 .. options + 1) \X {"best", "balanced", "low"}
      <4>1. q \in {"best", "balanced", "low"}
        BY <3>1, PartsAssumption DEF Both!VideoQoSAssumption
      <4> QED  BY <1>2, <4>1
    <3> HIDE DEF u
    <3> DEFINE w == [u EXCEPT !.quality = <<options + 1, q>>]
    <3>3. w = [fps |-> u.fps, delayed |-> u.delayed, samples |-> u.samples, min_rtt |-> u.min_rtt,
               smoothed |-> u.smoothed, quick |-> u.quick, increase |-> u.increase,
               custom |-> u.custom, quality |-> <<options + 1, q>>]
      BY <2>1
    <3> HIDE DEF w
    <3>4. IsUser(w, options + 1)
      BY <2>1, <3>2, <3>3 DEF IsUser
    <3>5. w.delayed = u.delayed
      BY <3>3
    <3>6. users' = [users EXCEPT ![c] = w]
      BY <3>1 DEF w
    <3>7. w.delayed => users[c].delayed
      BY <3>5 DEF u
    <3> QED  BY <3>4, <3>6, <3>7
  <2> QED  BY <2>2, <2>3
<1>6. AreUsers(users', options + 1)
  BY <1>4, <1>5, UserSet
<1>7. \A d \in Viewers : users'[d] = IF d = c THEN v ELSE users[d]
  BY <1>2, <1>5 DEF AreUsers
<1>8. ASSUME NEW d \in due' PROVE d \in Viewers /\ IsUser(users'[d], options')
  <2>1. d \in Viewers /\ IsUser(users[d], options)
    BY <1>1, <1>8 DEF RateTyped
  <2>2. IsUser(users[d], options + 1)
    BY <1>2, <2>1, UserGrows
  <2> QED  BY <1>1, <1>5, <1>7, <2>1, <2>2
<1>9. Both!StallSlows'
  <2>1. ASSUME NEW d \in Viewers, users'[d] # Both!NoUser, users'[d].delayed
        PROVE  users[d] # Both!NoUser /\ users[d].delayed
    BY <1>1, <1>5, <1>7, <2>1
  <2> QED  BY <1>1, <2>1 DEF Both!StallSlows, Both!Open
<1>10. options' \in Nat
  BY <1>1, <1>2
<1> QED  BY <1>1, <1>6, <1>8, <1>9, <1>10 DEF RateTyped

(* A network that changes leaves the rate alone.                            *)
LEMMA RateNetwork ==
  ASSUME RateInv, NEW c \in Viewers, Both!network_changes(c)
  PROVE  RateInv'
<1> USE DEF RateInv
<1>1. PICK d \in Delays : net' = [net EXCEPT ![c] = d]
  BY DEF Both!network_changes
<1>2. d \in Nat
  BY <1>1, PartsAssumption DEF Both!VideoQoSAssumption
<1>3. net' \in [Viewers -> Nat]
  BY <1>1, <1>2 DEF RateTyped
<1>4. fps' = fps /\ users' = users /\ fresh' = fresh /\ asked' = asked /\ due' = due
      /\ options' = options
  BY DEF Both!network_changes
<1>5. Both!StallSlows'
  BY <1>4 DEF Both!StallSlows, Both!Open
<1> QED  BY <1>3, <1>4, <1>5 DEF RateTyped

(* Nobody is there at first, and what rests stays.                          *)
LEMMA RateInitially ==
  ASSUME Both!Init
  PROVE  RateInv
<1>1. fps = 30 /\ users = [c \in Viewers |-> Both!NoUser]
      /\ net \in [Viewers -> Delays] /\ asked = [c \in Viewers |-> -1] /\ due = {} /\ options = 0
  BY DEF Both!Init
<1>2. AreUsers(users, options)
  <2>1. DOMAIN users = Viewers /\ \A c \in Viewers : users[c] = Both!NoUser
    BY <1>1
  <2>2. users = [c \in Viewers |-> users[c]]
    BY <1>1
  <2> QED  BY <2>1, <2>2 DEF AreUsers
<1>3. net \in [Viewers -> Nat]
  BY <1>1, PartsAssumption DEF Both!VideoQoSAssumption
<1>4. Both!StallSlows
  BY <1>1 DEF Both!StallSlows, Both!Open
<1>5. asked \in [Viewers -> -1 .. 3]
  BY <1>1
<1>6. fresh \in BOOLEAN
  BY DEF Both!Init
<1> QED  BY <1>1, <1>2, <1>3, <1>4, <1>5, <1>6 DEF RateInv, RateTyped

(* Every step keeps the rate.                                               *)
LEMMA RateStep ==
  ASSUME RateInv, [Both!Next]_qos_vars
  PROVE  RateInv'
<1>1. CASE Both!second
  BY <1>1, RateSeconds
<1>2. ASSUME NEW c \in Viewers, Both!on_connection_open(c) PROVE RateInv'
  BY <1>2, RateOpens
<1>3. ASSUME NEW c \in Viewers, Both!on_connection_close(c) PROVE RateInv'
  BY <1>3, RateCloses
<1>4. ASSUME NEW c \in Viewers, Both!test_delay_tick(c) PROVE RateInv'
  BY <1>4, RateTicks
<1>5. ASSUME NEW c \in Viewers, Both!user_network_delay(c) PROVE RateInv'
  BY <1>5, RateAnswered
<1>6. ASSUME NEW c \in Viewers, Both!user_custom_fps(c) \/ Both!user_image_quality(c) PROVE RateInv'
  BY <1>6, RateAsked
<1>7. ASSUME NEW c \in Viewers, Both!network_changes(c) PROVE RateInv'
  BY <1>7, RateNetwork
<1>8. CASE UNCHANGED qos_vars
  <2>1. fps' = fps /\ users' = users /\ fresh' = fresh /\ net' = net /\ asked' = asked
        /\ due' = due /\ options' = options
    BY <1>8 DEF qos_vars
  <2> QED  BY <2>1 DEF RateInv, RateTyped, Both!StallSlows, Both!Open
<1> QED  BY <1>1, <1>2, <1>3, <1>4, <1>5, <1>6, <1>7, <1>8 DEF Both!Next

-----------------------------------------------------------------------------
(* The host: of its parts one runs, and what holds of that one is kept.     *)
HostInv ==
  /\ chosen = "privacy" => PrivacyInv
  /\ chosen = "together" => RateInv

LEMMA HostInitially == Begin => HostInv
<1> SUFFICES ASSUME Begin PROVE HostInv
  OBVIOUS
<1>1. Privacy!Init /\ (chosen = "together" => Both!Init)
  BY DEF Begin
<1>2. PrivacyInv
  BY <1>1, PrivacyInitially
<1>3. chosen = "together" => RateInv
  BY <1>1, RateInitially
<1> QED  BY <1>2, <1>3 DEF HostInv

LEMMA HostStep == HostInv /\ [Step]_all_vars => HostInv'
<1> SUFFICES ASSUME HostInv, [Step]_all_vars PROVE HostInv'
  OBVIOUS
<1>1. chosen' = chosen
  BY DEF Step, all_vars
<1>2. ASSUME chosen = "privacy" PROVE PrivacyInv'
  <2>1. [Privacy!Next]_privacy_vars
    BY <1>2 DEF Step, all_vars
  <2>2. PrivacyInv
    BY <1>2 DEF HostInv
  <2> QED  BY <2>1, <2>2, PrivacyStep
<1>3. ASSUME chosen = "together" PROVE RateInv'
  <2>1. [Both!Next]_qos_vars
    BY <1>3 DEF Step, all_vars
  <2>2. RateInv
    BY <1>3 DEF HostInv
  <2> QED  BY <2>1, <2>2, RateStep
<1> QED  BY <1>1, <1>2, <1>3 DEF HostInv

(* HostAgreesAlways. For every set of connections and viewers, every        *)
(* network and every number of faults: while the answer of one of several   *)
(* viewers is overdue nobody gets more than two frames a second (VideoQoS); *)
(* a client with nothing under way to it or for it shows to have the        *)
(* privacy mode exactly when it has it, unless another failure took it; and *)
(* who has it alone sees the screen, unless a start or a login came in      *)
(* between (PrivacyMode).                                                   *)
THEOREM HostAgreesAlways == FairParts => []HostAgrees
<1>1. HostInv => HostAgrees
  BY PrivacyFollows DEF HostInv, HostAgrees, RateInv
<1> QED  BY HostInitially, HostStep, <1>1, PTL DEF FairParts, Parts
=============================================================================
