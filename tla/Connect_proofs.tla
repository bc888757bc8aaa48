-------------------------- MODULE Connect_proofs ---------------------------
(***************************************************************************)
(* Proofs about how connections come to be: that the two ends of a stream  *)
(* agree about its encryption (Handshake), and that a tunnel's listeners   *)
(* keep their connections and logins apart (PortForwardListen, as a part   *)
(* of MCConnect).                                                          *)
(***************************************************************************)
EXTENDS MCConnect, Sequences, FiniteSets, TLAPS

-----------------------------------------------------------------------------
Ends == [pc : {"none", "done", "failed", "secure", "sign", "wait"},
         key : Keys \cup {NoKey}, enc : BOOLEAN]

Typed ==
  /\ pk \in Keys /\ registered \in Keys \cup {NoKey}
  /\ requests \subseteq Keys
  /\ client \in Ends /\ host \in Ends
  /\ client.pc \in {"none", "secure", "done"}
  /\ host.pc \in {"none", "sign", "wait", "done"}

(* The exchange, by where the client is: it answers once, a host that is   *)
(* to get an answer has signed or is going to, and what the answer says of *)
(* the key is what the client does.                                        *)
Exchange ==
  /\ client.pc = "none" => host.pc = "none"
  /\ client.pc = "secure" =>
       /\ wire.client = Nothing /\ ~client.enc /\ ~host.enc
       /\ client.key # NoKey => host.pc \in {"sign", "wait"}
       /\ host.pc = "sign" => wire.host = Nothing
       /\ host.pc = "wait" => wire.host = Msg("SignedId", host.key)
  /\ client.pc = "done" /\ host.pc \in {"sign", "wait"} =>
       /\ wire.client.type \in {"empty", "PublicKey"}
       /\ client.enc = (wire.client.key # NoKey)
  /\ client.pc = "done" /\ host.pc = "done" => client.enc = host.enc
  /\ client.enc => client.key = host.key

IInv == Typed /\ Exchange

(* Nobody is connected to begin with.                                        *)
LEMMA InitInv == Init => IInv
BY HandshakeAssumption DEF Init, IInv, Typed, Exchange, Ends, Idle, Keys, Nothing

(* Every step of client, host and rendezvous server keeps the two ends of a  *)
(* connection in phases that fit each other.                                 *)
LEMMA StepInv == IInv /\ [Next]_vars => IInv'
<1> SUFFICES ASSUME IInv, [Next]_vars PROVE IInv'
  OBVIOUS
<1> USE HandshakeAssumption DEF IInv, Typed, Exchange
<1>1. CASE Register \/ CheckIfResendPk
  <2>1. UNCHANGED <<client, host, wire>>
    BY <1>1 DEF Register, register_pk, serve_pk, RegisterPkResponse_OK, CheckIfResendPk, stream
  <2>2. pk' \in Keys
    BY <1>1 DEF Register, register_pk, serve_pk, RegisterPkResponse_OK, CheckIfResendPk, Keys
  <2>3. registered' \in Keys \cup {NoKey} /\ requests' \subseteq Keys
    BY <1>1 DEF Register, register_pk, serve_pk, RegisterPkResponse_OK, CheckIfResendPk
  <2> QED BY <2>1, <2>2, <2>3
<1>2. CASE start
  <2>1. PICK k \in {registered, NoKey}, kind \in {"punch", "relay"} :
          /\ client' = [pc |-> "secure", enc |-> FALSE, key |-> k]
          /\ host' = [pc |-> IF secure(kind, registered) THEN "sign" ELSE "done",
                      key |-> pk, enc |-> FALSE]
    BY <1>2 DEF start
  <2>2. wire' = [client |-> Nothing, host |-> Nothing] /\ UNCHANGED registration
    BY <1>2 DEF start
  <2>3. k # NoKey => host'.pc = "sign"
    BY <2>1 DEF secure
  <2> QED BY <2>1, <2>2, <2>3 DEF registration, Ends, Keys
<1>3. CASE no_key
  BY <1>3 DEF no_key, registration, Ends, Msg, Nothing
<1>4. CASE SignedId
  <2>1. client.pc = "secure" /\ client.key # NoKey /\ wire.host.type = "SignedId"
    BY <1>4 DEF SignedId
  <2>2. host.pc = "wait" /\ wire.host.key = host.key
    BY <2>1 DEF Nothing, Msg
  <2>3. /\ client' = [client EXCEPT !.pc = "done", !.enc = (host.key = client.key)]
        /\ wire'.client.type = "PublicKey"
        /\ wire'.client.key = IF host.key = client.key THEN host.key ELSE NoKey
        /\ UNCHANGED <<registration, host>>
    BY <1>4, <2>2 DEF SignedId, Msg
  <2> QED BY <2>1, <2>2, <2>3 DEF registration, Ends
<1>5. CASE read_timeout
  BY <1>5 DEF read_timeout
<1>6. CASE sign
  BY <1>6 DEF sign, registration, Ends, Msg, Nothing
<1>7. CASE PublicKey
  BY <1>7 DEF PublicKey, Ends, Msg, Nothing, force_update
<1>8. CASE UNCHANGED vars
  BY <1>8 DEF vars, registration, stream
<1> QED BY <1>1, <1>2, <1>3, <1>4, <1>5, <1>6, <1>7, <1>8 DEF Next, Connect

(* The inductive invariant holds of every behaviour of the handshake.        *)
THEOREM Invariance == Spec => []IInv
BY InitInv, StepInv, PTL DEF Spec

(* When both ends have finished, both encrypt or none does, whatever keys  *)
(* were replaced and registered meanwhile; and a client with a key to check *)
(* against always gets a signature: the host signs when the server has a   *)
(* key of it.                                                              *)
THEOREM AlwaysInStep == Spec => []InStep
<1>1. IInv => Agree
  BY DEF IInv, Exchange, Agree, Ended
<1>2. IInv => NeverWaitsInVain
  BY DEF IInv, Typed, NeverWaitsInVain
<1> QED BY Invariance, <1>1, <1>2, PTL DEF InStep
(* Type correctness: keys are keys that the host has had, and a client that *)
(* encrypts has the key of its host.                                        *)
THEOREM TypeCorrect == Spec => []TypeOK
<1> DEFINE InOrder == requests \subseteq 0 .. pk
<1>1. Init => InOrder
  BY DEF Init
<1>2. IInv /\ InOrder /\ [Next]_vars => InOrder'
  <2> SUFFICES ASSUME IInv, InOrder, [Next]_vars PROVE InOrder'
    OBVIOUS
  <2>1. pk \in Nat
    BY HandshakeAssumption DEF IInv, Typed, Keys
  <2>2. CASE Register \/ CheckIfResendPk
    <3>1. requests' \subseteq requests \cup {pk} /\ pk' \in {pk, pk + 1}
      BY <2>2 DEF Register, register_pk, serve_pk, RegisterPkResponse_OK, CheckIfResendPk
    <3> QED BY <2>1, <3>1
  <2>3. CASE Connect
    BY <2>3 DEF Connect, start, no_key, SignedId, read_timeout, sign, PublicKey, registration
  <2>4. CASE UNCHANGED vars
    BY <2>4 DEF vars, registration
  <2> QED BY <2>2, <2>3, <2>4 DEF Next
<1>3. IInv /\ InOrder => TypeOK
  BY DEF IInv, Typed, Exchange, Ends, TypeOK
<1> QED BY Invariance, <1>1, <1>2, <1>3, PTL DEF Spec

-----------------------------------------------------------------------------
(* Messages of the session's queue.                                        *)
Add(p) == <<"AddPortForward", p>>
Remove(p) == <<"RemovePortForward", p>>
LoginMsg == <<"Login">>
Msgs == {Add(p) : p \in Ports} \cup {Remove(p) : p \in Ports} \cup {LoginMsg}

(* The types of the listeners' state.                                        *)
ListenTyped ==
  /\ listen_config \subseteq Ports /\ receiver \in Seq(Msgs)
  /\ queues \in [Ports -> Listen!L \cup {Listen!Nobody}]
  /\ port \in [Listen!L -> Ports \cup {"none"}]
  /\ st \in [Listen!L -> {"none", "accept", "start", "login", "closed"}]
  /\ ui_receiver \in [Listen!L -> Seq({"Close", "Login"})]
  /\ lc \in [port_forward : Ports \cup {"none"}, hash : Listen!L \cup {Listen!Nobody}]
  /\ request \in [Listen!L -> [target : Ports \cup {"none"},
          challenge : Listen!L \cup {Listen!Nobody}]]
  /\ crossed \in BOOLEAN

(* Between two of the user's requests to listen at p, and before one while a *)
(* listener has the queue of p, comes one to stop; likewise behind the last  *)
(* one when p is not configured.                                             *)
Alternates(r, qs, C, p) ==
  /\ \A i, j \in DOMAIN r : i < j /\ r[i] = Add(p) /\ r[j] = Add(p) =>
       \E k \in DOMAIN r : i < k /\ k < j /\ r[k] = Remove(p)
  /\ \A j \in DOMAIN r : qs[p] # Listen!Nobody /\ r[j] = Add(p) =>
       \E k \in DOMAIN r : k < j /\ r[k] = Remove(p)
  /\ p \notin C =>
       /\ \A i \in DOMAIN r : r[i] = Add(p) => \E k \in DOMAIN r : i < k /\ r[k] = Remove(p)
       /\ qs[p] # Listen!Nobody => \E k \in DOMAIN r : r[k] = Remove(p)

Alternate == \A p \in Ports : Alternates(receiver, queues, listen_config, p)

(* A listener is told to close.                                              *)
Closes(s) == \E i \in DOMAIN s : s[i] = "Close"
Told(l) == Closes(ui_receiver[l])

(* Listeners start in their order; one that goes on has the queue of its     *)
(* port, or was told to close.                                               *)
InService ==
  /\ \A l \in Listen!L : st[l] # "none" => \A k \in Listen!L : k < l => st[k] # "none"
  /\ \A l \in Listen!L : st[l] = "none" <=> port[l] = "none"
  /\ \A l \in Listen!L : st[l] \notin {"none", "closed"} /\ l \notin deaf =>
       queues[port[l]] = l \/ Told(l)

(* The request that a listener makes at its own login.                       *)
Its(l) == [target |-> port[l], challenge |-> l]

(* Of two listeners at their logins neither may be taken for the other.      *)
OwnLogin ==
  /\ \A l \in Listen!L : st[l] # "login" => request[l] = Listen!None
  /\ ~crossed =>
       /\ \A k, l \in Listen!L : Listen!Busy(k) /\ Listen!Busy(l) => k = l
       /\ \A l \in Listen!L : Listen!Busy(l) => lc.port_forward = port[l]
       /\ \A l \in Listen!L : st[l] = "login" => lc.hash = l
       /\ \A l \in Listen!L : request[l] = Listen!None \/ request[l] = Its(l)
       /\ Listen!RightTarget

(* The older of two listeners of a port was told to close.                   *)
Apart ==
  \A k, l \in Listen!L \ deaf :
    k < l /\ port[k] = port[l] /\ port[k] \in Ports => st[k] = "closed" \/ Told(k)

(* What is true of the listeners in every state.                             *)
ListenInv == ListenTyped /\ Alternate /\ InService /\ OwnLogin /\ Apart

(* What stands for no port is not a port.                                   *)
NoneIsNoPort == "none" \notin Ports

(* Messages differ by their kind and their port.                             *)
LEMMA MessagesDiffer ==
  ASSUME NEW p, NEW q
  PROVE  /\ Add(p) = Add(q) => p = q
         /\ Remove(p) = Remove(q) => p = q
         /\ Add(p) # Remove(q) /\ Add(p) # LoginMsg /\ Remove(p) # LoginMsg
BY DEF Add, Remove, LoginMsg

(* What stays of a queue whose first element is taken.                       *)
LEMMA QueueTail ==
  ASSUME NEW M, NEW s \in Seq(M), s # <<>>
  PROVE  /\ Tail(s) \in Seq(M) /\ Head(s) = s[1] /\ 1 \in DOMAIN s
         /\ \A i \in DOMAIN Tail(s) : i \in Nat /\ i + 1 \in DOMAIN s /\ Tail(s)[i] = s[i + 1]
         /\ \A k \in DOMAIN s : k \in Nat \ {0}
         /\ \A k \in DOMAIN s : k # 1 => k - 1 \in DOMAIN Tail(s) /\ Tail(s)[k - 1] = s[k]
OBVIOUS

(* What a message adds to a queue.                                           *)
LEMMA QueueAppend ==
  ASSUME NEW M, NEW s \in Seq(M), NEW m \in M
  PROVE  /\ Append(s, m) \in Seq(M)
         /\ \A i \in DOMAIN s : i \in Nat /\ i < Len(s) + 1 /\ i \in DOMAIN Append(s, m)
                 /\ Append(s, m)[i] = s[i]
         /\ Len(s) + 1 \in DOMAIN Append(s, m) /\ Append(s, m)[Len(s) + 1] = m
         /\ \A i \in DOMAIN Append(s, m) : i \in DOMAIN s \/ i = Len(s) + 1
OBVIOUS

(* The same for a listener's queue and what it was told.                     *)
LEMMA QueueTold ==
  ASSUME NEW s \in Seq({"Close", "Login"})
  PROVE  /\ \A m \in {"Close", "Login"} :
              /\ Append(s, m) \in Seq({"Close", "Login"})
              /\ Closes(s) \/ m = "Close" => Closes(Append(s, m))
         /\ s # <<>> =>
              /\ Tail(s) \in Seq({"Close", "Login"})
              /\ Head(s) \in {"Close", "Login"}
              /\ Closes(s) /\ Head(s) # "Close" => Closes(Tail(s))
<1>1. ASSUME NEW m \in {"Close", "Login"} PROVE Append(s, m) \in Seq({"Close", "Login"})
                                              /\ (Closes(s) \/ m = "Close" => Closes(Append(s,
                                                      m)))
  <2>1. CASE m = "Close"
    BY <2>1, QueueAppend DEF Closes
  <2>2. CASE Closes(s)
    BY <2>2, QueueAppend DEF Closes
  <2> QED
    BY <2>1, <2>2, QueueAppend
<1>2. ASSUME s # <<>> PROVE /\ Tail(s) \in Seq({"Close", "Login"})
                            /\ Head(s) \in {"Close", "Login"}
                            /\ (Closes(s) /\ Head(s) # "Close" => Closes(Tail(s)))
  <2>1. ASSUME Closes(s), Head(s) # "Close" PROVE Closes(Tail(s))
    <3>1. PICK k \in DOMAIN s : s[k] = "Close"
      BY <2>1 DEF Closes
    <3>2. k # 1
      BY <3>1, <2>1, <1>2, QueueTail
    <3>3. k - 1 \in DOMAIN Tail(s) /\ Tail(s)[k - 1] = "Close"
      BY <3>1, <3>2, <1>2, QueueTail
    <3> QED
      BY <3>3 DEF Closes
  <2> QED
    BY <2>1, <1>2
<1> QED
  BY <1>1, <1>2

(* The requests alternate still when the user adds one.                      *)
LEMMA AppendAdd ==
  ASSUME NEW r \in Seq(Msgs), NEW qs, NEW C, NEW D, NEW p \in Ports, p \notin C, p \in D,
         Alternates(r, qs, C, p)
  PROVE  Alternates(Append(r, Add(p)), qs, D, p)
<1> DEFINE m == Add(p)
           s == Append(r, m)
<1>1. m \in Msgs
  BY DEF Msgs
<1>2. Add(p) # Remove(p)
  BY MessagesDiffer
<1> HIDE DEF s
<1>3. /\ \A i \in DOMAIN r : i \in Nat /\ i < Len(r) + 1 /\ i \in DOMAIN s /\ s[i] = r[i]
      /\ Len(r) + 1 \in DOMAIN s /\ s[Len(r) + 1] = m
      /\ \A i \in DOMAIN s : i \in DOMAIN r \/ i = Len(r) + 1
  BY <1>1, QueueAppend DEF s
<1>4. Len(r) \in Nat
  OBVIOUS
<1>5. ASSUME NEW i \in DOMAIN s, NEW j \in DOMAIN s, i < j, s[i] = Add(p), s[j] = Add(p)
      PROVE  \E k \in DOMAIN s : i < k /\ k < j /\ s[k] = Remove(p)
  <2>1. i \in DOMAIN r
    BY <1>3, <1>4, <1>5
  <2>2. CASE j \in DOMAIN r
    <3>1. PICK k \in DOMAIN r : i < k /\ k < j /\ r[k] = Remove(p)
      BY <2>1, <2>2, <1>3, <1>5 DEF Alternates
    <3> QED
      BY <3>1, <1>3
  <2>3. CASE j = Len(r) + 1
    <3>1. PICK k \in DOMAIN r : i < k /\ r[k] = Remove(p)
      BY <2>1, <1>3, <1>5 DEF Alternates
    <3> QED
      BY <3>1, <2>3, <1>3
  <2> QED
    BY <2>2, <2>3, <1>3
<1>6. ASSUME NEW j \in DOMAIN s, qs[p] # Listen!Nobody, s[j] = Add(p)
      PROVE  \E k \in DOMAIN s : k < j /\ s[k] = Remove(p)
  <2>1. CASE j \in DOMAIN r
    <3>1. PICK k \in DOMAIN r : k < j /\ r[k] = Remove(p)
      BY <2>1, <1>3, <1>6 DEF Alternates
    <3> QED
      BY <3>1, <1>3
  <2>2. CASE j = Len(r) + 1
    <3>1. PICK k \in DOMAIN r : r[k] = Remove(p)
      BY <1>6 DEF Alternates
    <3> QED
      BY <3>1, <2>2, <1>3
  <2> QED
    BY <2>1, <2>2, <1>3
<1> QED
  BY <1>5, <1>6 DEF Alternates, s

(* And when the user takes one back.                                         *)
LEMMA AppendRemove ==
  ASSUME NEW r \in Seq(Msgs), NEW qs, NEW C, NEW D, NEW p \in Ports,
         Alternates(r, qs, C, p)
  PROVE  Alternates(Append(r, Remove(p)), qs, D, p)
<1> DEFINE m == Remove(p)
           s == Append(r, m)
<1>1. m \in Msgs
  BY DEF Msgs
<1>2. Add(p) # Remove(p)
  BY MessagesDiffer
<1> HIDE DEF s
<1>3. /\ \A i \in DOMAIN r : i \in Nat /\ i < Len(r) + 1 /\ i \in DOMAIN s /\ s[i] = r[i]
      /\ Len(r) + 1 \in DOMAIN s /\ s[Len(r) + 1] = m
      /\ \A i \in DOMAIN s : i \in DOMAIN r \/ i = Len(r) + 1
  BY <1>1, QueueAppend DEF s
<1>4. \A i \in DOMAIN s : s[i] = Add(p) => i \in DOMAIN r /\ r[i] = Add(p)
  BY <1>2, <1>3
<1>5. ASSUME NEW i \in DOMAIN s, NEW j \in DOMAIN s, i < j, s[i] = Add(p), s[j] = Add(p)
      PROVE  \E k \in DOMAIN s : i < k /\ k < j /\ s[k] = Remove(p)
  <2>1. PICK k \in DOMAIN r : i < k /\ k < j /\ r[k] = Remove(p)
    BY <1>4, <1>5 DEF Alternates
  <2> QED
    BY <2>1, <1>3
<1>6. ASSUME NEW j \in DOMAIN s, qs[p] # Listen!Nobody, s[j] = Add(p)
      PROVE  \E k \in DOMAIN s : k < j /\ s[k] = Remove(p)
  <2>1. PICK k \in DOMAIN r : k < j /\ r[k] = Remove(p)
    BY <1>4, <1>6 DEF Alternates
  <2> QED
    BY <2>1, <1>3
<1>7. ASSUME NEW i \in DOMAIN s, s[i] = Add(p)
      PROVE  \E k \in DOMAIN s : i < k /\ s[k] = Remove(p)
  BY <1>3, <1>4, <1>7
<1>8. \E k \in DOMAIN s : s[k] = Remove(p)
  BY <1>3
<1> QED
  BY <1>5, <1>6, <1>7, <1>8 DEF Alternates, s

(* What is not about p changes nothing.                                      *)
LEMMA AppendOther ==
  ASSUME NEW r \in Seq(Msgs), NEW qs, NEW C, NEW D, NEW p \in Ports, p \in C <=> p \in D,
         NEW m \in Msgs, m # Add(p), m # Remove(p), Alternates(r, qs, C, p)
  PROVE  Alternates(Append(r, m), qs, D, p)
<1> DEFINE s == Append(r, m)
<1> HIDE DEF s
<1>3. /\ \A i \in DOMAIN r : i \in Nat /\ i < Len(r) + 1 /\ i \in DOMAIN s /\ s[i] = r[i]
      /\ Len(r) + 1 \in DOMAIN s /\ s[Len(r) + 1] = m
      /\ \A i \in DOMAIN s : i \in DOMAIN r \/ i = Len(r) + 1
  BY QueueAppend DEF s
<1>4. \A i \in DOMAIN s : s[i] = Add(p) => i \in DOMAIN r /\ r[i] = Add(p)
  BY <1>3
<1>5. ASSUME NEW i \in DOMAIN s, NEW j \in DOMAIN s, i < j, s[i] = Add(p), s[j] = Add(p)
      PROVE  \E k \in DOMAIN s : i < k /\ k < j /\ s[k] = Remove(p)
  <2>1. PICK k \in DOMAIN r : i < k /\ k < j /\ r[k] = Remove(p)
    BY <1>4, <1>5 DEF Alternates
  <2> QED
    BY <2>1, <1>3
<1>6. ASSUME NEW j \in DOMAIN s, qs[p] # Listen!Nobody, s[j] = Add(p)
      PROVE  \E k \in DOMAIN s : k < j /\ s[k] = Remove(p)
  <2>1. PICK k \in DOMAIN r : k < j /\ r[k] = Remove(p)
    BY <1>4, <1>6 DEF Alternates
  <2> QED
    BY <2>1, <1>3
<1>7. ASSUME NEW i \in DOMAIN s, s[i] = Add(p), p \notin D
      PROVE  \E k \in DOMAIN s : i < k /\ s[k] = Remove(p)
  <2>1. PICK k \in DOMAIN r : i < k /\ r[k] = Remove(p)
    BY <1>4, <1>7 DEF Alternates
  <2> QED
    BY <2>1, <1>3
<1>8. ASSUME qs[p] # Listen!Nobody, p \notin D PROVE \E k \in DOMAIN s : s[k] = Remove(p)
  <2>1. PICK k \in DOMAIN r : r[k] = Remove(p)
    BY <1>8 DEF Alternates
  <2> QED
    BY <2>1, <1>3
<1> QED
  BY <1>5, <1>6, <1>7, <1>8 DEF Alternates, s

(* No listener has the queue of p when the next request is to listen at p.   *)
LEMMA TakeAdd ==
  ASSUME NEW r \in Seq(Msgs), NEW qs, NEW rs, NEW C, NEW p \in Ports, r # <<>>,
         Head(r) = Add(p), Alternates(r, qs, C, p)
  PROVE  qs[p] = Listen!Nobody /\ Alternates(Tail(r), rs, C, p)
<1> DEFINE s == Tail(r)
<1>1. /\ Head(r) = r[1] /\ 1 \in DOMAIN r
      /\ \A i \in DOMAIN s : i \in Nat /\ i + 1 \in DOMAIN r /\ s[i] = r[i + 1]
      /\ \A k \in DOMAIN r : k \in Nat \ {0}
      /\ \A k \in DOMAIN r : k # 1 => k - 1 \in DOMAIN s /\ s[k - 1] = r[k]
  BY QueueTail
<1> HIDE DEF s
<1>2. Add(p) # Remove(p)
  BY MessagesDiffer
<1>3. qs[p] = Listen!Nobody
  BY <1>1 DEF Alternates
<1>4. \A i \in DOMAIN s : i \in Nat /\ i # 0
  BY <1>1 DEF s
<1>5. ASSUME NEW i \in DOMAIN s, NEW j \in DOMAIN s, i < j, s[i] = Add(p), s[j] = Add(p)
      PROVE  \E k \in DOMAIN s : i < k /\ k < j /\ s[k] = Remove(p)
  <2>0. /\ i + 1 \in DOMAIN r /\ j + 1 \in DOMAIN r /\ i + 1 < j + 1
        /\ r[i + 1] = Add(p) /\ r[j + 1] = Add(p)
    BY <1>1, <1>5
  <2>1. PICK k \in DOMAIN r : i + 1 < k /\ k < j + 1 /\ r[k] = Remove(p)
    BY <2>0 DEF Alternates
  <2>2. k # 1 /\ i < k - 1 /\ k - 1 < j
    BY <1>1, <2>1
  <2> QED
    BY <2>1, <2>2, <1>1
<1>6. ASSUME NEW j \in DOMAIN s, s[j] = Add(p)
      PROVE  \E k \in DOMAIN s : k < j /\ s[k] = Remove(p)
  <2>1. 1 < j + 1
    BY <1>4
  <2>2. PICK k \in DOMAIN r : 1 < k /\ k < j + 1 /\ r[k] = Remove(p)
    BY <1>1, <1>6, <2>1 DEF Alternates
  <2>3. k # 1 /\ k - 1 < j
    BY <1>1, <2>2
  <2> QED
    BY <2>2, <2>3, <1>1
<1>7. ASSUME NEW i \in DOMAIN s, s[i] = Add(p), p \notin C
      PROVE  \E k \in DOMAIN s : i < k /\ s[k] = Remove(p)
  <2>1. PICK k \in DOMAIN r : i + 1 < k /\ r[k] = Remove(p)
    BY <1>1, <1>7 DEF Alternates
  <2>2. k # 1 /\ i < k - 1
    BY <1>1, <2>1
  <2> QED
    BY <2>1, <2>2, <1>1
<1>8. ASSUME p \notin C PROVE \E k \in DOMAIN s : s[k] = Remove(p)
  <2>1. PICK k \in DOMAIN r : 1 < k /\ r[k] = Remove(p)
    BY <1>1, <1>8 DEF Alternates
  <2>2. k # 1
    BY <2>1
  <2> QED
    BY <2>1, <2>2, <1>1
<1> QED
  BY <1>3, <1>5, <1>6, <1>7, <1>8 DEF Alternates, s

(* The queue is taken from the listener when the request to stop is handled. *)
LEMMA TakeRemove ==
  ASSUME NEW r \in Seq(Msgs), NEW qs, NEW rs, NEW C, NEW p \in Ports, r # <<>>,
         Head(r) = Remove(p), rs[p] = Listen!Nobody, Alternates(r, qs, C, p)
  PROVE  Alternates(Tail(r), rs, C, p)
<1> DEFINE s == Tail(r)
<1>1. /\ Head(r) = r[1] /\ 1 \in DOMAIN r
      /\ \A i \in DOMAIN s : i \in Nat /\ i + 1 \in DOMAIN r /\ s[i] = r[i + 1]
      /\ \A k \in DOMAIN r : k \in Nat \ {0}
      /\ \A k \in DOMAIN r : k # 1 => k - 1 \in DOMAIN s /\ s[k - 1] = r[k]
  BY QueueTail
<1> HIDE DEF s
<1>5. ASSUME NEW i \in DOMAIN s, NEW j \in DOMAIN s, i < j, s[i] = Add(p), s[j] = Add(p)
      PROVE  \E k \in DOMAIN s : i < k /\ k < j /\ s[k] = Remove(p)
  <2>0. /\ i + 1 \in DOMAIN r /\ j + 1 \in DOMAIN r /\ i + 1 < j + 1
        /\ r[i + 1] = Add(p) /\ r[j + 1] = Add(p)
    BY <1>1, <1>5
  <2>1. PICK k \in DOMAIN r : i + 1 < k /\ k < j + 1 /\ r[k] = Remove(p)
    BY <2>0 DEF Alternates
  <2>2. k # 1 /\ i < k - 1 /\ k - 1 < j
    BY <1>1, <2>1
  <2> QED
    BY <2>1, <2>2, <1>1
<1>7. ASSUME NEW i \in DOMAIN s, s[i] = Add(p), p \notin C
      PROVE  \E k \in DOMAIN s : i < k /\ s[k] = Remove(p)
  <2>1. PICK k \in DOMAIN r : i + 1 < k /\ r[k] = Remove(p)
    BY <1>1, <1>7 DEF Alternates
  <2>2. k # 1 /\ i < k - 1
    BY <1>1, <2>1
  <2> QED
    BY <2>1, <2>2, <1>1
<1> QED
  BY <1>5, <1>7 DEF Alternates, s

(* Handling what is not about p changes nothing.                             *)
LEMMA TakeOther ==
  ASSUME NEW r \in Seq(Msgs), NEW qs, NEW rs, NEW C, NEW p \in Ports, r # <<>>,
         Head(r) # Add(p), Head(r) # Remove(p), rs[p] = qs[p], Alternates(r, qs, C, p)
  PROVE  Alternates(Tail(r), rs, C, p)
<1> DEFINE s == Tail(r)
<1>1. /\ Head(r) = r[1] /\ 1 \in DOMAIN r
      /\ \A i \in DOMAIN s : i \in Nat /\ i + 1 \in DOMAIN r /\ s[i] = r[i + 1]
      /\ \A k \in DOMAIN r : k \in Nat \ {0}
      /\ \A k \in DOMAIN r : k # 1 => k - 1 \in DOMAIN s /\ s[k - 1] = r[k]
  BY QueueTail
<1> HIDE DEF s
<1>5. ASSUME NEW i \in DOMAIN s, NEW j \in DOMAIN s, i < j, s[i] = Add(p), s[j] = Add(p)
      PROVE  \E k \in DOMAIN s : i < k /\ k < j /\ s[k] = Remove(p)
  <2>0. /\ i + 1 \in DOMAIN r /\ j + 1 \in DOMAIN r /\ i + 1 < j + 1
        /\ r[i + 1] = Add(p) /\ r[j + 1] = Add(p)
    BY <1>1, <1>5
  <2>1. PICK k \in DOMAIN r : i + 1 < k /\ k < j + 1 /\ r[k] = Remove(p)
    BY <2>0 DEF Alternates
  <2>2. k # 1 /\ i < k - 1 /\ k - 1 < j
    BY <1>1, <2>1
  <2> QED
    BY <2>1, <2>2, <1>1
<1>6. ASSUME NEW j \in DOMAIN s, qs[p] # Listen!Nobody, s[j] = Add(p)
      PROVE  \E k \in DOMAIN s : k < j /\ s[k] = Remove(p)
  <2>2. PICK k \in DOMAIN r : k < j + 1 /\ r[k] = Remove(p)
    BY <1>1, <1>6 DEF Alternates
  <2>3. k # 1 /\ k - 1 < j
    BY <1>1, <2>2
  <2> QED
    BY <2>2, <2>3, <1>1
<1>7. ASSUME NEW i \in DOMAIN s, s[i] = Add(p), p \notin C
      PROVE  \E k \in DOMAIN s : i < k /\ s[k] = Remove(p)
  <2>1. PICK k \in DOMAIN r : i + 1 < k /\ r[k] = Remove(p)
    BY <1>1, <1>7 DEF Alternates
  <2>2. k # 1 /\ i < k - 1
    BY <1>1, <2>1
  <2> QED
    BY <2>1, <2>2, <1>1
<1>8. ASSUME qs[p] # Listen!Nobody, p \notin C PROVE \E k \in DOMAIN s : s[k] = Remove(p)
  <2>1. PICK k \in DOMAIN r : r[k] = Remove(p)
    BY <1>8 DEF Alternates
  <2> QED
    BY <2>1, <1>1
<1> QED
  BY <1>5, <1>6, <1>7, <1>8 DEF Alternates, s

(* The types are kept.                                                       *)
LEMMA ListenTypesKept ==
  ASSUME NoneIsNoPort, ListenInv, [Listen!Next]_(Listen!vars) PROVE ListenTyped'
<1>1. ASSUME NEW p \in Ports, Listen!add_port_forward(p) PROVE ListenTyped'
  BY <1>1, QueueTail, QueueTold DEF Listen!add_port_forward, ListenInv, ListenTyped, Listen!recv,
      Listen!tasks, Listen!None, Listen!L, Listen!Nobody, Msgs, Add, Remove, LoginMsg, Listen!Busy
<1>2. ASSUME NEW p \in Ports, Listen!remove_port_forward(p) PROVE ListenTyped'
  BY <1>2, QueueTail, QueueTold DEF Listen!remove_port_forward, ListenInv, ListenTyped,
      Listen!recv, Listen!tasks, Listen!None, Listen!L, Listen!Nobody, Msgs, Add, Remove,
          LoginMsg, Listen!Busy
<1>3. ASSUME NEW p \in Ports, Listen!close_port_forward(p) PROVE ListenTyped'
  BY <1>3, QueueTail, QueueTold DEF Listen!close_port_forward, ListenInv, ListenTyped,
      Listen!recv, Listen!tasks, Listen!None, Listen!L, Listen!Nobody, Msgs, Add, Remove,
          LoginMsg, Listen!Busy
<1>4. CASE Listen!login
  BY <1>4, QueueTail, QueueTold DEF Listen!login, ListenInv, ListenTyped, Listen!recv,
      Listen!tasks, Listen!None, Listen!L, Listen!Nobody, Msgs, Add, Remove, LoginMsg, Listen!Busy
<1>5. CASE Listen!send_to_all
  BY <1>5, QueueTail, QueueTold DEF Listen!send_to_all, ListenInv, ListenTyped, Listen!recv,
      Listen!tasks, Listen!None, Listen!L, Listen!Nobody, Msgs, Add, Remove, LoginMsg, Listen!Busy
<1>6. ASSUME NEW l \in Listen!L, Listen!start_one_port_forward(l) PROVE ListenTyped'
  BY <1>6, QueueTail, QueueTold DEF Listen!start_one_port_forward, ListenInv, ListenTyped,
      Listen!recv, Listen!tasks, Listen!None, Listen!L, Listen!Nobody, Msgs, Add, Remove,
          LoginMsg, Listen!Busy
<1>7. ASSUME NEW l \in Listen!L, Listen!accept(l) PROVE ListenTyped'
  BY <1>7, QueueTail, QueueTold DEF Listen!accept, ListenInv, ListenTyped, Listen!recv,
      Listen!tasks, Listen!None, Listen!L, Listen!Nobody, Msgs, Add, Remove, LoginMsg, Listen!Busy
<1>8. ASSUME NEW l \in Listen!L, Listen!listen_recv(l) PROVE ListenTyped'
  BY <1>8, QueueTail, QueueTold DEF Listen!listen_recv, ListenInv, ListenTyped, Listen!recv,
      Listen!tasks, Listen!None, Listen!L, Listen!Nobody, Msgs, Add, Remove, LoginMsg, Listen!Busy
<1>9. ASSUME NEW l \in Listen!L, Listen!handle_hash(l) PROVE ListenTyped'
  BY <1>9, QueueTail, QueueTold DEF Listen!handle_hash, ListenInv, ListenTyped, Listen!recv,
      Listen!tasks, Listen!None, Listen!L, Listen!Nobody, Msgs, Add, Remove, LoginMsg, Listen!Busy
<1>10. ASSUME NEW l \in Listen!L, Listen!connect_failed(l) PROVE ListenTyped'
  BY <1>10, QueueTail, QueueTold DEF Listen!connect_failed, ListenInv, ListenTyped, Listen!recv,
      Listen!tasks, Listen!None, Listen!L, Listen!Nobody, Msgs, Add, Remove, LoginMsg, Listen!Busy
<1>11. ASSUME NEW l \in Listen!L, Listen!login_refused(l) PROVE ListenTyped'
  BY <1>11, QueueTail, QueueTold DEF Listen!login_refused, ListenInv, ListenTyped, Listen!recv,
      Listen!tasks, Listen!None, Listen!L, Listen!Nobody, Msgs, Add, Remove, LoginMsg, Listen!Busy
<1>12. ASSUME NEW l \in Listen!L, Listen!login_accepted(l) PROVE ListenTyped'
  BY <1>12, QueueTail, QueueTold DEF Listen!login_accepted, ListenInv, ListenTyped, Listen!recv,
      Listen!tasks, Listen!None, Listen!L, Listen!Nobody, Msgs, Add, Remove, LoginMsg, Listen!Busy
<1>13. ASSUME NEW l \in Listen!L, Listen!login_recv(l) PROVE ListenTyped'
  <2>1. /\ ui_receiver[l] \in Seq({"Close", "Login"}) /\ ui_receiver[l] # <<>>
        /\ ui_receiver' = [ui_receiver EXCEPT ![l] = Tail(@)]
    BY <1>13 DEF Listen!login_recv, ListenInv, ListenTyped
  <2>2. ui_receiver' \in [Listen!L -> Seq({"Close", "Login"})]
    BY <2>1, QueueTold DEF ListenInv, ListenTyped
  <2>3. request' \in [Listen!L -> [target : Ports \cup {"none"},
          challenge : Listen!L \cup {Listen!Nobody}]]
    <3>1. lc.port_forward \in Ports \cup {"none"} /\ lc.hash \in Listen!L \cup {Listen!Nobody}
      BY DEF ListenInv, ListenTyped
    <3>2. \/ request' = request
          \/ request' = [request EXCEPT ![l] = [target |-> lc.port_forward,
                  challenge |-> lc.hash]]
      BY <1>13 DEF Listen!login_recv
    <3>3. [target |-> lc.port_forward, challenge |-> lc.hash] \in
            [target : Ports \cup {"none"}, challenge : Listen!L \cup {Listen!Nobody}]
      BY <3>1
    <3>4. request \in [Listen!L -> [target : Ports \cup {"none"},
            challenge : Listen!L \cup {Listen!Nobody}]]
      BY DEF ListenInv, ListenTyped
    <3> QED
      BY <3>2, <3>3, <3>4
  <2> QED
    BY <1>13, <2>2, <2>3 DEF Listen!login_recv, ListenInv, ListenTyped
<1>14. CASE UNCHANGED Listen!vars
  BY <1>14, QueueTail, QueueTold DEF Listen!vars, ListenInv, ListenTyped, Listen!recv,
      Listen!tasks, Listen!None, Listen!L, Listen!Nobody, Msgs, Add, Remove, LoginMsg, Listen!Busy
<1> QED
  BY <1>1, <1>2, <1>3, <1>4, <1>5, <1>6, <1>7, <1>8, <1>9, <1>10, <1>11, <1>12, <1>13, <1>14
      DEF Listen!Next

(* The requests alternate still.                                             *)
LEMMA AlternateKept ==
  ASSUME NoneIsNoPort, ListenInv, [Listen!Next]_(Listen!vars) PROVE Alternate'
<1>1. ASSUME NEW p \in Ports, Listen!add_port_forward(p) PROVE Alternate'
  <2>1. receiver \in Seq(Msgs) /\ queues \in [Ports -> Listen!L \cup {Listen!Nobody}]
          /\ listen_config \subseteq Ports
        /\ \A q \in Ports : Alternates(receiver, queues, listen_config, q)
    BY DEF ListenInv, ListenTyped, Alternate
  <2>2. p \notin listen_config /\ listen_config' = listen_config \cup {p}
          /\ receiver' = Append(receiver, Add(p)) /\ queues' = queues
    BY <1>1 DEF Listen!add_port_forward, Add
  <2>3. Alternates(receiver', queues', listen_config', p)
    BY <2>1, <2>2, AppendAdd
  <2>4. Add(p) \in Msgs
    BY DEF Msgs
  <2>5. ASSUME NEW q \in Ports, q # p PROVE Alternates(receiver', queues', listen_config', q)
    <3>1. Add(p) # Add(q) /\ Add(p) # Remove(q)
      BY <2>5, MessagesDiffer
    <3>2. q \in listen_config <=> q \in listen_config'
      BY <2>2, <2>5
    <3> QED
      BY <2>1, <2>2, <2>4, <3>1, <3>2, AppendOther
  <2> QED
    BY <2>3, <2>5 DEF Alternate
<1>2. ASSUME NEW p \in Ports, Listen!remove_port_forward(p) PROVE Alternate'
  <2>1. receiver \in Seq(Msgs) /\ queues \in [Ports -> Listen!L \cup {Listen!Nobody}]
          /\ listen_config \subseteq Ports
        /\ \A q \in Ports : Alternates(receiver, queues, listen_config, q)
    BY DEF ListenInv, ListenTyped, Alternate
  <2>2. listen_config' = listen_config \ {p} /\ receiver' = Append(receiver, Remove(p))
          /\ queues' = queues
    BY <1>2 DEF Listen!remove_port_forward, Remove
  <2>3. Alternates(receiver', queues', listen_config', p)
    BY <2>1, <2>2, AppendRemove
  <2>4. Remove(p) \in Msgs
    BY DEF Msgs
  <2>5. ASSUME NEW q \in Ports, q # p PROVE Alternates(receiver', queues', listen_config', q)
    <3>1. Remove(p) # Add(q) /\ Remove(p) # Remove(q)
      BY <2>5, MessagesDiffer
    <3>2. q \in listen_config <=> q \in listen_config'
      BY <2>2, <2>5
    <3> QED
      BY <2>1, <2>2, <2>4, <3>1, <3>2, AppendOther
  <2> QED
    BY <2>3, <2>5 DEF Alternate
<1>3. ASSUME NEW p \in Ports, Listen!close_port_forward(p) PROVE Alternate'
  <2>1. receiver \in Seq(Msgs) /\ queues \in [Ports -> Listen!L \cup {Listen!Nobody}]
          /\ listen_config \subseteq Ports
        /\ \A q \in Ports : Alternates(receiver, queues, listen_config, q)
    BY DEF ListenInv, ListenTyped, Alternate
  <2>2. /\ receiver # <<>> /\ receiver' = Tail(receiver) /\ Head(receiver) = Remove(p)
        /\ queues' = [queues EXCEPT ![p] = Listen!Nobody] /\ listen_config' = listen_config
    BY <1>3 DEF Listen!close_port_forward, Listen!recv, Remove
  <2>3. Alternates(receiver', queues', listen_config', p)
    <3>1. queues'[p] = Listen!Nobody
      BY <2>1, <2>2
    <3> QED
      BY <2>1, <2>2, <3>1, TakeRemove
  <2>5. ASSUME NEW q \in Ports, q # p PROVE Alternates(receiver', queues', listen_config', q)
    <3>1. Head(receiver) # Add(q) /\ Head(receiver) # Remove(q)
      BY <2>2, <2>5, MessagesDiffer
    <3>2. queues'[q] = queues[q]
      BY <2>1, <2>2, <2>5
    <3> QED
      BY <2>1, <2>2, <3>1, <3>2, TakeOther
  <2> QED
    BY <2>3, <2>5 DEF Alternate
<1>4. CASE Listen!login
  <2>1. receiver \in Seq(Msgs) /\ queues \in [Ports -> Listen!L \cup {Listen!Nobody}]
          /\ listen_config \subseteq Ports
        /\ \A q \in Ports : Alternates(receiver, queues, listen_config, q)
    BY DEF ListenInv, ListenTyped, Alternate
  <2>2. listen_config' = listen_config /\ receiver' = Append(receiver, LoginMsg)
          /\ queues' = queues
    BY <1>4 DEF Listen!login, LoginMsg
  <2>4. LoginMsg \in Msgs
    BY DEF Msgs
  <2>5. ASSUME NEW q \in Ports PROVE Alternates(receiver', queues', listen_config', q)
    <3>1. LoginMsg # Add(q) /\ LoginMsg # Remove(q)
      BY MessagesDiffer
    <3> QED
      BY <2>1, <2>2, <2>4, <3>1, AppendOther
  <2> QED
    BY <2>5 DEF Alternate
<1>5. CASE Listen!send_to_all
  <2>1. receiver \in Seq(Msgs) /\ queues \in [Ports -> Listen!L \cup {Listen!Nobody}]
          /\ listen_config \subseteq Ports
        /\ \A q \in Ports : Alternates(receiver, queues, listen_config, q)
    BY DEF ListenInv, ListenTyped, Alternate
  <2>2. /\ receiver # <<>> /\ receiver' = Tail(receiver) /\ Head(receiver) = LoginMsg
        /\ queues' = queues /\ listen_config' = listen_config
    BY <1>5 DEF Listen!send_to_all, Listen!recv, LoginMsg
  <2>5. ASSUME NEW q \in Ports PROVE Alternates(receiver', queues', listen_config', q)
    <3>1. Head(receiver) # Add(q) /\ Head(receiver) # Remove(q)
      BY <2>2, MessagesDiffer
    <3> QED
      BY <2>1, <2>2, <3>1, TakeOther
  <2> QED
    BY <2>5 DEF Alternate
<1>6. ASSUME NEW l \in Listen!L, Listen!start_one_port_forward(l) PROVE Alternate'
  <2>1. receiver \in Seq(Msgs) /\ queues \in [Ports -> Listen!L \cup {Listen!Nobody}]
          /\ listen_config \subseteq Ports
        /\ \A q \in Ports : Alternates(receiver, queues, listen_config, q)
    BY DEF ListenInv, ListenTyped, Alternate
  <2>2. PICK p \in Ports :
          /\ receiver # <<>> /\ receiver' = Tail(receiver) /\ Head(receiver) = Add(p)
          /\ queues' = [queues EXCEPT ![p] = l] /\ listen_config' = listen_config
    BY <1>6 DEF Listen!start_one_port_forward, Listen!recv, Add
  <2>3. Alternates(receiver', queues', listen_config', p)
    BY <2>1, <2>2, TakeAdd
  <2>5. ASSUME NEW q \in Ports, q # p PROVE Alternates(receiver', queues', listen_config', q)
    <3>1. Head(receiver) # Add(q) /\ Head(receiver) # Remove(q)
      BY <2>2, <2>5, MessagesDiffer
    <3>2. queues'[q] = queues[q]
      BY <2>1, <2>2, <2>5
    <3> QED
      BY <2>1, <2>2, <3>1, <3>2, TakeOther
  <2> QED
    BY <2>3, <2>5 DEF Alternate
<1>7. ASSUME NEW l \in Listen!L, Listen!accept(l) PROVE Alternate'
  BY <1>7 DEF Listen!accept, ListenInv, Alternate, Listen!recv, Listen!tasks
<1>8. ASSUME NEW l \in Listen!L, Listen!listen_recv(l) PROVE Alternate'
  BY <1>8 DEF Listen!listen_recv, ListenInv, Alternate, Listen!recv, Listen!tasks
<1>9. ASSUME NEW l \in Listen!L, Listen!handle_hash(l) PROVE Alternate'
  BY <1>9 DEF Listen!handle_hash, ListenInv, Alternate, Listen!recv, Listen!tasks
<1>10. ASSUME NEW l \in Listen!L, Listen!connect_failed(l) PROVE Alternate'
  BY <1>10 DEF Listen!connect_failed, ListenInv, Alternate, Listen!recv, Listen!tasks
<1>11. ASSUME NEW l \in Listen!L, Listen!login_refused(l) PROVE Alternate'
  BY <1>11 DEF Listen!login_refused, ListenInv, Alternate, Listen!recv, Listen!tasks
<1>12. ASSUME NEW l \in Listen!L, Listen!login_accepted(l) PROVE Alternate'
  BY <1>12 DEF Listen!login_accepted, ListenInv, Alternate, Listen!recv, Listen!tasks
<1>13. ASSUME NEW l \in Listen!L, Listen!login_recv(l) PROVE Alternate'
  BY <1>13 DEF Listen!login_recv, ListenInv, Alternate, Listen!recv, Listen!tasks
<1>14. CASE UNCHANGED Listen!vars
  BY <1>14 DEF Listen!vars, ListenInv, Alternate, Listen!recv, Listen!tasks
<1> QED
  BY <1>1, <1>2, <1>3, <1>4, <1>5, <1>6, <1>7, <1>8, <1>9, <1>10, <1>11, <1>12, <1>13, <1>14
      DEF Listen!Next

(* The queue of a started listener's port, and what becomes of it.           *)
LEMMA ListenerStarts ==
  ASSUME ListenInv, NEW l \in Listen!L, Listen!start_one_port_forward(l)
  PROVE  \E p \in Ports :
           /\ queues[p] = Listen!Nobody /\ queues' = [queues EXCEPT ![p] = l]
           /\ st[l] = "none" /\ port[l] = "none" /\ st' = [st EXCEPT ![l] = "accept"]
           /\ port' = [port EXCEPT ![l] = p]
           /\ \A k \in Listen!L : k < l => st[k] # "none"
           /\ ui_receiver' = ui_receiver /\ deaf' = deaf
<1>1. PICK p \in Ports :
        /\ receiver # <<>> /\ Head(receiver) = Add(p)
        /\ st[l] = "none" /\ st' = [st EXCEPT ![l] = "accept"] /\ port' = [port EXCEPT ![l] = p]
        /\ queues' = [queues EXCEPT ![p] = l]
        /\ \A k \in Listen!L : k < l => st[k] # "none"
        /\ ui_receiver' = ui_receiver /\ deaf' = deaf
  BY DEF Listen!start_one_port_forward, Listen!recv, Add
<1>2. queues[p] = Listen!Nobody
  <2>1. /\ receiver \in Seq(Msgs) /\ receiver # <<>>
        /\ Head(receiver) = Add(p) /\ Alternates(receiver, queues, listen_config, p)
    BY <1>1 DEF ListenInv, ListenTyped, Alternate
  <2> QED
    BY <2>1, TakeAdd
<1>3. port[l] = "none"
  BY <1>1 DEF ListenInv, InService
<1> QED
  BY <1>1, <1>2, <1>3

(* A listener that goes on has its port's queue or was told still.           *)
LEMMA ServedKept ==
  ASSUME NoneIsNoPort, ListenInv, [Listen!Next]_(Listen!vars) PROVE InService'
<1>1. ASSUME NEW p \in Ports, Listen!add_port_forward(p) PROVE InService'
  BY <1>1 DEF Listen!add_port_forward, ListenInv, InService, Told, Listen!tasks
<1>2. ASSUME NEW p \in Ports, Listen!remove_port_forward(p) PROVE InService'
  BY <1>2 DEF Listen!remove_port_forward, ListenInv, InService, Told, Listen!tasks
<1>3. ASSUME NEW p \in Ports, Listen!close_port_forward(p) PROVE InService'
  <2>1. /\ queues \in [Ports -> Listen!L \cup {Listen!Nobody}]
          /\ port \in [Listen!L -> Ports \cup {"none"}]
        /\ st \in [Listen!L -> {"none", "accept", "start", "login", "closed"}]
        /\ ui_receiver \in [Listen!L -> Seq({"Close", "Login"})]
    BY DEF ListenInv, ListenTyped
  <2>2. /\ queues' = [queues EXCEPT ![p] = Listen!Nobody] /\ st' = st /\ port' = port
          /\ deaf' = deaf
        /\ ui_receiver' = [k \in Listen!L |-> IF k = queues[p] THEN Append(ui_receiver[k],
                "Close") ELSE ui_receiver[k]]
    BY <1>3 DEF Listen!close_port_forward
  <2>3. ASSUME NEW k \in Listen!L, Told(k) \/ queues[p] = k PROVE Told(k)'
    BY <2>1, <2>2, <2>3, QueueTold DEF Told
  <2>4. ASSUME NEW k \in Listen!L, st'[k] \notin {"none", "closed"}, k \notin deaf'
        PROVE  queues'[port'[k]] = k \/ Told(k)'
    <3>1. port[k] \in Ports /\ (queues[port[k]] = k \/ Told(k))
      BY <2>1, <2>2, <2>4 DEF ListenInv, InService
    <3> QED
      BY <2>1, <2>2, <2>3, <3>1
  <2> QED
    BY <2>2, <2>4 DEF ListenInv, InService
<1>4. CASE Listen!login
  BY <1>4 DEF Listen!login, ListenInv, InService, Told, Listen!tasks
<1>5. CASE Listen!send_to_all
  <2>1. /\ queues \in [Ports -> Listen!L \cup {Listen!Nobody}]
          /\ port \in [Listen!L -> Ports \cup {"none"}]
        /\ st \in [Listen!L -> {"none", "accept", "start", "login", "closed"}]
        /\ ui_receiver \in [Listen!L -> Seq({"Close", "Login"})]
    BY DEF ListenInv, ListenTyped
  <2>2. /\ queues' = queues /\ st' = st /\ port' = port /\ deaf' = deaf
        /\ ui_receiver' = [k \in Listen!L |-> IF \E p \in Ports : queues[p] = k
                THEN Append(ui_receiver[k], "Login") ELSE ui_receiver[k]]
    BY <1>5 DEF Listen!send_to_all
  <2>3. ASSUME NEW k \in Listen!L, Told(k) PROVE Told(k)'
    BY <2>1, <2>2, <2>3, QueueTold DEF Told
  <2>4. ASSUME NEW k \in Listen!L, st'[k] \notin {"none", "closed"}, k \notin deaf'
        PROVE  queues'[port'[k]] = k \/ Told(k)'
    BY <2>2, <2>3, <2>4 DEF ListenInv, InService
  <2> QED
    BY <2>2, <2>4 DEF ListenInv, InService
<1>6. ASSUME NEW l \in Listen!L, Listen!start_one_port_forward(l) PROVE InService'
  <2>1. /\ queues \in [Ports -> Listen!L \cup {Listen!Nobody}]
          /\ port \in [Listen!L -> Ports \cup {"none"}]
        /\ st \in [Listen!L -> {"none", "accept", "start", "login", "closed"}]
        /\ ui_receiver \in [Listen!L -> Seq({"Close", "Login"})]
    BY DEF ListenInv, ListenTyped
  <2>2. PICK p \in Ports :
           /\ queues[p] = Listen!Nobody /\ queues' = [queues EXCEPT ![p] = l]
           /\ st[l] = "none" /\ port[l] = "none" /\ st' = [st EXCEPT ![l] = "accept"]
           /\ port' = [port EXCEPT ![l] = p]
           /\ \A k \in Listen!L : k < l => st[k] # "none"
           /\ ui_receiver' = ui_receiver /\ deaf' = deaf
    BY <1>6, ListenerStarts
  <2>3. ASSUME NEW k \in Listen!L PROVE Told(k)' <=> Told(k)
    BY <2>2 DEF Told
  <2>4. ASSUME NEW k \in Listen!L, st'[k] \notin {"none", "closed"}, k \notin deaf'
        PROVE  queues'[port'[k]] = k \/ Told(k)'
    <3>1. CASE k = l
      BY <2>1, <2>2, <3>1
    <3>2. CASE k # l
      <4>1. /\ port[k] \in Ports /\ port'[k] = port[k] /\ (queues[port[k]] = k \/ Told(k))
        BY <2>1, <2>2, <2>4, <3>2 DEF ListenInv, InService
      <4>2. k # Listen!Nobody
        BY DEF Listen!L, Listen!Nobody
      <4> QED
        BY <2>1, <2>2, <2>3, <4>1, <4>2
    <3> QED
      BY <3>1, <3>2
  <2>5. ASSUME NEW k \in Listen!L, NEW m \in Listen!L, st'[k] # "none", m < k
          PROVE st'[m] # "none"
    BY <2>1, <2>2, <2>5 DEF ListenInv, InService
  <2>6. ASSUME NEW k \in Listen!L PROVE st'[k] = "none" <=> port'[k] = "none"
    BY <2>1, <2>2 DEF ListenInv, InService, NoneIsNoPort
  <2> QED
    BY <2>4, <2>5, <2>6 DEF InService
<1>7. ASSUME NEW l \in Listen!L, Listen!accept(l) PROVE InService'
  BY <1>7 DEF Listen!accept, ListenInv, InService, Told, Listen!tasks
<1>8. ASSUME NEW l \in Listen!L, Listen!listen_recv(l) PROVE InService'
  <2>1. /\ queues \in [Ports -> Listen!L \cup {Listen!Nobody}]
          /\ port \in [Listen!L -> Ports \cup {"none"}]
        /\ st \in [Listen!L -> {"none", "accept", "start", "login", "closed"}]
        /\ ui_receiver \in [Listen!L -> Seq({"Close", "Login"})]
    BY DEF ListenInv, ListenTyped
  <2>2. /\ st[l] = "accept" /\ ui_receiver[l] # <<>>
          /\ ui_receiver' = [ui_receiver EXCEPT ![l] = Tail(@)]
        /\ queues' = queues /\ port' = port
    BY <1>8 DEF Listen!listen_recv
  <2>3. /\ st' = (IF Head(ui_receiver[l]) = "Close" THEN [st EXCEPT ![l] = "closed"] ELSE st)
          /\ deaf' = deaf
    BY <1>8 DEF Listen!listen_recv
  <2>4. ASSUME NEW k \in Listen!L, st'[k] \notin {"none", "closed"}, Told(k) PROVE Told(k)'
    <3>1. CASE k = l
      <4>1. Head(ui_receiver[l]) # "Close"
        BY <2>1, <2>3, <2>4, <3>1
      <4> QED
        BY <2>1, <2>2, <2>4, <3>1, <4>1, QueueTold DEF Told
    <3>2. CASE k # l
      BY <2>1, <2>2, <2>4, <3>2 DEF Told
    <3> QED
      BY <3>1, <3>2
  <2>5. \A k \in Listen!L : /\ st'[k] = "none" <=> st[k] = "none"
                     /\ st'[k] \notin {"none", "closed"} => st[k] \notin {"none", "closed"}
    BY <2>1, <2>2, <2>3
  <2> QED
    BY <2>2, <2>3, <2>4, <2>5 DEF ListenInv, InService
<1>9. ASSUME NEW l \in Listen!L, Listen!handle_hash(l) PROVE InService'
  BY <1>9 DEF Listen!handle_hash, ListenInv, InService, Told, Listen!tasks
<1>10. ASSUME NEW l \in Listen!L, Listen!connect_failed(l) PROVE InService'
  <2>1. /\ queues \in [Ports -> Listen!L \cup {Listen!Nobody}]
          /\ port \in [Listen!L -> Ports \cup {"none"}]
        /\ st \in [Listen!L -> {"none", "accept", "start", "login", "closed"}]
        /\ ui_receiver \in [Listen!L -> Seq({"Close", "Login"})]
    BY DEF ListenInv, ListenTyped
  <2>2. /\ st[l] \in {"start", "login"} /\ st' = [st EXCEPT ![l] = "accept"]
        /\ queues' = queues /\ port' = port /\ ui_receiver' = ui_receiver /\ deaf' = deaf
    BY <1>10 DEF Listen!connect_failed, Listen!Busy
  <2>3. \A k \in Listen!L : /\ st'[k] = "none" <=> st[k] = "none"
                     /\ st'[k] \notin {"none", "closed"} => st[k] \notin {"none", "closed"}
    BY <2>1, <2>2
  <2> QED
    BY <2>2, <2>3 DEF ListenInv, InService, Told
<1>11. ASSUME NEW l \in Listen!L, Listen!login_refused(l) PROVE InService'
  BY <1>11 DEF Listen!login_refused, ListenInv, InService, Told, Listen!tasks
<1>12. ASSUME NEW l \in Listen!L, Listen!login_accepted(l) PROVE InService'
  BY <1>12 DEF Listen!login_accepted, ListenInv, InService, Told, Listen!tasks
<1>13. ASSUME NEW l \in Listen!L, Listen!login_recv(l) PROVE InService'
  <2>1. /\ queues \in [Ports -> Listen!L \cup {Listen!Nobody}]
          /\ port \in [Listen!L -> Ports \cup {"none"}]
        /\ st \in [Listen!L -> {"none", "accept", "start", "login", "closed"}]
        /\ ui_receiver \in [Listen!L -> Seq({"Close", "Login"})]
    BY DEF ListenInv, ListenTyped
  <2>2. /\ st[l] = "login" /\ ui_receiver[l] # <<>>
          /\ ui_receiver' = [ui_receiver EXCEPT ![l] = Tail(@)]
        /\ queues' = queues /\ port' = port
    BY <1>13 DEF Listen!login_recv
  <2>3. /\ st' = st /\ deaf \subseteq deaf'
        /\ Head(ui_receiver[l]) # "Login" => deaf' = deaf \cup {l}
    BY <1>13 DEF Listen!login_recv
  <2>4. ASSUME NEW k \in Listen!L, k \notin deaf', Told(k) PROVE Told(k)'
    <3>1. CASE k = l
      <4>1. Head(ui_receiver[l]) # "Close"
        BY <2>3, <2>4, <3>1
      <4> QED
        BY <2>1, <2>2, <2>4, <3>1, <4>1, QueueTold DEF Told
    <3>2. CASE k # l
      BY <2>1, <2>2, <2>4, <3>2 DEF Told
    <3> QED
      BY <3>1, <3>2
  <2> QED
    BY <2>2, <2>3, <2>4 DEF ListenInv, InService
<1>14. CASE UNCHANGED Listen!vars
  BY <1>14 DEF Listen!vars, ListenInv, InService, Told, Listen!tasks
<1> QED
  BY <1>1, <1>2, <1>3, <1>4, <1>5, <1>6, <1>7, <1>8, <1>9, <1>10, <1>11, <1>12, <1>13, <1>14
      DEF Listen!Next

(* A login that was not crossed is its listener's own still.                 *)
LEMMA OwnLoginKept ==
  ASSUME NoneIsNoPort, ListenInv, [Listen!Next]_(Listen!vars) PROVE OwnLogin'
<1>1. ASSUME NEW p \in Ports, Listen!add_port_forward(p) PROVE OwnLogin'
  BY <1>1 DEF Listen!add_port_forward, ListenInv, OwnLogin, Its, Listen!RightTarget, Listen!Busy,
      Listen!tasks
<1>2. ASSUME NEW p \in Ports, Listen!remove_port_forward(p) PROVE OwnLogin'
  BY <1>2 DEF Listen!remove_port_forward, ListenInv, OwnLogin, Its, Listen!RightTarget,
      Listen!Busy, Listen!tasks
<1>3. ASSUME NEW p \in Ports, Listen!close_port_forward(p) PROVE OwnLogin'
  BY <1>3 DEF Listen!close_port_forward, ListenInv, OwnLogin, Its, Listen!RightTarget,
      Listen!Busy, Listen!tasks
<1>4. CASE Listen!login
  BY <1>4 DEF Listen!login, ListenInv, OwnLogin, Its, Listen!RightTarget, Listen!Busy,
      Listen!tasks
<1>5. CASE Listen!send_to_all
  BY <1>5 DEF Listen!send_to_all, ListenInv, OwnLogin, Its, Listen!RightTarget, Listen!Busy,
      Listen!tasks
<1>6. ASSUME NEW l \in Listen!L, Listen!start_one_port_forward(l) PROVE OwnLogin'
  BY <1>6 DEF Listen!start_one_port_forward, ListenInv, OwnLogin, Its, Listen!RightTarget,
      Listen!Busy, Listen!tasks
<1>7. ASSUME NEW l \in Listen!L, Listen!accept(l) PROVE OwnLogin'
  <2>1. /\ port \in [Listen!L -> Ports \cup {"none"}]
        /\ st \in [Listen!L -> {"none", "accept", "start", "login", "closed"}]
        /\ lc \in [port_forward : Ports \cup {"none"}, hash : Listen!L \cup {Listen!Nobody}]
        /\ request \in [Listen!L -> [target : Ports \cup {"none"},
                challenge : Listen!L \cup {Listen!Nobody}]]
        /\ crossed \in BOOLEAN
    BY DEF ListenInv, ListenTyped
  <2>2. /\ st[l] = "accept" /\ st' = [st EXCEPT ![l] = "start"] /\ port' = port
        /\ lc' = [lc EXCEPT !.port_forward = port[l]] /\ request' = request
                /\ forwards' = forwards
        /\ ~crossed' => ~crossed /\ \A k \in Listen!L \ {l} : st[k] \notin {"start", "login"}
    BY <1>7 DEF Listen!accept, Listen!Busy, Listen!tasks
  <2>9. ASSUME NEW k \in Listen!L, st'[k] # "login" PROVE request'[k] = Listen!None
    BY <2>1, <2>2, <2>9 DEF ListenInv, OwnLogin
  <2>4. ASSUME ~crossed'
        PROVE  /\ \A k, m \in Listen!L : Listen!Busy(k)' /\ Listen!Busy(m)' => k = m
               /\ \A m \in Listen!L : Listen!Busy(m)' => lc'.port_forward = port'[m]
               /\ \A m \in Listen!L : st'[m] = "login" => lc'.hash = m
               /\ \A m \in Listen!L : request'[m] = Listen!None \/ request'[m] = Its(m)'
               /\ Listen!RightTarget'
    <3>0. /\ \A k, m \in Listen!L : Listen!Busy(k) /\ Listen!Busy(m) => k = m
          /\ \A m \in Listen!L : Listen!Busy(m) => lc.port_forward = port[m]
          /\ \A m \in Listen!L : st[m] = "login" => lc.hash = m
      BY <2>2, <2>4 DEF ListenInv, OwnLogin
    <3>a. \A m \in Listen!L : request[m] = Listen!None \/ request[m] = Its(m)
      BY <2>2, <2>4 DEF ListenInv, OwnLogin
    <3>b. Listen!RightTarget
      BY <2>2, <2>4 DEF ListenInv, OwnLogin
    <3>c. \A m \in Listen!L : Its(m)' = Its(m)
      BY <2>2 DEF Its
    <3>1. \A m \in Listen!L : Listen!Busy(m)' => m = l
      BY <2>1, <2>2, <2>4 DEF Listen!Busy
    <3>2. \A k, m \in Listen!L : Listen!Busy(k)' /\ Listen!Busy(m)' => k = m
      BY <3>1
    <3>3. \A m \in Listen!L : Listen!Busy(m)' => lc'.port_forward = port'[m]
      BY <2>1, <2>2, <3>1
    <3>4. \A m \in Listen!L : st'[m] = "login" => lc'.hash = m
      BY <2>1, <2>2, <2>4
    <3>5. \A m \in Listen!L : request'[m] = Listen!None \/ request'[m] = Its(m)'
      BY <2>2, <3>a, <3>c
    <3>6. Listen!RightTarget'
      BY <2>2, <3>b DEF Listen!RightTarget
    <3> QED
      BY <3>1, <3>2, <3>3, <3>4, <3>5, <3>6
  <2> QED
    BY <2>9, <2>4 DEF OwnLogin
<1>8. ASSUME NEW l \in Listen!L, Listen!listen_recv(l) PROVE OwnLogin'
  BY <1>8 DEF Listen!listen_recv, ListenInv, OwnLogin, Its, Listen!RightTarget, Listen!Busy,
      Listen!tasks
<1>9. ASSUME NEW l \in Listen!L, Listen!handle_hash(l) PROVE OwnLogin'
  <2>1. /\ port \in [Listen!L -> Ports \cup {"none"}]
        /\ st \in [Listen!L -> {"none", "accept", "start", "login", "closed"}]
        /\ lc \in [port_forward : Ports \cup {"none"}, hash : Listen!L \cup {Listen!Nobody}]
        /\ request \in [Listen!L -> [target : Ports \cup {"none"},
                challenge : Listen!L \cup {Listen!Nobody}]]
        /\ crossed \in BOOLEAN
    BY DEF ListenInv, ListenTyped
  <2>2. /\ st[l] = "start" /\ st' = [st EXCEPT ![l] = "login"] /\ port' = port
        /\ lc' = [lc EXCEPT !.hash = l] /\ forwards' = forwards /\ crossed' = crossed
        /\ request' = [request EXCEPT ![l] = [target |-> lc.port_forward, challenge |-> l]]
    BY <1>9 DEF Listen!handle_hash, Listen!Busy, Listen!tasks
  <2>9. ASSUME NEW k \in Listen!L, st'[k] # "login" PROVE request'[k] = Listen!None
    BY <2>1, <2>2, <2>9 DEF ListenInv, OwnLogin
  <2>4. ASSUME ~crossed'
        PROVE  /\ \A k, m \in Listen!L : Listen!Busy(k)' /\ Listen!Busy(m)' => k = m
               /\ \A m \in Listen!L : Listen!Busy(m)' => lc'.port_forward = port'[m]
               /\ \A m \in Listen!L : st'[m] = "login" => lc'.hash = m
               /\ \A m \in Listen!L : request'[m] = Listen!None \/ request'[m] = Its(m)'
               /\ Listen!RightTarget'
    <3>0. /\ \A k, m \in Listen!L : Listen!Busy(k) /\ Listen!Busy(m) => k = m
          /\ \A m \in Listen!L : Listen!Busy(m) => lc.port_forward = port[m]
          /\ \A m \in Listen!L : st[m] = "login" => lc.hash = m
      BY <2>2, <2>4 DEF ListenInv, OwnLogin
    <3>a. \A m \in Listen!L : request[m] = Listen!None \/ request[m] = Its(m)
      BY <2>2, <2>4 DEF ListenInv, OwnLogin
    <3>b. Listen!RightTarget
      BY <2>2, <2>4 DEF ListenInv, OwnLogin
    <3>c. \A m \in Listen!L : Its(m)' = Its(m)
      BY <2>2 DEF Its
    <3>1. \A m \in Listen!L : Listen!Busy(m)' => Listen!Busy(m)
      BY <2>1, <2>2 DEF Listen!Busy
    <3>2. Listen!Busy(l)
      BY <2>2 DEF Listen!Busy
    <3>3. \A k, m \in Listen!L : Listen!Busy(k)' /\ Listen!Busy(m)' => k = m
      BY <3>0, <3>1
    <3>4. \A m \in Listen!L : Listen!Busy(m)' => lc'.port_forward = port'[m]
      BY <2>1, <2>2, <3>0, <3>1
    <3>5. \A m \in Listen!L : st'[m] = "login" => m = l
      BY <2>1, <2>2, <3>0, <3>2 DEF Listen!Busy
    <3>6. \A m \in Listen!L : st'[m] = "login" => lc'.hash = m
      BY <2>1, <2>2, <3>5
    <3>7. request'[l] = Its(l)
      BY <2>1, <2>2, <3>0, <3>2 DEF Its
    <3>8. \A m \in Listen!L : request'[m] = Listen!None \/ request'[m] = Its(m)'
      BY <2>1, <2>2, <3>a, <3>c, <3>7
    <3>9. Listen!RightTarget'
      BY <2>2, <3>b DEF Listen!RightTarget
    <3> QED
      BY <3>1, <3>2, <3>3, <3>4, <3>5, <3>6, <3>7, <3>8, <3>9
  <2> QED
    BY <2>9, <2>4 DEF OwnLogin
<1>10. ASSUME NEW l \in Listen!L, Listen!connect_failed(l) PROVE OwnLogin'
  <2>1. /\ port \in [Listen!L -> Ports \cup {"none"}]
        /\ st \in [Listen!L -> {"none", "accept", "start", "login", "closed"}]
        /\ lc \in [port_forward : Ports \cup {"none"}, hash : Listen!L \cup {Listen!Nobody}]
        /\ request \in [Listen!L -> [target : Ports \cup {"none"},
                challenge : Listen!L \cup {Listen!Nobody}]]
        /\ crossed \in BOOLEAN
    BY DEF ListenInv, ListenTyped
  <2>2. /\ st' = [st EXCEPT ![l] = "accept"] /\ port' = port
        /\ lc' = lc /\ forwards' = forwards /\ crossed' = crossed
        /\ request' = [request EXCEPT ![l] = Listen!None]
    BY <1>10 DEF Listen!connect_failed, Listen!Busy, Listen!tasks
  <2>9. ASSUME NEW k \in Listen!L, st'[k] # "login" PROVE request'[k] = Listen!None
    BY <2>1, <2>2, <2>9 DEF ListenInv, OwnLogin
  <2>4. ASSUME ~crossed'
        PROVE  /\ \A k, m \in Listen!L : Listen!Busy(k)' /\ Listen!Busy(m)' => k = m
               /\ \A m \in Listen!L : Listen!Busy(m)' => lc'.port_forward = port'[m]
               /\ \A m \in Listen!L : st'[m] = "login" => lc'.hash = m
               /\ \A m \in Listen!L : request'[m] = Listen!None \/ request'[m] = Its(m)'
               /\ Listen!RightTarget'
    <3>0. /\ \A k, m \in Listen!L : Listen!Busy(k) /\ Listen!Busy(m) => k = m
          /\ \A m \in Listen!L : Listen!Busy(m) => lc.port_forward = port[m]
          /\ \A m \in Listen!L : st[m] = "login" => lc.hash = m
      BY <2>2, <2>4 DEF ListenInv, OwnLogin
    <3>a. \A m \in Listen!L : request[m] = Listen!None \/ request[m] = Its(m)
      BY <2>2, <2>4 DEF ListenInv, OwnLogin
    <3>b. Listen!RightTarget
      BY <2>2, <2>4 DEF ListenInv, OwnLogin
    <3>c. \A m \in Listen!L : Its(m)' = Its(m)
      BY <2>2 DEF Its
    <3>1. \A m \in Listen!L : (Listen!Busy(m)' => Listen!Busy(m)) /\ (st'[m] = "login" =>
            st[m] = "login")
      BY <2>1, <2>2 DEF Listen!Busy
    <3>2. \A k, m \in Listen!L : Listen!Busy(k)' /\ Listen!Busy(m)' => k = m
      BY <3>0, <3>1
    <3>3. \A m \in Listen!L : Listen!Busy(m)' => lc'.port_forward = port'[m]
      BY <2>2, <3>0, <3>1
    <3>4. \A m \in Listen!L : st'[m] = "login" => lc'.hash = m
      BY <2>2, <3>0, <3>1
    <3>5. \A m \in Listen!L : request'[m] = Listen!None \/ request'[m] = Its(m)'
      BY <2>1, <2>2, <3>a, <3>c
    <3>6. Listen!RightTarget'
      BY <2>2, <3>b DEF Listen!RightTarget
    <3> QED
      BY <3>1, <3>2, <3>3, <3>4, <3>5, <3>6
  <2> QED
    BY <2>9, <2>4 DEF OwnLogin
<1>11. ASSUME NEW l \in Listen!L, Listen!login_refused(l) PROVE OwnLogin'
  BY <1>11 DEF Listen!login_refused, ListenInv, OwnLogin, Its, Listen!RightTarget, Listen!Busy,
      Listen!tasks
<1>12. ASSUME NEW l \in Listen!L, Listen!login_accepted(l) PROVE OwnLogin'
  <2>1. /\ port \in [Listen!L -> Ports \cup {"none"}]
        /\ st \in [Listen!L -> {"none", "accept", "start", "login", "closed"}]
        /\ lc \in [port_forward : Ports \cup {"none"}, hash : Listen!L \cup {Listen!Nobody}]
        /\ request \in [Listen!L -> [target : Ports \cup {"none"},
                challenge : Listen!L \cup {Listen!Nobody}]]
        /\ crossed \in BOOLEAN
    BY DEF ListenInv, ListenTyped
  <2>2. /\ st[l] = "login" /\ st' = [st EXCEPT ![l] = "accept"] /\ port' = port
        /\ lc' = lc /\ forwards' = forwards \cup {<<port[l], request[l].target>>}
                /\ crossed' = crossed
        /\ request' = [request EXCEPT ![l] = Listen!None] /\ request[l].challenge = l
    BY <1>12 DEF Listen!login_accepted, Listen!Busy, Listen!tasks
  <2>9. ASSUME NEW k \in Listen!L, st'[k] # "login" PROVE request'[k] = Listen!None
    BY <2>1, <2>2, <2>9 DEF ListenInv, OwnLogin
  <2>4. ASSUME ~crossed'
        PROVE  /\ \A k, m \in Listen!L : Listen!Busy(k)' /\ Listen!Busy(m)' => k = m
               /\ \A m \in Listen!L : Listen!Busy(m)' => lc'.port_forward = port'[m]
               /\ \A m \in Listen!L : st'[m] = "login" => lc'.hash = m
               /\ \A m \in Listen!L : request'[m] = Listen!None \/ request'[m] = Its(m)'
               /\ Listen!RightTarget'
    <3>0. /\ \A k, m \in Listen!L : Listen!Busy(k) /\ Listen!Busy(m) => k = m
          /\ \A m \in Listen!L : Listen!Busy(m) => lc.port_forward = port[m]
          /\ \A m \in Listen!L : st[m] = "login" => lc.hash = m
      BY <2>2, <2>4 DEF ListenInv, OwnLogin
    <3>a. \A m \in Listen!L : request[m] = Listen!None \/ request[m] = Its(m)
      BY <2>2, <2>4 DEF ListenInv, OwnLogin
    <3>b. Listen!RightTarget
      BY <2>2, <2>4 DEF ListenInv, OwnLogin
    <3>c. \A m \in Listen!L : Its(m)' = Its(m)
      BY <2>2 DEF Its
    <3>1. \A m \in Listen!L : (Listen!Busy(m)' => Listen!Busy(m)) /\ (st'[m] = "login" =>
            st[m] = "login")
      BY <2>1, <2>2 DEF Listen!Busy
    <3>2. \A k, m \in Listen!L : Listen!Busy(k)' /\ Listen!Busy(m)' => k = m
      BY <3>0, <3>1
    <3>3. \A m \in Listen!L : Listen!Busy(m)' => lc'.port_forward = port'[m]
      BY <2>2, <3>0, <3>1
    <3>4. \A m \in Listen!L : st'[m] = "login" => lc'.hash = m
      BY <2>2, <3>0, <3>1
    <3>5. \A m \in Listen!L : request'[m] = Listen!None \/ request'[m] = Its(m)'
      BY <2>1, <2>2, <3>a, <3>c
    <3>6. l # Listen!Nobody
      BY DEF Listen!L, Listen!Nobody
    <3>7. request[l] # Listen!None
      BY <2>2, <3>6 DEF Listen!None
    <3>8. request[l] = Its(l)
      BY <3>a, <3>7
    <3>9. request[l].target = port[l]
      BY <3>8 DEF Its
    <3>10. Listen!RightTarget'
      BY <2>2, <3>b, <3>9 DEF Listen!RightTarget
    <3> QED
      BY <3>1, <3>2, <3>3, <3>4, <3>5, <3>6, <3>7, <3>8, <3>9, <3>10
  <2> QED
    BY <2>9, <2>4 DEF OwnLogin
<1>13. ASSUME NEW l \in Listen!L, Listen!login_recv(l) PROVE OwnLogin'
  <2>1. /\ port \in [Listen!L -> Ports \cup {"none"}]
        /\ st \in [Listen!L -> {"none", "accept", "start", "login", "closed"}]
        /\ lc \in [port_forward : Ports \cup {"none"}, hash : Listen!L \cup {Listen!Nobody}]
        /\ request \in [Listen!L -> [target : Ports \cup {"none"},
                challenge : Listen!L \cup {Listen!Nobody}]]
        /\ crossed \in BOOLEAN
    BY DEF ListenInv, ListenTyped
  <2>2. /\ st[l] = "login" /\ st' = st /\ port' = port
        /\ lc' = lc /\ forwards' = forwards /\ crossed' = crossed
        /\ \/ request' = request
           \/ request' = [request EXCEPT ![l] = [target |-> lc.port_forward,
                   challenge |-> lc.hash]]
    BY <1>13 DEF Listen!login_recv, Listen!Busy, Listen!tasks
  <2>9. ASSUME NEW k \in Listen!L, st'[k] # "login" PROVE request'[k] = Listen!None
    BY <2>1, <2>2, <2>9 DEF ListenInv, OwnLogin
  <2>4. ASSUME ~crossed'
        PROVE  /\ \A k, m \in Listen!L : Listen!Busy(k)' /\ Listen!Busy(m)' => k = m
               /\ \A m \in Listen!L : Listen!Busy(m)' => lc'.port_forward = port'[m]
               /\ \A m \in Listen!L : st'[m] = "login" => lc'.hash = m
               /\ \A m \in Listen!L : request'[m] = Listen!None \/ request'[m] = Its(m)'
               /\ Listen!RightTarget'
    <3>0. /\ \A k, m \in Listen!L : Listen!Busy(k) /\ Listen!Busy(m) => k = m
          /\ \A m \in Listen!L : Listen!Busy(m) => lc.port_forward = port[m]
          /\ \A m \in Listen!L : st[m] = "login" => lc.hash = m
      BY <2>2, <2>4 DEF ListenInv, OwnLogin
    <3>a. \A m \in Listen!L : request[m] = Listen!None \/ request[m] = Its(m)
      BY <2>2, <2>4 DEF ListenInv, OwnLogin
    <3>b. Listen!RightTarget
      BY <2>2, <2>4 DEF ListenInv, OwnLogin
    <3>c. \A m \in Listen!L : Its(m)' = Its(m)
      BY <2>2 DEF Its
    <3>1. \A m \in Listen!L : (Listen!Busy(m)' => Listen!Busy(m)) /\ (st'[m] = "login" =>
            st[m] = "login")
      BY <2>1, <2>2 DEF Listen!Busy
    <3>2. \A k, m \in Listen!L : Listen!Busy(k)' /\ Listen!Busy(m)' => k = m
      BY <3>0, <3>1
    <3>3. \A m \in Listen!L : Listen!Busy(m)' => lc'.port_forward = port'[m]
      BY <2>2, <3>0, <3>1
    <3>4. \A m \in Listen!L : st'[m] = "login" => lc'.hash = m
      BY <2>2, <3>0, <3>1
    <3>5. lc.port_forward = port[l] /\ lc.hash = l
      BY <2>2, <3>0 DEF Listen!Busy
    <3>6. [target |-> lc.port_forward, challenge |-> lc.hash] = Its(l)
      BY <3>5 DEF Its
    <3>7. \A m \in Listen!L : request'[m] = Listen!None \/ request'[m] = Its(m)'
      BY <2>1, <2>2, <3>a, <3>c, <3>6
    <3>8. Listen!RightTarget'
      BY <2>2, <3>b DEF Listen!RightTarget
    <3> QED
      BY <3>1, <3>2, <3>3, <3>4, <3>5, <3>6, <3>7, <3>8
  <2> QED
    BY <2>9, <2>4 DEF OwnLogin
<1>14. CASE UNCHANGED Listen!vars
  BY <1>14 DEF Listen!vars, ListenInv, OwnLogin, Its, Listen!RightTarget, Listen!Busy,
      Listen!tasks
<1> QED
  BY <1>1, <1>2, <1>3, <1>4, <1>5, <1>6, <1>7, <1>8, <1>9, <1>10, <1>11, <1>12, <1>13, <1>14
      DEF Listen!Next

(* The older listener of a port was told to close still.                     *)
LEMMA ApartKept ==
  ASSUME NoneIsNoPort, ListenInv, [Listen!Next]_(Listen!vars) PROVE Apart'
<1>1. ASSUME NEW p \in Ports, Listen!add_port_forward(p) PROVE Apart'
  BY <1>1 DEF Listen!add_port_forward, ListenInv, Apart, Told, Listen!tasks
<1>2. ASSUME NEW p \in Ports, Listen!remove_port_forward(p) PROVE Apart'
  BY <1>2 DEF Listen!remove_port_forward, ListenInv, Apart, Told, Listen!tasks
<1>3. ASSUME NEW p \in Ports, Listen!close_port_forward(p) PROVE Apart'
  <2>1. /\ queues \in [Ports -> Listen!L \cup {Listen!Nobody}]
          /\ port \in [Listen!L -> Ports \cup {"none"}]
        /\ st \in [Listen!L -> {"none", "accept", "start", "login", "closed"}]
        /\ ui_receiver \in [Listen!L -> Seq({"Close", "Login"})]
    BY DEF ListenInv, ListenTyped
  <2>0. \A k, m \in Listen!L \ deaf : k < m /\ port[k] = port[m] /\ port[k] \in Ports =>
          st[k] = "closed" \/ Told(k)
    BY DEF ListenInv, Apart
  <2>2. /\ st' = st /\ port' = port /\ deaf' = deaf
        /\ ui_receiver' = [k \in Listen!L |-> IF k = queues[p] THEN Append(ui_receiver[k],
                "Close") ELSE ui_receiver[k]]
    BY <1>3 DEF Listen!close_port_forward
  <2>4. ASSUME NEW k \in Listen!L, Told(k) PROVE Told(k)'
    BY <2>1, <2>2, <2>4, QueueTold DEF Told
  <2>5. ASSUME NEW k \in Listen!L \ deaf', NEW m \in Listen!L \ deaf', k < m,
          port'[k] = port'[m], port'[k] \in Ports
        PROVE  st'[k] = "closed" \/ Told(k)'
    BY <2>0, <2>2, <2>4, <2>5
  <2> QED
    BY <2>5 DEF Apart
<1>4. CASE Listen!login
  BY <1>4 DEF Listen!login, ListenInv, Apart, Told, Listen!tasks
<1>5. CASE Listen!send_to_all
  <2>1. /\ queues \in [Ports -> Listen!L \cup {Listen!Nobody}]
          /\ port \in [Listen!L -> Ports \cup {"none"}]
        /\ st \in [Listen!L -> {"none", "accept", "start", "login", "closed"}]
        /\ ui_receiver \in [Listen!L -> Seq({"Close", "Login"})]
    BY DEF ListenInv, ListenTyped
  <2>0. \A k, m \in Listen!L \ deaf : k < m /\ port[k] = port[m] /\ port[k] \in Ports =>
          st[k] = "closed" \/ Told(k)
    BY DEF ListenInv, Apart
  <2>2. /\ st' = st /\ port' = port /\ deaf' = deaf
        /\ ui_receiver' = [k \in Listen!L |-> IF \E p \in Ports : queues[p] = k
                THEN Append(ui_receiver[k], "Login") ELSE ui_receiver[k]]
    BY <1>5 DEF Listen!send_to_all
  <2>4. ASSUME NEW k \in Listen!L, Told(k) PROVE Told(k)'
    BY <2>1, <2>2, <2>4, QueueTold DEF Told
  <2>5. ASSUME NEW k \in Listen!L \ deaf', NEW m \in Listen!L \ deaf', k < m,
          port'[k] = port'[m], port'[k] \in Ports
        PROVE  st'[k] = "closed" \/ Told(k)'
    BY <2>0, <2>2, <2>4, <2>5
  <2> QED
    BY <2>5 DEF Apart
<1>6. ASSUME NEW l \in Listen!L, Listen!start_one_port_forward(l) PROVE Apart'
  <2>1. /\ queues \in [Ports -> Listen!L \cup {Listen!Nobody}]
          /\ port \in [Listen!L -> Ports \cup {"none"}]
        /\ st \in [Listen!L -> {"none", "accept", "start", "login", "closed"}]
        /\ ui_receiver \in [Listen!L -> Seq({"Close", "Login"})]
    BY DEF ListenInv, ListenTyped
  <2>0. \A k, m \in Listen!L \ deaf : k < m /\ port[k] = port[m] /\ port[k] \in Ports =>
          st[k] = "closed" \/ Told(k)
    BY DEF ListenInv, Apart
  <2>2. PICK p \in Ports :
           /\ queues[p] = Listen!Nobody /\ queues' = [queues EXCEPT ![p] = l]
           /\ st[l] = "none" /\ port[l] = "none" /\ st' = [st EXCEPT ![l] = "accept"]
           /\ port' = [port EXCEPT ![l] = p]
           /\ \A k \in Listen!L : k < l => st[k] # "none"
           /\ ui_receiver' = ui_receiver /\ deaf' = deaf
    BY <1>6, ListenerStarts
  <2>3. ASSUME NEW k \in Listen!L PROVE Told(k)' <=> Told(k)
    BY <2>2 DEF Told
  <2>5. ASSUME NEW k \in Listen!L \ deaf', NEW m \in Listen!L \ deaf', k < m,
          port'[k] = port'[m], port'[k] \in Ports
        PROVE  st'[k] = "closed" \/ Told(k)'
    <3>0. k \in Listen!L /\ m \in Listen!L /\ k # m /\ k \notin deaf /\ m \notin deaf
      BY <2>2, <2>5 DEF Listen!L
    <3>1. CASE k = l
      <4>1. port[m] \in Ports
        BY <2>1, <2>2, <2>5, <3>0, <3>1
      <4>2. st[m] # "none"
        BY <3>0, <4>1 DEF ListenInv, InService, NoneIsNoPort
      <4>3. st[k] # "none"
        BY <2>5, <3>0, <4>2 DEF ListenInv, InService
      <4> QED
        BY <2>2, <3>1, <4>3
    <3>2. CASE m = l
      <4>1. port[k] = p /\ st'[k] = st[k] /\ st[k] # "none"
        BY <2>1, <2>2, <2>5, <3>0, <3>2
      <4>2. k # Listen!Nobody
        BY <3>0 DEF Listen!L, Listen!Nobody
      <4>3. st[k] = "closed" \/ queues[p] = k \/ Told(k)
        BY <3>0, <4>1 DEF ListenInv, InService
      <4> QED
        BY <2>2, <2>3, <3>0, <4>1, <4>2, <4>3
    <3>3. CASE k # l /\ m # l
      <4>1. port'[k] = port[k] /\ port'[m] = port[m] /\ st'[k] = st[k]
        BY <2>1, <2>2, <3>0, <3>3
      <4> QED
        BY <2>0, <2>3, <2>5, <3>0, <4>1
    <3> QED
      BY <3>1, <3>2, <3>3
  <2> QED
    BY <2>5 DEF Apart
<1>7. ASSUME NEW l \in Listen!L, Listen!accept(l) PROVE Apart'
  BY <1>7 DEF Listen!accept, ListenInv, Apart, Told, Listen!tasks
<1>8. ASSUME NEW l \in Listen!L, Listen!listen_recv(l) PROVE Apart'
  <2>1. /\ queues \in [Ports -> Listen!L \cup {Listen!Nobody}]
          /\ port \in [Listen!L -> Ports \cup {"none"}]
        /\ st \in [Listen!L -> {"none", "accept", "start", "login", "closed"}]
        /\ ui_receiver \in [Listen!L -> Seq({"Close", "Login"})]
    BY DEF ListenInv, ListenTyped
  <2>0. \A k, m \in Listen!L \ deaf : k < m /\ port[k] = port[m] /\ port[k] \in Ports =>
          st[k] = "closed" \/ Told(k)
    BY DEF ListenInv, Apart
  <2>2. /\ st' = (IF Head(ui_receiver[l]) = "Close" THEN [st EXCEPT ![l] = "closed"] ELSE st)
        /\ port' = port /\ deaf' = deaf
        /\ ui_receiver[l] # <<>> /\ ui_receiver' = [ui_receiver EXCEPT ![l] = Tail(@)]
    BY <1>8 DEF Listen!listen_recv
  <2>4. ASSUME NEW k \in Listen!L PROVE (st[k] = "closed" => st'[k] = "closed") /\ (Told(k) =>
          Told(k)' \/ st'[k] = "closed")
    <3>1. CASE k = l
      <4>1. CASE Head(ui_receiver[l]) = "Close"
        BY <2>1, <2>2, <3>1, <4>1
      <4>2. CASE Head(ui_receiver[l]) # "Close"
        BY <2>1, <2>2, <3>1, <4>2, QueueTold DEF Told
      <4> QED
        BY <4>1, <4>2
    <3>2. CASE k # l
      BY <2>1, <2>2, <3>2 DEF Told
    <3> QED
      BY <3>1, <3>2
  <2>5. ASSUME NEW k \in Listen!L \ deaf', NEW m \in Listen!L \ deaf', k < m,
          port'[k] = port'[m], port'[k] \in Ports
        PROVE  st'[k] = "closed" \/ Told(k)'
    BY <2>0, <2>2, <2>4, <2>5
  <2> QED
    BY <2>5 DEF Apart
<1>9. ASSUME NEW l \in Listen!L, Listen!handle_hash(l) PROVE Apart'
  BY <1>9 DEF Listen!handle_hash, ListenInv, Apart, Told, Listen!tasks
<1>10. ASSUME NEW l \in Listen!L, Listen!connect_failed(l) PROVE Apart'
  <2>1. /\ queues \in [Ports -> Listen!L \cup {Listen!Nobody}]
          /\ port \in [Listen!L -> Ports \cup {"none"}]
        /\ st \in [Listen!L -> {"none", "accept", "start", "login", "closed"}]
        /\ ui_receiver \in [Listen!L -> Seq({"Close", "Login"})]
    BY DEF ListenInv, ListenTyped
  <2>0. \A k, m \in Listen!L \ deaf : k < m /\ port[k] = port[m] /\ port[k] \in Ports =>
          st[k] = "closed" \/ Told(k)
    BY DEF ListenInv, Apart
  <2>2. /\ st[l] # "closed" /\ st' = [st EXCEPT ![l] = "accept"] /\ port' = port
          /\ deaf' = deaf /\ ui_receiver' = ui_receiver
    BY <1>10 DEF Listen!connect_failed, Listen!Busy
  <2>4. ASSUME NEW k \in Listen!L PROVE (st[k] = "closed" => st'[k] = "closed") /\ (Told(k) =>
          Told(k)')
    BY <2>1, <2>2 DEF Told
  <2>5. ASSUME NEW k \in Listen!L \ deaf', NEW m \in Listen!L \ deaf', k < m,
          port'[k] = port'[m], port'[k] \in Ports
        PROVE  st'[k] = "closed" \/ Told(k)'
    BY <2>0, <2>2, <2>4, <2>5
  <2> QED
    BY <2>5 DEF Apart
<1>11. ASSUME NEW l \in Listen!L, Listen!login_refused(l) PROVE Apart'
  BY <1>11 DEF Listen!login_refused, ListenInv, Apart, Told, Listen!tasks
<1>12. ASSUME NEW l \in Listen!L, Listen!login_accepted(l) PROVE Apart'
  BY <1>12 DEF Listen!login_accepted, ListenInv, Apart, Told, Listen!tasks
<1>13. ASSUME NEW l \in Listen!L, Listen!login_recv(l) PROVE Apart'
  <2>1. /\ queues \in [Ports -> Listen!L \cup {Listen!Nobody}]
          /\ port \in [Listen!L -> Ports \cup {"none"}]
        /\ st \in [Listen!L -> {"none", "accept", "start", "login", "closed"}]
        /\ ui_receiver \in [Listen!L -> Seq({"Close", "Login"})]
    BY DEF ListenInv, ListenTyped
  <2>0. \A k, m \in Listen!L \ deaf : k < m /\ port[k] = port[m] /\ port[k] \in Ports =>
          st[k] = "closed" \/ Told(k)
    BY DEF ListenInv, Apart
  <2>2. /\ st' = st /\ port' = port /\ deaf \subseteq deaf' /\ (Head(ui_receiver[l]) # "Login" =>
          deaf' = deaf \cup {l})
        /\ ui_receiver[l] # <<>> /\ ui_receiver' = [ui_receiver EXCEPT ![l] = Tail(@)]
    BY <1>13 DEF Listen!login_recv
  <2>4. ASSUME NEW k \in Listen!L, k \notin deaf', Told(k) PROVE Told(k)'
    <3>1. CASE k = l
      <4>1. Head(ui_receiver[l]) # "Close"
        BY <2>2, <2>4, <3>1
      <4> QED
        BY <2>1, <2>2, <2>4, <3>1, <4>1, QueueTold DEF Told
    <3>2. CASE k # l
      BY <2>1, <2>2, <2>4, <3>2 DEF Told
    <3> QED
      BY <3>1, <3>2
  <2>5. ASSUME NEW k \in Listen!L \ deaf', NEW m \in Listen!L \ deaf', k < m,
          port'[k] = port'[m], port'[k] \in Ports
        PROVE  st'[k] = "closed" \/ Told(k)'
    BY <2>0, <2>2, <2>4, <2>5
  <2> QED
    BY <2>5 DEF Apart
<1>14. CASE UNCHANGED Listen!vars
  BY <1>14 DEF Listen!vars, ListenInv, Apart, Told, Listen!tasks
<1> QED
  BY <1>1, <1>2, <1>3, <1>4, <1>5, <1>6, <1>7, <1>8, <1>9, <1>10, <1>11, <1>12, <1>13, <1>14
      DEF Listen!Next

(* Nobody listens to begin with.                                             *)
LEMMA ListenInitially ==
  ASSUME NoneIsNoPort, Listen!Init PROVE ListenInv
<1>a. request = [l \in Listen!L |-> Listen!None]
        /\ Listen!None \in [target : Ports \cup {"none"},
                challenge : Listen!L \cup {Listen!Nobody}]
  BY DEF Listen!Init, Listen!None
<1>b. ui_receiver = [l \in Listen!L |-> <<>>] /\ <<>> \in Seq({"Close", "Login"})
        /\ receiver = <<>>
  BY DEF Listen!Init
<1>c. queues = [p \in Ports |-> Listen!Nobody] /\ port = [l \in Listen!L |-> "none"]
        /\ st = [l \in Listen!L |-> "none"]
  BY DEF Listen!Init
<1>d. listen_config = {} /\ lc = [port_forward |-> "none", hash |-> Listen!Nobody]
        /\ crossed = FALSE
  BY DEF Listen!Init
<1>e. request \in [Listen!L -> [target : Ports \cup {"none"},
        challenge : Listen!L \cup {Listen!Nobody}]]
  BY <1>a
<1>f. lc \in [port_forward : Ports \cup {"none"}, hash : Listen!L \cup {Listen!Nobody}]
  BY <1>d
<1>g. receiver \in Seq(Msgs) /\ ui_receiver \in [Listen!L -> Seq({"Close", "Login"})]
  BY <1>b
<1>1. ListenTyped
  BY <1>c, <1>d, <1>e, <1>f, <1>g DEF ListenTyped
<1>2. Alternate
  BY DEF Listen!Init, Alternate, Alternates
<1>3. InService
  BY DEF Listen!Init, InService
<1>4. OwnLogin
  BY DEF Listen!Init, OwnLogin, Listen!RightTarget, Listen!Busy
<1>5. Apart
  BY <1>c DEF Apart, NoneIsNoPort
<1> QED
  BY <1>1, <1>2, <1>3, <1>4, <1>5 DEF ListenInv

(* Every step keeps the invariant.                                           *)
LEMMA ListenStep ==
  ASSUME ListenInv, [Listen!Next]_(Listen!vars) PROVE ListenInv'
<1>1. NoneIsNoPort
  BY PartsAssumption DEF NoneIsNoPort, Listen!PortForwardListenAssumption
<1> QED
  BY <1>1, ListenTypesKept, AlternateKept, ServedKept, OwnLoginKept, ApartKept DEF ListenInv

(* What the invariant says of the listeners.                                 *)
LEMMA ListenFollows ==
  ASSUME ListenInv PROVE Listen!RightTargetUnlessCrossed /\ Listen!OnePerPort
<1>1. ASSUME ~crossed PROVE Listen!RightTarget
        /\ \A l \in Listen!L : request[l].challenge \in {l, Listen!Nobody}
  <2>1. Listen!RightTarget /\ \A l \in Listen!L : request[l] = Listen!None \/ request[l] = Its(l)
    BY <1>1 DEF ListenInv, OwnLogin
  <2>2. Listen!None.challenge = Listen!Nobody /\ \A l \in Listen!L : Its(l).challenge = l
    BY DEF Listen!None, Its
  <2>3. ASSUME NEW l \in Listen!L PROVE request[l].challenge \in {l, Listen!Nobody}
    BY <2>1, <2>2
  <2> QED
    BY <2>1, <2>3
<1>2. Listen!OnePerPort
  BY DEF ListenInv, Apart, Told, Closes, Listen!OnePerPort
<1> QED
  BY <1>1, <1>2 DEF Listen!RightTargetUnlessCrossed

-----------------------------------------------------------------------------
(* The tunnel (PortForwardListen): what is accepted at a port is connected *)
(* to its target and no login answers the challenge of another, as long as *)
(* no two listeners are at their logins at once (start_one_port_forward,   *)
(* connect_and_login and the handler that they share); and of two          *)
(* listeners of a port the older one is closed or was told to, whatever    *)
(* the user removes and adds again, but for one that was at a login when   *)
(* it was told.                                                            *)
THEOREM ListenersStayApart == FairParts => []ListenersApart
<1>1. Begin => ListenInv
  BY PartsAssumption, ListenInitially DEF Begin, NoneIsNoPort,
    Listen!PortForwardListenAssumption
<1>2. ListenInv /\ [Step]_all_vars => ListenInv'
  <2> SUFFICES ASSUME ListenInv, [Step]_all_vars PROVE ListenInv'
    OBVIOUS
  <2>1. Listen!Next \/ UNCHANGED listen_vars
    BY DEF Step, all_vars
  <2>2. Listen!vars' = Listen!vars \/ Listen!Next
    BY <2>1 DEF Listen!vars, Listen!tasks, listen_vars
  <2> QED
    BY <2>2, ListenStep
<1>3. ListenInv => ListenersApart
  BY ListenFollows DEF ListenersApart
<1> QED
  BY <1>1, <1>2, <1>3, PTL DEF FairParts, Parts
=============================================================================
