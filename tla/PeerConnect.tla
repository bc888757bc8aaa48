---------------------------- MODULE PeerConnect -----------------------------
(***************************************************************************)
(* How a client gets a stream to a host that it knows by its id: _start,   *)
(* _start_inner, connect, request_relay and create_relay of                *)
(* src/src/client.rs, and what the host does with its requests             *)
(* (handle_punch_hole, handle_request_relay, create_relay of               *)
(* src/src/rendezvous_mediator.rs, accept_connection and                   *)
(* create_relay_connection of src/src/server.rs).  With a UDP socket the   *)
(* client makes two attempts at once, and takes the first that succeeds.   *)
(*                                                                         *)
(* External: the rendezvous server, which forwards requests and answers,   *)
(* and the relay server, which joins the two streams that come with one    *)
(* uuid.  Duplicates of requests are modelled in PeerRequests.             *)
(***************************************************************************)
EXTENDS Naturals

CONSTANTS
  Starters,     (* the concurrent calls of _start_inner                     *)
  MaxFaults,    (* bound: messages lost, and answers later than a timeout   *)
  None

(* Assumed of the constants by every module that gives them values. *)
PeerConnectAssumption ==
  Starters # {} /\ None \notin Starters /\ MaxFaults \in Nat

(* What a request asks for: a hole to be punched, or a relay.  It is sent   *)
(* up to three times; n tells the uuids and the sockets apart.              *)
Attempts == 3
Conns == [s : Starters, kind : {"punch", "relay"}, n : 1 .. Attempts]

VARIABLES
  way,          (* the world: the host is online; it must use a relay; the
                  starters that can reach it; the user wants a relay        *)
  pc, n, conn,  (* of each starter; conn is the stream that it tries        *)
  winner,       (* the starter whose stream the client uses                 *)
  requests, answers,
  host,         (* the host's side of each stream                           *)
  faults

client == <<pc, n, conn, winner>>
vars == <<way, client, requests, answers, host, faults>>

Init ==
  /\ way \in [online : BOOLEAN, relay : BOOLEAN, direct : SUBSET Starters, force : BOOLEAN]
  /\ pc = [s \in Starters |-> "punch"] /\ n = [s \in Starters |-> 0]
  /\ conn = [s \in Starters |-> None] /\ winner = None
  /\ requests = {} /\ answers = {}
  /\ host = [c \in Conns |-> "none"]
  /\ faults = 0

-----------------------------------------------------------------------------
(* The client.                                                              *)

KindOf(s) == IF pc[s] = "punch" THEN "punch" ELSE "relay"
Goto(s, to) == pc' = [pc EXCEPT ![s] = to]

(* What s waits for: the socket of a punch stays the same, each request for *)
(* a relay has its own.                                                     *)
Awaited(s) ==
  {c \in requests \cup answers :
     c.s = s /\ c.kind = KindOf(s) /\ (c.kind = "relay" => c.n = n[s])}

(* Its timeout runs out when nothing can come any more, or too early.       *)
Timeout(s) ==
  \/ n[s] = 0 /\ UNCHANGED faults
  \/ way.online /\ Awaited(s) = {} /\ UNCHANGED faults
  \/ way.online /\ Awaited(s) # {} /\ faults < MaxFaults /\ faults' = faults + 1

request(s) ==
  /\ pc[s] \in {"punch", "request"} /\ n[s] < Attempts
  /\ Timeout(s)
  /\ n' = [n EXCEPT ![s] = @ + 1]
  /\ requests' = requests \cup {[s |-> s, kind |-> KindOf(s), n |-> n[s] + 1]}
  /\ UNCHANGED <<way, pc, conn, winner, answers, host>>

give_up(s) ==
  /\ pc[s] \in {"punch", "request"} /\ n[s] = Attempts
  /\ Timeout(s)
  /\ Goto(s, "failed")
  /\ UNCHANGED <<way, n, conn, winner, requests, answers, host>>

(* The server says that the host is offline.                                *)
refused(s) ==
  /\ pc[s] \in {"punch", "request"} /\ n[s] > 0 /\ ~way.online
  /\ Goto(s, "failed")
  /\ UNCHANGED <<way, n, conn, winner, requests, answers, host, faults>>

(* PunchHoleResponse, or RelayResponse: here the host comes to the relay.   *)
receive(s, c) ==
  /\ pc[s] \in {"punch", "request"} /\ c \in answers \cap Awaited(s)
  /\ conn' = [conn EXCEPT ![s] = c]
  /\ Goto(s, IF c.kind = "punch" /\ ~way.relay THEN "direct" ELSE "join")
  /\ answers' = answers \ {c}
  /\ UNCHANGED <<way, n, winner, requests, host, faults>>

(* select_ok: the other futures are dropped.                                *)
succeed(s) ==
  /\ winner' = s
  /\ pc' = [t \in Starters |-> IF t = s THEN "ok" ELSE "dropped"]

(* connect: TCP, UDP and IPv6 at once; a relay when none gets through, or   *)
(* the user wants one.                                                      *)
Reaches(s) == s \in way.direct /\ host[conn[s]] = "waiting"

connect(s) ==
  /\ pc[s] = "direct" /\ Reaches(s)
  /\ host' = [host EXCEPT ![conn[s]] = "up"]
  /\ IF way.force THEN Goto(s, "request") /\ n' = [n EXCEPT ![s] = 0] /\ UNCHANGED winner
                  ELSE succeed(s) /\ UNCHANGED n
  /\ UNCHANGED <<way, conn, requests, answers, faults>>

(* Mutant: the direct connection is the only one tried.                     *)
connect_fails_for_good(s) ==
  /\ pc[s] = "direct" /\ ~Reaches(s)
  /\ Goto(s, "failed")
  /\ UNCHANGED <<way, n, conn, winner, requests, answers, host, faults>>

connect_fails(s) ==
  /\ pc[s] = "direct" /\ ~Reaches(s)
  /\ Goto(s, "request") /\ n' = [n EXCEPT ![s] = 0]
  /\ UNCHANGED <<way, conn, winner, requests, answers, host, faults>>

(* create_relay: joined with the stream of the host that has this uuid.     *)
join(s) ==
  /\ pc[s] = "join" /\ host[conn[s]] = "waiting"
  /\ host' = [host EXCEPT ![conn[s]] = "up"]
  /\ succeed(s)
  /\ UNCHANGED <<way, n, conn, requests, answers, faults>>

Starter(s) ==
  /\ winner = None
  /\ \/ request(s) \/ give_up(s) \/ refused(s)
     \/ \E c \in Conns : receive(s, c)
     \/ connect(s) \/ connect_fails(s) \/ join(s)

-----------------------------------------------------------------------------
(* Mutant: the host does not wait for the client it has answered.           *)
handle_request_unready(c) ==
  /\ way.online
  /\ c \in requests /\ requests' = requests \ {c}
  /\ answers' = answers \cup {c}
  /\ UNCHANGED <<way, client, host, faults>>

(* The host: it tells the client, and waits for it, at its own port or at   *)
(* the relay.                                                               *)
handle_request(c) ==
  /\ way.online
  /\ c \in requests /\ requests' = requests \ {c}
  /\ answers' = answers \cup {c}
  /\ host' = [host EXCEPT ![c] = "waiting"]
  /\ UNCHANGED <<way, client, faults>>

(* Mutant: it waits as long as it takes.                                    *)
wait_ends_never(c) == FALSE /\ UNCHANGED vars

(* CONNECT_TIMEOUT, longer than what the client takes: nobody comes.        *)
wait_ends(c) ==
  /\ host[c] = "waiting" /\ host' = [host EXCEPT ![c] = "ended"]
  /\ \/ winner # None
     \/ pc[c.s] = "failed"
     \/ conn[c.s] # c /\ c \notin Awaited(c.s)
     \/ conn[c.s] = c /\ pc[c.s] \notin {"direct", "join"}
  /\ UNCHANGED <<way, client, requests, answers, faults>>

(* The client has dropped its side.                                         *)
closed(c) ==
  /\ host[c] = "up" /\ conn[c.s] # c
  /\ host' = [host EXCEPT ![c] = "ended"]
  /\ UNCHANGED <<way, client, requests, answers, faults>>

closed_failed(c) ==
  /\ host[c] = "up" /\ conn[c.s] = c /\ pc[c.s] \in {"failed", "dropped"}
  /\ host' = [host EXCEPT ![c] = "ended"]
  /\ UNCHANGED <<way, client, requests, answers, faults>>

Host(c) == handle_request(c) \/ wait_ends(c) \/ closed(c) \/ closed_failed(c)

-----------------------------------------------------------------------------
lose ==
  /\ faults < MaxFaults /\ faults' = faults + 1
  /\ \/ \E c \in requests : requests' = requests \ {c} /\ UNCHANGED answers
     \/ \E c \in answers : answers' = answers \ {c} /\ UNCHANGED requests
  /\ UNCHANGED <<way, client, host>>

Next == \/ \E s \in Starters : Starter(s)
        \/ \E c \in Conns : Host(c)
        \/ lose

(* Every task runs on, and what is not lost arrives.                        *)
Spec ==
  /\ Init /\ [][Next]_vars
  /\ \A s \in Starters : WF_vars(Starter(s))
  /\ \A c \in Conns : WF_vars(Host(c))

-----------------------------------------------------------------------------
(* The client never uses a stream whose other side the host has given up.   *)
TypeOK ==
  /\ pc \in [Starters -> {"punch", "direct", "request", "join", "ok", "failed", "dropped"}]
  /\ n \in [Starters -> 0 .. Attempts]
  /\ \A s \in Starters : conn[s] # None => conn[s].s = s
  /\ winner # None => pc[winner] = "ok" /\ host[conn[winner]] = "up"
  /\ \A s \in Starters : pc[s] = "join" => host[conn[s]] = "waiting"

(* The host ends up with one connection for a client that got through, and  *)
(* with none otherwise, whatever was tried at once and given up.            *)
OneConnection ==
  <>[]({c \in Conns : host[c] \in {"up", "waiting"}}
         = IF winner = None THEN {} ELSE {conn[winner]})

(* The attempts, and the relay, make up for two losses or delays on the way *)
(* to a host that is online; otherwise the client is told.                  *)
ConnectedOrTold ==
  <>(IF way.online THEN winner # None ELSE \A s \in Starters : pc[s] = "failed")

=============================================================================
