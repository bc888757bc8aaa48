-------------------------- MODULE PortForwardListen --------------------------
(***************************************************************************)
(* The forwarded ports of a session (src/src/ui_session_interface.rs,      *)
(* src/src/port_forward.rs): one task per port listens, and connects and   *)
(* logs in to the peer for each connection it accepts, one at a time.  The *)
(* tasks share the session's LoginConfigHandler, which holds the target    *)
(* and the challenge that the login request is made from; the session      *)
(* passes what the user does on to their queues.                           *)
(***************************************************************************)
EXTENDS Naturals, Sequences, FiniteSets

CONSTANTS
  Ports,          (* local ports, each for the target of the same name       *)
  MaxListeners,   (* bound: tasks ever started                               *)
  MaxAccepts,     (* bound: local connections                                *)
  MaxLogins       (* bound: passwords the user types                         *)

(* Assumed of the constants by every module that gives them values. A port *)
(* is a number: "none" is no port.                                         *)
PortForwardListenAssumption ==
  /\ MaxListeners \in Nat /\ MaxAccepts \in Nat /\ MaxLogins \in Nat
  /\ "none" \notin Ports

L == 1..MaxListeners
Nobody == 0

VARIABLES
  config,       (* PeerConfig.port_forwards                                  *)
  receiver,     (* what the user did, to the session                         *)
  queues,       (* the session's queues: port -> listener, or Nobody         *)
  port,         (* a listener's port, once it is started                     *)
  st,           (* "none", "accept", "start", "login", "closed"              *)
  ui_receiver,  (* its queue                                                 *)
  lc,           (* LoginConfigHandler: port_forward, and whose hash          *)
  asked,        (* the password dialog is shown                              *)
  request,      (* a listener's login request: target and challenge          *)
  forwards,     (* pairs of ports and targets that were connected            *)
  accepts, logins,
  crossed,      (* history: two listeners were at their logins               *)
  deaf          (* history: a listener missed its Close                      *)

tasks == <<port, st, ui_receiver>>
vars == <<config, receiver, queues, tasks, lc, asked, request, forwards, accepts, logins, crossed, deaf>>

None == [target |-> "none", challenge |-> Nobody]

Init ==
  /\ config = {} /\ receiver = <<>> /\ queues = [p \in Ports |-> Nobody]
  /\ port = [l \in L |-> "none"] /\ st = [l \in L |-> "none"]
  /\ ui_receiver = [l \in L |-> <<>>]
  /\ lc = [port_forward |-> "none", hash |-> Nobody] /\ asked = FALSE
  /\ request = [l \in L |-> None] /\ forwards = {} /\ accepts = 0 /\ logins = 0
  /\ crossed = FALSE /\ deaf = {}

-----------------------------------------------------------------------------
(* The user.                                                                *)

add_port_forward(p) ==
  /\ p \notin config /\ config' = config \cup {p}
  /\ Cardinality({l \in L : st[l] = "none"})
       > Cardinality({i \in DOMAIN receiver : receiver[i][1] = "AddPortForward"})
  /\ receiver' = Append(receiver, <<"AddPortForward", p>>)
  /\ UNCHANGED <<queues, tasks, lc, asked, request, forwards, accepts, logins, crossed, deaf>>

remove_port_forward(p) ==
  /\ p \in config /\ config' = config \ {p}
  /\ receiver' = Append(receiver, <<"RemovePortForward", p>>)
  /\ UNCHANGED <<queues, tasks, lc, asked, request, forwards, accepts, logins, crossed, deaf>>

login ==
  /\ asked /\ asked' = FALSE /\ receiver' = Append(receiver, <<"Login">>)
  /\ logins < MaxLogins /\ logins' = logins + 1
  /\ UNCHANGED <<config, queues, tasks, lc, request, forwards, accepts, crossed, deaf>>

-----------------------------------------------------------------------------
(* The session's io_loop.                                                   *)

recv == receiver # <<>> /\ receiver' = Tail(receiver)

start_one_port_forward(l) ==
  \E p \in Ports :
    /\ recv /\ Head(receiver) = <<"AddPortForward", p>>
    /\ st[l] = "none" /\ \A k \in L : k < l => st[k] # "none"
    /\ st' = [st EXCEPT ![l] = "accept"] /\ port' = [port EXCEPT ![l] = p]
    /\ queues' = [queues EXCEPT ![p] = l]
    /\ UNCHANGED <<config, ui_receiver, lc, asked, request, forwards, accepts, logins, crossed, deaf>>

(* Mutant: the queue is dropped, and nothing is said.                       *)
close_port_forward_silently(p) ==
  /\ recv /\ Head(receiver) = <<"RemovePortForward", p>>
  /\ queues' = [queues EXCEPT ![p] = Nobody]
  /\ UNCHANGED <<config, tasks, lc, asked, request, forwards, accepts, logins, crossed, deaf>>

close_port_forward(p) ==
  /\ recv /\ Head(receiver) = <<"RemovePortForward", p>>
  /\ queues' = [queues EXCEPT ![p] = Nobody]
  /\ ui_receiver' = [l \in L |->
       IF l = queues[p] THEN Append(ui_receiver[l], "Close") ELSE ui_receiver[l]]
  /\ UNCHANGED <<config, port, st, lc, asked, request, forwards, accepts, logins, crossed, deaf>>

send_to_all ==
  /\ recv /\ Head(receiver) = <<"Login">>
  /\ ui_receiver' = [l \in L |->
       IF \E p \in Ports : queues[p] = l THEN Append(ui_receiver[l], "Login") ELSE ui_receiver[l]]
  /\ UNCHANGED <<config, queues, port, st, lc, asked, request, forwards, accepts, logins, crossed, deaf>>

-----------------------------------------------------------------------------
(* A listener.                                                              *)

Busy(l) == st[l] \in {"start", "login"}

(* Mutant: the target is left as the last listener set it, if it did.       *)
accept_same_target(l) ==
  /\ st[l] = "accept" /\ accepts < MaxAccepts /\ accepts' = accepts + 1
  /\ st' = [st EXCEPT ![l] = "start"]
  /\ lc' = IF lc.port_forward = "none" THEN [lc EXCEPT !.port_forward = port[l]] ELSE lc
  /\ crossed' = (crossed \/ \E k \in L \ {l} : Busy(k))
  /\ UNCHANGED <<config, receiver, queues, port, ui_receiver, asked, request, forwards, logins, deaf>>

accept(l) ==
  /\ st[l] = "accept" /\ accepts < MaxAccepts /\ accepts' = accepts + 1
  /\ st' = [st EXCEPT ![l] = "start"]
  /\ lc' = [lc EXCEPT !.port_forward = port[l]]
  /\ crossed' = (crossed \/ \E k \in L \ {l} : Busy(k))
  /\ UNCHANGED <<config, receiver, queues, port, ui_receiver, asked, request, forwards, logins, deaf>>

listen_recv(l) ==
  /\ st[l] = "accept" /\ ui_receiver[l] # <<>>
  /\ ui_receiver' = [ui_receiver EXCEPT ![l] = Tail(@)]
  /\ st' = IF Head(ui_receiver[l]) = "Close" THEN [st EXCEPT ![l] = "closed"] ELSE st
  /\ UNCHANGED <<config, receiver, queues, port, lc, asked, request, forwards, accepts, logins, crossed, deaf>>

(* Client::start, then the Hash of the peer: a login with a saved password. *)
handle_hash(l) ==
  /\ st[l] = "start" /\ st' = [st EXCEPT ![l] = "login"]
  /\ lc' = [lc EXCEPT !.hash = l]
  /\ request' = [request EXCEPT ![l] = [target |-> lc.port_forward, challenge |-> l]]
  /\ UNCHANGED <<config, receiver, queues, port, ui_receiver, asked, forwards, accepts, logins, crossed, deaf>>

(* Mutant: its request stays.                                               *)
connect_failed_kept(l) ==
  /\ Busy(l) /\ st' = [st EXCEPT ![l] = "accept"]
  /\ UNCHANGED <<config, receiver, queues, port, ui_receiver, lc, asked, request, forwards, accepts, logins, crossed, deaf>>

(* Client::start fails, the local application leaves, the peer closes, or   *)
(* it takes too long.                                                       *)
connect_failed(l) ==
  /\ Busy(l) /\ st' = [st EXCEPT ![l] = "accept"] /\ request' = [request EXCEPT ![l] = None]
  /\ UNCHANGED <<config, receiver, queues, port, ui_receiver, lc, asked, forwards, accepts, logins, crossed, deaf>>

login_refused(l) ==
  /\ st[l] = "login" /\ request[l] # None
  /\ request' = [request EXCEPT ![l] = None] /\ asked' = TRUE
  /\ UNCHANGED <<config, receiver, queues, tasks, lc, forwards, accepts, logins, crossed, deaf>>

(* The peer takes a response to its own challenge.                          *)
login_accepted(l) ==
  /\ st[l] = "login" /\ request[l].challenge = l
  /\ st' = [st EXCEPT ![l] = "accept"] /\ request' = [request EXCEPT ![l] = None]
  /\ forwards' = forwards \cup {<<port[l], request[l].target>>}
  /\ UNCHANGED <<config, receiver, queues, port, ui_receiver, lc, asked, accepts, logins, crossed, deaf>>

(* Everything but a Login is dropped.                                       *)
login_recv(l) ==
  /\ st[l] = "login" /\ ui_receiver[l] # <<>>
  /\ ui_receiver' = [ui_receiver EXCEPT ![l] = Tail(@)]
  /\ IF Head(ui_receiver[l]) = "Login"
     THEN /\ request' = [request EXCEPT ![l] = [target |-> lc.port_forward, challenge |-> lc.hash]]
          /\ UNCHANGED deaf
     ELSE deaf' = deaf \cup {l} /\ UNCHANGED request
  /\ UNCHANGED <<config, receiver, queues, port, st, lc, asked, forwards, accepts, logins, crossed>>

Next ==
  \/ \E p \in Ports : add_port_forward(p) \/ remove_port_forward(p) \/ close_port_forward(p)
  \/ login \/ send_to_all
  \/ \E l \in L :
       \/ start_one_port_forward(l) \/ accept(l) \/ listen_recv(l) \/ handle_hash(l)
       \/ connect_failed(l) \/ login_refused(l) \/ login_accepted(l) \/ login_recv(l)

(* A login ends: the loop of connect_and_login gives up in the end.         *)
Spec ==
  /\ Init /\ [][Next]_vars
  /\ WF_vars(send_to_all) /\ \A p \in Ports : WF_vars(close_port_forward(p))
  /\ \A l \in L :
       /\ WF_vars(start_one_port_forward(l)) /\ WF_vars(handle_hash(l))
       /\ WF_vars(listen_recv(l)) /\ WF_vars(connect_failed(l))

-----------------------------------------------------------------------------
(* A queue of the session belongs to a listener of its port, and a login    *)
(* request to a login.                                                      *)
TypeOK ==
  /\ \A p \in Ports : queues[p] # Nobody => port[queues[p]] = p
  /\ \A l \in L : st[l] # "login" => request[l] = None

(* "rustdesk --port-forward remote-id listen-port remote-host remote-port": *)
(* what is accepted at a port is connected to the target of that port.      *)
RightTarget == \A f \in forwards : f[1] = f[2]

(* The same, and no login answers the challenge of another, as long as no   *)
(* two listeners are at their logins at once.                               *)
RightTargetUnlessCrossed ==
  ~crossed => RightTarget /\ \A l \in L : request[l].challenge \in {l, Nobody}

(* A port that was removed is listened to no more, but by a listener that   *)
(* was at a login when it was told.                                         *)
RemovedStops ==
  \A p \in Ports :
    p \notin config ~> (p \in config \/ \A l \in L \ deaf : port[l] = p => st[l] = "closed")

(* There are never two listeners of a port, with the same exception, once   *)
(* the older one has read its queue.                                        *)
OnePerPort ==
  \A k, l \in L \ deaf :
    k < l /\ port[k] = port[l] /\ port[k] \in Ports =>
      st[k] = "closed" \/ \E i \in DOMAIN ui_receiver[k] : ui_receiver[k][i] = "Close"
=============================================================================
