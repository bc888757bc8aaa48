---------------------------- MODULE Registration ----------------------------
(***************************************************************************)
(* How a host makes its id known to its rendezvous servers: start_udp,     *)
(* handle_resp, register_pk, register_peer and handle_uuid_mismatch of     *)
(* src/src/rendezvous_mediator.rs.  One mediator per server runs; all of   *)
(* them share the id, the two levels of confirmation of the configuration  *)
(* and SOLVING_PK_MISMATCH, and each is a task of its own.                 *)
(*                                                                         *)
(* The servers are modelled from the answers that the mediators handle.    *)
(* Messages are UDP packets: they get lost and overtake one another.       *)
(***************************************************************************)
EXTENDS Naturals, FiniteSets

CONSTANTS
  Hosts,        (* the rendezvous servers, one mediator for each            *)
  MaxId,        (* bound: ids are 0 .. MaxId; update_id draws a new one     *)
  MaxPackets,   (* bound: packets of a mediator under way when it sends     *)
  MaxFaults,    (* bound: packets lost, servers that forget or stop         *)
  Taken,        (* the servers where another host has the first id          *)
  MayFail,      (* the servers that may stop to answer                      *)
  Nobody        (* SOLVING_PK_MISMATCH is empty; no id is registered        *)

(* Assumed of the constants by every module that gives them values. *)
RegistrationAssumption ==
  /\ Hosts # {} /\ Nobody \notin Hosts /\ Taken \cup MayFail \subseteq Hosts
  /\ {MaxId, MaxPackets, MaxFaults} \subseteq Nat

VARIABLES
  id,             (* Config::get_id                                         *)
  key_confirmed, host_key_confirmed, solving,
  pc,             (* what the mediator of a server is in the middle of      *)
  requests, responses,    (* the packets under way                          *)
  registered,     (* the id that a server has for this host, if any ...     *)
  foreign,        (* ... and those that other hosts have there              *)
  down,           (* the servers that do not answer any more                *)
  faults

config == <<id, key_confirmed, host_key_confirmed>>
net == <<requests, responses>>
env == <<registered, foreign, down, faults>>
vars == <<config, solving, pc, net, env>>

Ids == 0 .. MaxId

Init ==
  /\ id = 0 /\ key_confirmed = FALSE
  /\ host_key_confirmed = [h \in Hosts |-> FALSE]
  /\ solving = Nobody
  /\ pc = [h \in Hosts |-> "select"]
  /\ requests = {} /\ responses = {}
  /\ registered = [h \in Hosts |-> Nobody]
  /\ foreign = [h \in Hosts |-> IF h \in Taken THEN {0} ELSE {}]
  /\ down = {}
  /\ faults = 0

Goto(h, from, to) == pc[h] = from /\ pc' = [pc EXCEPT ![h] = to]
Send(h, t) ==
  requests' = IF h \in down THEN requests
              ELSE requests \cup {[host |-> h, type |-> t, id |-> id]}

-----------------------------------------------------------------------------
(* The mediator of h.                                                       *)

(* Its timer, as nothing came in time or the last answer is old, calls      *)
(* register_peer, which sends nothing while another mediator solves a       *)
(* mismatch.                                                                *)
Blocked(h) == solving \notin {Nobody, h}

register_peer(h) ==
  /\ pc[h] = "select"
  /\ ~Blocked(h)
  /\ Cardinality({m \in requests \cup responses : m.host = h}) < MaxPackets
  /\ Send(h, IF key_confirmed /\ host_key_confirmed[h] THEN "peer" ELSE "pk")
  /\ UNCHANGED <<config, solving, pc, responses, env>>

register_pk(h) ==
  /\ Goto(h, "pk", "select")
  /\ Send(h, "pk")
  /\ UNCHANGED <<config, solving, responses, env>>

(* handle_resp *)
Receive(m) ==
  /\ m \in responses /\ pc[m.host] = "select"
  /\ responses' = responses \ {m}

(* Mutant: the server's request for the key is not heard.                   *)
RegisterPeerResponse_deaf(m) ==
  /\ m.type = "peer" /\ Receive(m)
  /\ UNCHANGED <<pc, config, solving, requests, env>>

RegisterPeerResponse(m) ==
  /\ m.type = "peer" /\ Receive(m)
  /\ pc' = [pc EXCEPT ![m.host] = IF m.request_pk THEN "pk" ELSE "select"]
  /\ UNCHANGED <<config, solving, requests, env>>

(* OK: the key is confirmed, then the server's.                             *)
RegisterPkResponse_OK(m) ==
  /\ m.type = "ok" /\ Receive(m)
  /\ Goto(m.host, "select", "confirm")
  /\ key_confirmed' = TRUE
  /\ UNCHANGED <<id, host_key_confirmed, solving, requests, env>>

(* Mutant: the mediator that has changed the id goes on blocking.           *)
set_host_key_unsolved(h) ==
  /\ Goto(h, "confirm", "select")
  /\ host_key_confirmed' = [host_key_confirmed EXCEPT ![h] = TRUE]
  /\ UNCHANGED <<id, key_confirmed, solving, net, env>>

set_host_key_confirmed(h) ==
  /\ Goto(h, "confirm", "select")
  /\ host_key_confirmed' = [host_key_confirmed EXCEPT ![h] = TRUE]
  /\ solving' = Nobody
  /\ UNCHANGED <<id, key_confirmed, net, env>>

(* set_key_confirmed(false) forgets the confirmations of all servers,       *)
(* unless there is none to forget.                                          *)
unconfirm ==
  /\ key_confirmed' = FALSE
  /\ host_key_confirmed' = IF key_confirmed THEN [h \in Hosts |-> FALSE]
                                            ELSE host_key_confirmed

(* Mutant: the id is kept.                                                 *)
UUID_MISMATCH_kept(m) ==
  /\ m.type = "mismatch" /\ Receive(m)
  /\ solving' = m.host /\ pc' = [pc EXCEPT ![m.host] = "pk"]
  /\ UNCHANGED <<config, requests, env>>

(* handle_uuid_mismatch: the id is another host's.                          *)
UUID_MISMATCH(m) ==
  /\ m.type = "mismatch" /\ Receive(m)
  /\ IF Blocked(m.host)
     THEN UNCHANGED <<pc, config, solving>>
     ELSE /\ unconfirm
          /\ id < MaxId /\ id' = id + 1
          /\ solving' = m.host
          /\ pc' = [pc EXCEPT ![m.host] = "pk"]
  /\ UNCHANGED <<requests, env>>

Mediator(h) ==
  register_peer(h) \/ register_pk(h) \/ set_host_key_confirmed(h)
handle_resp(m) ==
  RegisterPeerResponse(m) \/ RegisterPkResponse_OK(m) \/ UUID_MISMATCH(m)

-----------------------------------------------------------------------------
(* External: the servers and the network.                                   *)

Respond(m, r) == requests' = requests \ {m} /\ responses' = responses \cup {r}

serve_peer(m) ==
  /\ m \in requests /\ m.type = "peer" /\ m.host \notin down
  /\ Respond(m, [host |-> m.host, type |-> "peer",
                 request_pk |-> m.id # registered[m.host]])
  /\ UNCHANGED <<config, solving, pc, env>>

(* Mutant: an id is given to two hosts.                                    *)
serve_pk_shared(m) ==
  /\ m \in requests /\ m.type = "pk" /\ m.host \notin down
  /\ Respond(m, [host |-> m.host, type |-> "ok"])
  /\ registered' = [registered EXCEPT ![m.host] = m.id]
  /\ UNCHANGED <<config, solving, pc, foreign, down, faults>>

serve_pk(m) ==
  /\ m \in requests /\ m.type = "pk" /\ m.host \notin down
  /\ IF m.id \in foreign[m.host]
     THEN /\ Respond(m, [host |-> m.host, type |-> "mismatch"])
          /\ UNCHANGED registered
     ELSE /\ Respond(m, [host |-> m.host, type |-> "ok"])
          /\ registered' = [registered EXCEPT ![m.host] = m.id]
  /\ UNCHANGED <<config, solving, pc, foreign, down, faults>>

Fault == faults < MaxFaults /\ faults' = faults + 1

lose ==
  /\ Fault
  /\ \/ \E m \in requests : requests' = requests \ {m} /\ UNCHANGED responses
     \/ \E m \in responses : responses' = responses \ {m} /\ UNCHANGED requests
  /\ UNCHANGED <<config, solving, pc, registered, foreign, down>>

(* A server loses what it knew of this host.                                *)
forget(h) ==
  /\ Fault
  /\ registered[h] # Nobody
  /\ registered' = [registered EXCEPT ![h] = Nobody]
  /\ UNCHANGED <<config, solving, pc, net, foreign, down>>

fail(h) ==
  /\ Fault
  /\ h \in MayFail \ down /\ down' = down \cup {h}
  /\ UNCHANGED <<config, solving, pc, net, registered, foreign>>

ServePeer(h) == \E m \in requests : m.host = h /\ serve_peer(m)
ServePk(h) == \E m \in requests : m.host = h /\ serve_pk(m)
Receiving(h, t) == \E m \in responses : m.host = h /\ m.type = t /\ handle_resp(m)
Answers == {"peer", "ok", "mismatch"}

Next ==
  \/ \E h \in Hosts : 
       Mediator(h) \/ forget(h) \/ fail(h) \/ ServePeer(h) \/ ServePk(h)
       \/ \E t \in Answers : Receiving(h, t)
  \/ lose

(* A mediator that has a packet to read and a timer that has run out takes  *)
(* either at random (tokio's select!).                                      *)
Spec ==
  /\ Init /\ [][Next]_vars
  /\ \A h \in Hosts :
       /\ WF_vars(Mediator(h)) /\ WF_vars(ServePeer(h)) /\ WF_vars(ServePk(h))
       /\ \A t \in Answers : SF_vars(Receiving(h, t))

-----------------------------------------------------------------------------
(* Requests and registrations are about the present id or an earlier one,   *)
(* and a server has an id for one host only.                                *)
TypeOK ==
  /\ id \in Ids
  /\ {key_confirmed} \subseteq BOOLEAN /\ host_key_confirmed \in [Hosts -> BOOLEAN]
  /\ solving \in Hosts \cup {Nobody}
  /\ \A h \in Hosts : pc[h] \in {"select", "pk", "confirm"}
  /\ \A m \in requests : m.id <= id
  /\ \A h \in Hosts : registered[h] \in (0 .. id \ foreign[h]) \cup {Nobody}

(* Every server that answers ends up knowing the present id, whatever was   *)
(* lost, overtaken or forgotten: unless a server that does not answer any   *)
(* more was the last to have the id changed, and holds the others back.     *)
HeldBack == solving \in down
Registered ==
  <>[](HeldBack \/ \A h \in Hosts \ down : id = registered[h])

=============================================================================
