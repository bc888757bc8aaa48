----------------------------- MODULE MCConnect ------------------------------
(***************************************************************************)
(* How connections come to be, for TLC: the handshake, the loop of the     *)
(* mediators, the registration with the rendezvous servers, the ways to    *)
(* connect to a peer, the rounds of a session that connects again, and the *)
(* listeners of a tunnel. The components share no state: a behaviour runs  *)
(* one of them, the others rest in a first state of theirs, and what holds *)
(* of each holds of them side by side.                                     *)
(***************************************************************************)
EXTENDS Handshake

CONSTANTS
  Hosts, MediatorChanges, MediatorErrors,                 (* Mediators      *)
  MaxId, MaxPackets, RegistrationFaults, Taken, MayFail,  (* Registers      *)
  Starters, ConnectFaults,                                (* Connects       *)
  MaxRounds, RoundFaults,                                 (* Rounds         *)
  Ports, MaxListeners, MaxAccepts, MaxLogins              (* Listen         *)

VARIABLE chosen     (* the component whose behaviour this is *)

VARIABLES config, ipc, SHOULD_EXIT, MANUAL_RESTARTED, pc, stopped, servers,
  task, connected, raced, errors
mediators_vars == <<config, ipc, SHOULD_EXIT, MANUAL_RESTARTED, pc, stopped,
  servers, task, connected, raced, errors>>

VARIABLES registration_id, registration_key_confirmed, host_key_confirmed,
  solving, registration_pc, registration_requests, responses,
  registration_registered, foreign, down, faults
registration_vars == <<registration_id, registration_key_confirmed,
  host_key_confirmed, solving, registration_pc, registration_requests,
  responses, registration_registered, foreign, down, faults>>

VARIABLES way, connect_pc, n, conn, winner, connect_requests, answers,
  connect_host, connect_faults
connect_vars == <<way, connect_pc, n, conn, winner, connect_requests,
  answers, connect_host, connect_faults>>

VARIABLES round, state, thread, sender, rounds_pc, closes, ui, boxes, timer,
  astray, rounds_faults
rounds_vars == <<round, state, thread, sender, rounds_pc, closes, ui, boxes,
  timer, astray, rounds_faults>>

VARIABLES listen_config, receiver, queues, port, st, ui_receiver, lc, asked,
  request, forwards, accepts, logins, crossed, deaf
listen_vars == <<listen_config, receiver, queues, port, st, ui_receiver, lc,
  asked, request, forwards, accepts, logins, crossed, deaf>>

Mediators == INSTANCE RendezvousLoop WITH MaxChanges <- MediatorChanges,
  MaxErrors <- MediatorErrors

Registers == INSTANCE Registration WITH MaxFaults <- RegistrationFaults,
  Nobody <- NoKey, id <- registration_id, key_confirmed <-
  registration_key_confirmed, pc <- registration_pc, requests <-
  registration_requests, registered <- registration_registered

Connects == INSTANCE PeerConnect WITH MaxFaults <- ConnectFaults, None <-
  NoKey, pc <- connect_pc, requests <- connect_requests, host <-
  connect_host, faults <- connect_faults

Rounds == INSTANCE Reconnect WITH MaxFaults <- RoundFaults, pc <- rounds_pc,
  faults <- rounds_faults

Listen == INSTANCE PortForwardListen WITH config <- listen_config

ASSUME PartsAssumption ==
  /\ Mediators!RendezvousLoopAssumption
  /\ Registers!RegistrationAssumption
  /\ Connects!PeerConnectAssumption
  /\ Rounds!ReconnectAssumption
  /\ Listen!PortForwardListenAssumption

(* The parts that are idle are in a first state of theirs.                 *)
Begin ==
  /\ chosen \in {"handshake", "mediators", "registration", "connect",
       "rounds", "listen"}
  /\ Init
  /\ chosen = "handshake" \/ (key_confirmed = FALSE)
  /\ Mediators!Init
  /\ Registers!Init
  /\ Connects!Init
  /\ chosen = "connect" \/ (way = [online |-> FALSE, relay |-> FALSE, direct |-> {}, force |-> FALSE])
  /\ Rounds!Init
  /\ Listen!Init

Step ==
  \/ chosen = "handshake" /\ Next /\ UNCHANGED <<chosen, mediators_vars,
       registration_vars, connect_vars, rounds_vars, listen_vars>>
  \/ chosen = "mediators" /\ Mediators!Next /\ UNCHANGED <<chosen, vars,
       registration_vars, connect_vars, rounds_vars, listen_vars>>
  \/ chosen = "registration" /\ Registers!Next /\ UNCHANGED <<chosen, vars,
       mediators_vars, connect_vars, rounds_vars, listen_vars>>
  \/ chosen = "connect" /\ Connects!Next /\ UNCHANGED <<chosen, vars,
       mediators_vars, registration_vars, rounds_vars, listen_vars>>
  \/ chosen = "rounds" /\ Rounds!Next /\ UNCHANGED <<chosen, vars,
       mediators_vars, registration_vars, connect_vars, listen_vars>>
  \/ chosen = "listen" /\ Listen!Next /\ UNCHANGED <<chosen, vars,
       mediators_vars, registration_vars, connect_vars, rounds_vars>>

all_vars == <<chosen, vars, mediators_vars, registration_vars, connect_vars,
  rounds_vars, listen_vars>>

Parts == Begin /\ [][Step]_all_vars

(* The fairness of each part, while it is the one that runs.               *)
fair_handshake ==
  /\ WF_vars(chosen = "handshake" /\ register_pk)
  /\ SF_vars(chosen = "handshake" /\ serve_pk)
  /\ SF_vars(chosen = "handshake" /\ RegisterPkResponse_OK)
  /\ WF_vars(chosen = "handshake" /\ Connect)

fair_mediators ==
  /\ WF_mediators_vars(chosen = "mediators" /\ (Mediators!restart_exit \/
           Mediators!restart_manual))
  /\ WF_mediators_vars(chosen = "mediators" /\ Mediators!StartAll)
  /\ \A h \in Hosts : WF_mediators_vars(chosen = "mediators" /\
           Mediators!tick(h))

fair_registration ==
  /\ \A h \in Hosts :
       /\ WF_registration_vars(chosen = "registration" /\
           Registers!Mediator(h))
       /\ WF_registration_vars(chosen = "registration" /\
           Registers!ServePeer(h))
       /\ WF_registration_vars(chosen = "registration" /\
           Registers!ServePk(h))
       /\ \A t \in Registers!Answers : SF_registration_vars(chosen =
           "registration" /\ Registers!Receiving(h, t))

fair_connect ==
  /\ \A s \in Starters : WF_connect_vars(chosen = "connect" /\
           Connects!Starter(s))
  /\ \A c \in Connects!Conns : WF_connect_vars(chosen = "connect" /\
           Connects!Host(c))

fair_rounds ==
  /\ \A r \in Rounds!Rounds :
       /\ WF_rounds_vars(chosen = "rounds" /\ Rounds!set_sender(r))
       /\ WF_rounds_vars(chosen = "rounds" /\ Rounds!set_connected(r))
       /\ WF_rounds_vars(chosen = "rounds" /\ Rounds!Close(r))
       /\ WF_rounds_vars(chosen = "rounds" /\ Rounds!set_disconnected(r))
  /\ WF_rounds_vars(chosen = "rounds" /\ Rounds!showMsgBox)
  /\ WF_rounds_vars(chosen = "rounds" /\ Rounds!timer_reconnect)

fair_listen ==
  /\ WF_listen_vars(chosen = "listen" /\ Listen!send_to_all)
  /\ \A p \in Ports : WF_listen_vars(chosen = "listen" /\
           Listen!close_port_forward(p))
  /\ \A l \in Listen!L :
       /\ WF_listen_vars(chosen = "listen" /\
           Listen!start_one_port_forward(l))
       /\ WF_listen_vars(chosen = "listen" /\ Listen!handle_hash(l))
       /\ WF_listen_vars(chosen = "listen" /\ Listen!listen_recv(l))
       /\ WF_listen_vars(chosen = "listen" /\ Listen!connect_failed(l))

FairParts ==
  /\ Parts
  /\ fair_handshake
  /\ fair_mediators
  /\ fair_registration
  /\ fair_connect
  /\ fair_rounds
  /\ fair_listen

(* The types of all parts.                                                 *)
TypesOK ==
  /\ TypeOK
  /\ chosen = "mediators" => Mediators!TypeOK
  /\ chosen = "registration" => Registers!TypeOK
  /\ chosen = "connect" => Connects!TypeOK
  /\ chosen = "rounds" => Rounds!TypeOK
  /\ chosen = "listen" => Listen!TypeOK

(* PortForwardListen: what is accepted at a port is connected to its       *)
(* target and no login answers the challenge of another, as long as no two *)
(* listeners are at their logins at once; there are never two listeners of *)
(* a port. MCSession has the same among PartiesAgree, with more            *)
(* connections accepted than the liveness here allows.                     *)
ListenersApart ==
  /\ chosen = "listen" => Listen!RightTargetUnlessCrossed
  /\ chosen = "listen" => Listen!OnePerPort

(* Handshake, Registration, PeerConnect, RendezvousLoop: keys come to be   *)
(* confirmed and streams encrypted, servers that answer to know the id, an *)
(* attempt to one connection or a message, and the mediators run for the   *)
(* configuration as it is unless it changed after it was read.             *)
ComesToPeer ==
  /\ Encrypted
  /\ (chosen = "registration" => Registers!Registered)
  /\ (chosen = "connect" => Connects!OneConnection)
  /\ (chosen = "connect" => Connects!ConnectedOrTold)
  /\ (chosen = "mediators" => Mediators!OneExitsAllExit)
  /\ (chosen = "mediators" => Mediators!ConfigInForceUnlessRaced)

(* Reconnect, PortForwardListen: the round before is told to exit, a       *)
(* session is connected, asks its user or is closed in the end and then    *)
(* for good; a port that was removed is listened to no more.               *)
EndsForGood ==
  /\ [](chosen = "rounds" => Rounds!PreviousExits)
  /\ (chosen = "rounds" => Rounds!NeverStuck)
  /\ (chosen = "rounds" => Rounds!ClosedForGood)
  /\ (chosen = "listen" => Listen!RemovedStops)
=============================================================================
