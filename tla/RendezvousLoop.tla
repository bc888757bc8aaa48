--------------------------- MODULE RendezvousLoop ---------------------------
(***************************************************************************)
(* RendezvousMediator::start_all of src/src/rendezvous_mediator.rs: the    *)
(* loop that keeps one mediator (start) running for every rendezvous       *)
(* server of the configuration, unless the service is stopped.  A change   *)
(* of the configuration comes in through the ipc (src/src/ipc.rs), whose   *)
(* thread raises two flags that the loop clears in its next round.         *)
(*                                                                         *)
(* The configured servers are a version number here.  What a mediator does *)
(* with its server is modelled in Registration.                            *)
(***************************************************************************)
EXTENDS Naturals

CONSTANTS
  Hosts,        (* the mediators of one round                               *)
  MaxChanges,   (* bound: changes of the configuration                      *)
  MaxErrors     (* bound: mediators that end with an error                  *)

(* Assumed of the constants by every module that gives them values. *)
RendezvousLoopAssumption ==
  Hosts # {} /\ MaxChanges \in Nat /\ MaxErrors \in Nat

VARIABLES
  config,       (* the version of the servers, and the option stop-service  *)
  ipc,          (* the thread of the ipc: "idle", "changed", "exit"         *)
  SHOULD_EXIT, MANUAL_RESTARTED,
  pc,           (* where start_all is                                       *)
  stopped,      (* what it has read of stop-service                         *)
  servers,      (* what it has read of the servers                          *)
  task,         (* the mediators: "none", "running", "ended"                *)
  connected,    (* there are connections of the service                     *)
  raced,        (* history: a configuration changed, and its restart was
                  cleared, between the reading and the clearing             *)
  errors

flags == <<SHOULD_EXIT, MANUAL_RESTARTED>>
loop == <<pc, stopped, servers>>
vars == <<config, ipc, flags, loop, task, connected, raced, errors>>

Init ==
  /\ config = [servers |-> 0, stop |-> FALSE] /\ ipc = "idle"
  /\ SHOULD_EXIT = FALSE /\ MANUAL_RESTARTED = FALSE
  /\ pc = "head" /\ stopped = FALSE /\ servers = 0
  /\ task = [h \in Hosts |-> "none"] /\ connected = FALSE
  /\ raced = FALSE /\ errors = 0

-----------------------------------------------------------------------------
(* The ipc: CheckIfRestart compares the options when the handler of the     *)
(* change is left, and calls restart, which raises one flag and the other.  *)

set_options ==
  /\ ipc = "idle" /\ config.servers < MaxChanges
  /\ \E stop \in BOOLEAN : config' = [servers |-> config.servers + 1, stop |-> stop]
  /\ ipc' = "changed"
  /\ raced' = (pc \in {"servers", "clear"})
  /\ UNCHANGED <<flags, loop, task, connected, errors>>

(* Mutant: a restart does not end the mediators that run.                  *)
restart_exit_unset ==
  /\ ipc = "changed" /\ ipc' = "exit"
  /\ UNCHANGED <<config, flags, loop, task, connected, raced, errors>>

restart_exit ==
  /\ ipc = "changed" /\ ipc' = "exit"
  /\ SHOULD_EXIT' = TRUE
  /\ UNCHANGED <<config, MANUAL_RESTARTED, loop, task, connected, raced, errors>>

restart_manual ==
  /\ ipc = "exit" /\ ipc' = "idle"
  /\ MANUAL_RESTARTED' = TRUE
  /\ UNCHANGED <<config, SHOULD_EXIT, loop, task, connected, raced, errors>>

-----------------------------------------------------------------------------
(* start_all.                                                               *)

Goto(from, to) == pc = from /\ pc' = to

read_stop_service ==
  /\ Goto("head", IF config.stop THEN "close" ELSE "servers")
  /\ stopped' = config.stop
  /\ UNCHANGED <<config, ipc, flags, servers, task, connected, raced, errors>>

get_rendezvous_servers ==
  /\ Goto("servers", "clear")
  /\ servers' = config.servers
  /\ UNCHANGED <<config, ipc, flags, stopped, task, connected, raced, errors>>

(* The flags are cleared, and a mediator is spawned for each server.        *)
clear_flags == SHOULD_EXIT' = FALSE /\ MANUAL_RESTARTED' = FALSE

spawn ==
  /\ Goto("clear", "join")
  /\ clear_flags
  /\ task' = [h \in Hosts |-> "running"]
  /\ UNCHANGED <<config, ipc, stopped, servers, connected, raced, errors>>

(* Mutant: the next round begins when one of them has ended.               *)
join_any ==
  /\ Goto("join", "sleep")
  /\ \E h \in Hosts : task[h] = "ended"
  /\ UNCHANGED <<config, ipc, flags, stopped, servers, task, connected, raced, errors>>

join_all ==
  /\ Goto("join", "sleep")
  /\ \A h \in Hosts : task[h] = "ended"
  /\ task' = [h \in Hosts |-> "none"]
  /\ UNCHANGED <<config, ipc, flags, stopped, servers, connected, raced, errors>>

close_connections ==
  /\ Goto("close", "sleep")
  /\ connected' = FALSE
  /\ UNCHANGED <<config, ipc, flags, stopped, servers, task, raced, errors>>

(* Some seconds, or almost none after a restart.                            *)
sleep ==
  /\ Goto("sleep", "head")
  /\ UNCHANGED <<config, ipc, flags, stopped, servers, task, connected, raced, errors>>

StartAll ==
  \/ read_stop_service \/ get_rendezvous_servers \/ spawn \/ join_all
  \/ close_connections \/ sleep

-----------------------------------------------------------------------------
(* A mediator, start_udp or start_tcp.                                      *)

(* Mutant: the end of a mediator concerns no other.                         *)
end_alone(h) == task' = [task EXCEPT ![h] = "ended"] /\ UNCHANGED SHOULD_EXIT

(* Once one exits, the others also exit.                                    *)
end(h) == task' = [task EXCEPT ![h] = "ended"] /\ SHOULD_EXIT' = TRUE

(* Its timer sees the flag;                                                 *)
tick(h) ==
  /\ task[h] = "running" /\ SHOULD_EXIT
  /\ end(h)
  /\ UNCHANGED <<config, ipc, MANUAL_RESTARTED, loop, connected, raced, errors>>

(* the name cannot be resolved, or the socket is broken;                    *)
fail(h) ==
  /\ task[h] = "running" /\ errors < MaxErrors /\ errors' = errors + 1
  /\ end(h)
  /\ UNCHANGED <<config, ipc, MANUAL_RESTARTED, loop, connected, raced>>

(* a peer connects through it.                                              *)
accept(h) ==
  /\ task[h] = "running" /\ ~connected
  /\ connected' = TRUE
  /\ UNCHANGED <<config, ipc, flags, loop, task, raced, errors>>

Mediator == \E h \in Hosts : tick(h) \/ fail(h) \/ accept(h)

Next == set_options \/ restart_exit \/ restart_manual \/ StartAll \/ Mediator

Spec ==
  /\ Init /\ [][Next]_vars
  /\ WF_vars(restart_exit \/ restart_manual) /\ WF_vars(StartAll)
  /\ \A h \in Hosts : WF_vars(tick(h))

-----------------------------------------------------------------------------
(* Mediators run only while start_all waits for them, with the servers and  *)
(* the option that it has read.                                             *)
TypeOK ==
  /\ config \in [servers : 0 .. MaxChanges, stop : BOOLEAN]
  /\ ipc \in {"idle", "changed", "exit"}
  /\ {SHOULD_EXIT, MANUAL_RESTARTED, connected, raced} \subseteq BOOLEAN
  /\ servers <= config.servers
  /\ \A h \in Hosts : task[h] # "none" => pc = "join"
  /\ pc = "join" => ~stopped

(* "SHOULD_EXIT here is to ensure once one exits, the others also exit."    *)
OneExitsAllExit ==
  \A h, g \in Hosts : task[h] = "ended" ~> task[g] # "running"

(* A stopped service ends up without mediators and without connections, one *)
(* that is not runs for the configured servers: whatever the moment of the  *)
(* change.                                                                  *)
InForce ==
  IF config.stop THEN (\A h \in Hosts : task[h] # "running") /\ ~connected
                 ELSE pc = "join" => servers = config.servers
ConfigInForce == <>[]InForce

(* ... unless it changed after start_all has read it, before it cleared the *)
(* flags.                                                                   *)
ConfigInForceUnlessRaced == <>[](InForce \/ raced)

=============================================================================
