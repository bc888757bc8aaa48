--------------------------- MODULE HeartbeatSync -----------------------------
(***************************************************************************)
(* The loop that keeps the API server of a self-hosted installation up to  *)
(* date (src/src/hbbs_http/sync.rs): every 3 s it looks at the             *)
(* configuration, uploads the system information if the server does not    *)
(* have it, and sends a heartbeat, whose answer may disconnect connections *)
(* and bring a strategy, options to be set.  The connections hear of it by *)
(* a broadcast channel (src/src/server/connection.rs).                     *)
(* The server is external: it is modelled by the answers that the loop     *)
(* understands.  The hash of the information and its version are left out: *)
(* heartbeat_url is empty for the public server, the only one they are for.*)
(***************************************************************************)
EXTENDS Naturals, FiniteSets

CONSTANTS
  Conns,          (* connections                                             *)
  MaxChanges,     (* bound: changes of url, id, user or stop-service         *)
  MaxFaults,      (* bound: requests that fail, and restarts                 *)
  MaxStrategies,  (* bound: strategies set at a server, and information that
                     a server forgets                                        *)
  Public          (* the url of the public server: no heartbeat              *)

(* Assumed of the constants by every module that gives them values. *)
HeartbeatAssumption ==
  /\ IsFiniteSet(Conns)
  /\ MaxChanges \in Nat /\ MaxFaults \in Nat /\ MaxStrategies \in Nat
  /\ Public \notin {1, 2}

Urls == {1, 2, Public}
Servers == {1, 2}
None == [id |-> 0, username |-> 0]

VARIABLES
  url, id, username, stopped,  (* the configuration                           *)
  info_uploaded,  (* uploaded, url, id, username                             *)
  last_uploaded,  (* less than UPLOAD_SYSINFO_TIMEOUT ago                    *)
  last_sent,      (* less than TIME_HEARTBEAT ago                            *)
  pc,             (* the loop: "tick", "sysinfo", "beat", "strategy"         *)
  request,        (* what this round has read: url, id, username, conns and
                     modified_at                                             *)
  strategy_timestamp, options, (* LocalConfig, and the strategy in the options *)
  conn,           (* a connection: "none", "loop", "forward" (it is a port
                     forwarding by now), "closed"                            *)
  inbox,          (* connections with their id in hbbs_rx                    *)
  info,           (* what a server knows                                     *)
  strategy,       (* the strategy of a server: 0, or when it was set         *)
  disconnect,     (* connections that a server is to disconnect              *)
  changes, faults, strategies,
  missed,         (* history: disconnects that came between two receivers    *)
  torn            (* history: a restart between the timestamp and the options *)

config == <<url, id, username, stopped>>
loop == <<info_uploaded, last_uploaded, last_sent, pc, request>>
stored == <<strategy_timestamp, options>>
connections == <<conn, inbox>>
server == <<info, strategy, disconnect>>
bounds == <<changes, faults, strategies>>
history == <<missed, torn>>
vars == <<config, loop, stored, connections, server, bounds, history>>

NotUploaded == [uploaded |-> FALSE, url |-> 0, id |-> 0, username |-> 0]
NoRequest == [url |-> 0, id |-> 0, username |-> 0, conns |-> {}, modified_at |-> 0]

Init ==
  /\ url \in {1, Public} /\ id = 1 /\ username = 1 /\ stopped = FALSE
  /\ info_uploaded = NotUploaded /\ last_uploaded = FALSE /\ last_sent = FALSE
  /\ pc = "tick" /\ request = NoRequest
  /\ strategy_timestamp = 0 /\ options = 0
  /\ conn = [c \in Conns |-> "none"] /\ inbox = {}
  /\ info = [s \in Servers |-> None] /\ strategy = [s \in Servers |-> 0] /\ disconnect = {}
  /\ changes = 0 /\ faults = 0 /\ strategies = 0
  /\ missed = {} /\ torn = FALSE

alive_conns == {c \in Conns : conn[c] \in {"loop", "forward"}}

-----------------------------------------------------------------------------
(* The loop *)

(* Mutant: heartbeats are for connections only. *)
ToHeartbeat_connected(conns) ==
  IF conns = {}
  THEN pc' = "tick" /\ UNCHANGED last_sent
  ELSE pc' = "beat" /\ last_sent' = TRUE

(* conns is that of the round; with none, a heartbeat is due every 15 s. *)
ToHeartbeat(conns) ==
  IF conns = {} /\ last_sent
  THEN pc' = "tick" /\ UNCHANGED last_sent
  ELSE pc' = "beat" /\ last_sent' = TRUE

(* what was uploaded is not of this server, or not of this id *)
outdated == info_uploaded.uploaded /\ (url # info_uploaded.url \/ id # info_uploaded.id)

(* interval.tick() *)
tick ==
  /\ pc = "tick" /\ url # Public /\ ~stopped
  /\ LET uploaded == info_uploaded.uploaded /\ ~outdated
         need_upload == (~uploaded \/ info_uploaded.username # username) /\ ~last_uploaded
     IN /\ info_uploaded' = [info_uploaded EXCEPT !.uploaded = uploaded]
        /\ request' = [url |-> url, id |-> id, username |-> username, conns |-> alive_conns,
                       modified_at |-> strategy_timestamp]
        /\ IF need_upload THEN pc' = "sysinfo" /\ UNCHANGED last_sent ELSE ToHeartbeat(alive_conns)
  /\ UNCHANGED <<config, last_uploaded, stored, connections, server, bounds, history>>

(* Mutant: what is uploaded by now counts, not what was sent. *)
SYSINFO_UPDATED_now ==
  /\ info' = [info EXCEPT ![request.url] = [id |-> request.id, username |-> request.username]]
  /\ info_uploaded' = [uploaded |-> TRUE, url |-> url, id |-> id, username |-> username]
  /\ last_uploaded' = FALSE

(* the server has it *)
SYSINFO_UPDATED ==
  /\ info' = [info EXCEPT ![request.url] = [id |-> request.id, username |-> request.username]]
  /\ info_uploaded' = [uploaded |-> TRUE, url |-> request.url, id |-> request.id,
                       username |-> request.username]
  /\ last_uploaded' = FALSE

(* POST sysinfo *)
sysinfo_answered ==
  /\ pc = "sysinfo"
  /\ \/ SYSINFO_UPDATED /\ UNCHANGED faults
     \/ /\ faults < MaxFaults /\ faults' = faults + 1
        (* ID_NOT_FOUND: at the next heartbeat again; else in 120 s *)
        /\ last_uploaded' \in BOOLEAN
        /\ UNCHANGED <<info, info_uploaded>>
  /\ ToHeartbeat(request.conns)
  /\ UNCHANGED <<config, request, stored, connections, strategy, disconnect, changes, strategies, history>>

(* Mutant: only a connection that is not a port forwarding listens. *)
Heard_loop(conns) == inbox' = inbox \cup {c \in conns : conn[c] = "loop"}

(* SENDER.send: to whoever has a receiver *)
Heard(conns) == inbox' = inbox \cup (conns \cap alive_conns)

(* "sysinfo" in the answer *)
forcely_update ==
  info_uploaded' = IF info[request.url] = None THEN [info_uploaded EXCEPT !.uploaded = FALSE] ELSE info_uploaded

(* Mutant: the timestamp alone. *)
modified_at_only(at) ==
  /\ strategy_timestamp' = at
  /\ pc' = "tick"

(* Mutant: the options are set again with every answer. *)
modified_at_always(at) ==
  /\ strategy_timestamp' = at
  /\ pc' = "strategy"

(* "modified_at" is stored first; the strategy comes with it. *)
modified_at(at) ==
  /\ strategy_timestamp' = at
  /\ pc' = IF at # request.modified_at THEN "strategy" ELSE "tick"

(* POST heartbeat: the server disconnects once, asks for information that it
   does not have, and sends a strategy that is not the one of the timestamp *)
heartbeat_answered ==
  /\ pc = "beat"
  /\ \/ /\ Heard(disconnect \cap request.conns)
        /\ disconnect' = disconnect \ request.conns
        /\ forcely_update
        /\ IF strategy[request.url] = 0
           THEN pc' = "tick" /\ UNCHANGED strategy_timestamp
           ELSE modified_at(strategy[request.url])
        /\ UNCHANGED faults
     \/ /\ faults < MaxFaults /\ faults' = faults + 1
        /\ pc' = "tick"
        /\ UNCHANGED <<inbox, disconnect, info_uploaded, strategy_timestamp>>
  /\ UNCHANGED <<config, last_uploaded, last_sent, request, options, conn, info, strategy, changes, strategies,
                 history>>

(* handle_config_options *)
handle_config_options ==
  /\ pc = "strategy"
  /\ options' = strategy_timestamp
  /\ pc' = "tick"
  /\ UNCHANGED <<config, info_uploaded, last_uploaded, last_sent, request, strategy_timestamp, connections,
                 server, bounds, history>>

UPLOAD_SYSINFO_TIMEOUT ==
  /\ last_uploaded /\ last_uploaded' = FALSE
  /\ UNCHANGED <<config, info_uploaded, last_sent, pc, request, stored, connections, server, bounds, history>>

TIME_HEARTBEAT ==
  /\ last_sent /\ last_sent' = FALSE
  /\ UNCHANGED <<config, info_uploaded, last_uploaded, pc, request, stored, connections, server, bounds,
                 history>>

-----------------------------------------------------------------------------
(* The connections *)

connected(c) ==
  /\ conn[c] = "none" /\ conn' = [conn EXCEPT ![c] = "loop"]
  /\ UNCHANGED <<config, loop, stored, inbox, server, bounds, history>>

(* hbbs_rx.recv() *)
closed_by_console(c) ==
  /\ c \in inbox /\ inbox' = inbox \ {c}
  /\ conn' = [conn EXCEPT ![c] = "closed"]
  /\ UNCHANGED <<config, loop, stored, server, bounds, history>>

(* try_port_forward_loop: it has a receiver of its own, of what comes from now
   on; the one of the loop before is not read any more *)
try_port_forward_loop(c) ==
  /\ conn[c] = "loop" /\ conn' = [conn EXCEPT ![c] = "forward"]
  /\ inbox' = inbox \ {c}
  /\ missed' = IF c \in inbox THEN missed \cup {c} ELSE missed
  /\ UNCHANGED <<config, loop, stored, server, bounds, torn>>

-----------------------------------------------------------------------------
(* The world *)

changed ==
  /\ changes < MaxChanges /\ changes' = changes + 1
  /\ \/ url' \in Urls \ {url} /\ UNCHANGED <<id, username, stopped>>
     \/ id' = 3 - id /\ UNCHANGED <<url, username, stopped>>
     \/ username' = 3 - username /\ UNCHANGED <<url, id, stopped>>
     \/ stopped' = ~stopped /\ UNCHANGED <<url, id, username>>
  /\ UNCHANGED <<loop, stored, connections, server, faults, strategies, history>>

console(c) ==
  /\ conn[c] \in {"loop", "forward"} /\ c \notin disconnect
  /\ strategies < MaxStrategies /\ strategies' = strategies + 1
  /\ disconnect' = disconnect \cup {c}
  /\ UNCHANGED <<config, loop, stored, connections, info, strategy, changes, faults, history>>

(* A server has a new strategy, or has lost what it knew. *)
server_changes(s) ==
  /\ strategies < MaxStrategies /\ strategies' = strategies + 1
  /\ \/ strategy' = [strategy EXCEPT ![s] = strategies + 1] /\ UNCHANGED info
     \/ info' = [info EXCEPT ![s] = None] /\ UNCHANGED strategy
  /\ UNCHANGED <<config, loop, stored, connections, disconnect, changes, faults, history>>

(* The process starts again. *)
restarted ==
  /\ faults < MaxFaults /\ faults' = faults + 1
  /\ info_uploaded' = NotUploaded /\ last_uploaded' = FALSE /\ last_sent' = FALSE
  /\ pc' = "tick" /\ request' = NoRequest
  /\ conn' = [c \in Conns |-> IF conn[c] = "none" THEN "none" ELSE "closed"]
  /\ inbox' = {} /\ disconnect' = {}
  /\ torn' = (torn \/ pc = "strategy")
  /\ UNCHANGED <<config, stored, info, strategy, changes, strategies, missed>>

-----------------------------------------------------------------------------
Next ==
  \/ tick \/ sysinfo_answered \/ heartbeat_answered \/ handle_config_options
  \/ UPLOAD_SYSINFO_TIMEOUT \/ TIME_HEARTBEAT
  \/ \E c \in Conns : connected(c) \/ closed_by_console(c) \/ try_port_forward_loop(c) \/ console(c)
  \/ changed \/ restarted
  \/ \E s \in Servers : server_changes(s)

(* The interval ticks, every request has an answer or fails, time passes, and
   a connection reads its channel. *)
Fairness ==
  /\ WF_vars(tick) /\ WF_vars(sysinfo_answered) /\ WF_vars(heartbeat_answered)
  /\ WF_vars(handle_config_options)
  /\ WF_vars(UPLOAD_SYSINFO_TIMEOUT) /\ WF_vars(TIME_HEARTBEAT)
  /\ \A c \in Conns : WF_vars(closed_by_console(c))

Spec == Init /\ [][Next]_vars /\ Fairness

-----------------------------------------------------------------------------
TypeOK ==
  /\ url \in Urls /\ id \in {1, 2} /\ username \in {1, 2} /\ stopped \in BOOLEAN
  /\ info_uploaded \in [uploaded : BOOLEAN, url : Servers \cup {0}, id : 0 .. 2, username : 0 .. 2]
  /\ last_uploaded \in BOOLEAN /\ last_sent \in BOOLEAN
  /\ pc \in {"tick", "sysinfo", "beat", "strategy"}
  /\ request \in [url : Servers \cup {0}, id : 0 .. 2, username : 0 .. 2, conns : SUBSET Conns,
                  modified_at : 0 .. MaxStrategies]
  /\ pc # "tick" => request.url \in Servers
  /\ pc = "strategy" => strategy_timestamp # request.modified_at
  /\ strategy_timestamp \in 0 .. MaxStrategies /\ options \in 0 .. MaxStrategies
  /\ conn \in [Conns -> {"none", "loop", "forward", "closed"}]
  /\ inbox \subseteq alive_conns /\ disconnect \subseteq Conns
  /\ info \in [Servers -> {None} \cup [id : {1, 2}, username : {1, 2}]]
  /\ strategy \in [Servers -> 0 .. MaxStrategies]

Running == url # Public /\ ~stopped

(* When the configuration stands still the server knows this device, whatever
   failed before and whatever the server has forgotten. *)
InfoFollows == <>[](Running => info[url] = [id |-> id, username |-> username])

(* When a strategy stands still it is in the options; unless the process was
   ended when it had stored the timestamp and not the options: the server
   then takes it to be there. *)
StrategyFollows == <>[](Running /\ strategy[url] # 0 /\ ~torn => options = strategy[url])

(* What the options hold is the strategy that the timestamp names. *)
TimestampIsTrue == pc # "strategy" /\ ~torn => options = strategy_timestamp

(* A connection that the server is to disconnect ends, if the loop runs on and
   unless the message came between the two receivers of a port forwarding. *)
DisconnectEnds ==
  \A c \in Conns : c \in disconnect ~> conn[c] = "closed" \/ c \in missed \/ ~Running

=============================================================================
