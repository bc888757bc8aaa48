----------------------------- MODULE ConfigSync ------------------------------
(***************************************************************************)
(* The configuration of one user, in three places: each process of the     *)
(* user interface reads all the options from the server process over IPC,  *)
(* changes one and writes them all back (src/src/ipc.rs); the server       *)
(* process takes the configuration of the root service once, and sends it  *)
(* its own whenever it has changed since (sync_and_watch_config_dir in     *)
(* src/src/server.rs).  The service may be slow, die and come back.        *)
(***************************************************************************)
EXTENDS Naturals, Sequences, SequencesExt

CONSTANTS
  Procs,       (* processes of the user interface, each with its own option  *)
  MaxSets,     (* bound: options set                                         *)
  MaxFaults,   (* bound: time-outs and deaths of the service                 *)
  Tries        (* tries to connect before the sync is skipped                *)

(* Assumed of the constants by every module that gives them values. *)
ConfigSyncAssumption == MaxSets \in Nat /\ MaxFaults \in Nat /\ Tries \in Nat \ {0}

None == <<>>     (* SyncConfig(None); a configuration is sent as <<config>> *)
Old == "old"     (* what the service has, and the user's processes have not   *)


VARIABLES
  options,    (* a process: the options it has read, or <<>>                 *)
  set,        (* a process: what it has set its option to, last              *)
  config,     (* Config of the server process                                *)
  cfg0,       (* what it last had from the service, or sent to it            *)
  phase,      (* "try", "asked", "watch", "sent" or "skipped"                *)
  i,          (* tries                                                       *)
  open,       (* its connection to the service is                            *)
  up, down,   (* messages to the service, and from it                        *)
  root,       (* the service runs                                            *)
  root_config,
  sets, faults,
  raced,      (* history: an option changed between the read and the write   *)
  overtaken,  (* history: an option was set before the first answer came     *)
  lost        (* history: messages died with the service, or the question
                 for its configuration went unanswered                       *)

wire == <<open, up, down>>
user == <<options, set, sets, raced>>
vars == <<user, config, cfg0, phase, i, wire, root, root_config, faults, overtaken, lost>>

zero == [p \in Procs |-> "0"]

Init ==
  /\ options = [p \in Procs |-> <<>>] /\ set = [p \in Procs |-> "none"]
  /\ config = zero /\ cfg0 = zero /\ phase = "try" /\ i = 1
  /\ open = FALSE /\ up = <<>> /\ down = <<>>
  /\ root = TRUE /\ root_config \in {zero, [p \in Procs |-> Old]}
  /\ sets = 0 /\ faults = 0 /\ raced = FALSE /\ overtaken = FALSE /\ lost = FALSE

Fault == faults < MaxFaults /\ faults' = faults + 1

-----------------------------------------------------------------------------
(* set_option of a process.                                                 *)

get_options(p) ==
  /\ options[p] = <<>> /\ sets < MaxSets
  /\ options' = [options EXCEPT ![p] = <<config>>]
  /\ UNCHANGED <<set, sets, raced, config, cfg0, phase, i, wire, root, root_config, faults, overtaken, lost>>

set_options(p) ==
  /\ options[p] # <<>> /\ sets < MaxSets /\ sets' = sets + 1
  /\ options' = [options EXCEPT ![p] = <<>>]
  /\ set' = [set EXCEPT ![p] = ToString(sets + 1)]
  /\ config' = [options[p][1] EXCEPT ![p] = ToString(sets + 1)]
  /\ raced' = (raced \/ options[p][1] # config)
  /\ overtaken' = (overtaken \/ phase \in {"try", "asked"})
  /\ UNCHANGED <<cfg0, phase, i, wire, root, root_config, faults, lost>>

-----------------------------------------------------------------------------
(* sync_and_watch_config_dir.                                               *)

(* Mutant: the loop of tries goes on.                                       *)
connect_again ==
  /\ phase = "try" /\ root
  /\ open' = TRUE /\ up' = <<None>> /\ down' = <<>>
  /\ UNCHANGED <<user, config, cfg0, phase, i, root, root_config, faults, overtaken, lost>>

connect ==
  /\ phase = "try" /\ root
  /\ open' = TRUE /\ up' = <<None>> /\ down' = <<>> /\ phase' = "asked"
  /\ UNCHANGED <<user, config, cfg0, i, root, root_config, faults, overtaken, lost>>

connect_failed ==
  /\ phase = "try" /\ ~root
  /\ IF i = Tries THEN phase' = "skipped" /\ UNCHANGED i
                  ELSE i' = i + 1 /\ UNCHANGED phase
  /\ UNCHANGED <<user, config, cfg0, wire, root, root_config, faults, overtaken, lost>>

(* The answer; it is compared with what the configuration was at the start. *)
initial_sync ==
  /\ phase = "asked" /\ down # <<>> /\ down' = Tail(down)
  /\ phase' = "watch"
  /\ IF cfg0 # Head(down)[1]
     THEN cfg0' = Head(down)[1] /\ config' = Head(down)[1]
     ELSE UNCHANGED <<config, cfg0>>
  /\ UNCHANGED <<user, i, open, up, root, root_config, faults, overtaken, lost>>

(* No answer in a second, or the service died: on to the watch.             *)
initial_timeout ==
  /\ phase = "asked"
  /\ \/ ~open /\ UNCHANGED faults
     \/ open /\ down = <<>> /\ Fault
  /\ phase' = "watch" /\ lost' = TRUE
  /\ UNCHANGED <<user, config, cfg0, i, wire, root, root_config, overtaken>>

(* Mutant: taken for sent before it is.                                     *)
sync_to_root_assumed ==
  /\ phase = "watch" /\ config # cfg0 /\ cfg0' = config
  /\ IF open
     THEN up' = Append(up, <<config>>) /\ phase' = "sent" /\ UNCHANGED <<open, down>>
     ELSE open' = root /\ up' = <<>> /\ down' = <<>> /\ UNCHANGED phase
  /\ UNCHANGED <<user, config, i, root, root_config, faults, overtaken, lost>>

sync_to_root ==
  /\ phase = "watch" /\ config # cfg0
  /\ IF open
     THEN up' = Append(up, <<config>>) /\ cfg0' = config /\ phase' = "sent" /\ UNCHANGED <<open, down>>
     ELSE open' = root /\ up' = <<>> /\ down' = <<>> /\ UNCHANGED <<cfg0, phase>>
  /\ UNCHANGED <<user, config, i, root, root_config, faults, overtaken, lost>>

(* Mutant: an answer with a configuration is taken, as the first one is.    *)
sync_answered_taken ==
  /\ phase = "sent" /\ phase' = "watch"
  /\ \/ /\ down # <<>> /\ down' = Tail(down) /\ UNCHANGED faults
        /\ config' = IF Head(down) = None THEN config ELSE Head(down)[1]
     \/ ~open /\ UNCHANGED <<config, down, faults>>
     \/ down = <<>> /\ open /\ Fault /\ UNCHANGED <<config, down>>
  /\ UNCHANGED <<user, cfg0, i, open, up, root, root_config, overtaken, lost>>

(* Any answer, the end of the connection, or a second.                      *)
sync_answered ==
  /\ phase = "sent" /\ phase' = "watch"
  /\ \/ down # <<>> /\ down' = Tail(down) /\ UNCHANGED faults
     \/ ~open /\ UNCHANGED <<down, faults>>
     \/ down = <<>> /\ open /\ Fault /\ UNCHANGED down
  /\ UNCHANGED <<user, config, cfg0, i, open, up, root, root_config, overtaken, lost>>

-----------------------------------------------------------------------------
(* The service.                                                             *)

handle ==
  /\ root /\ up # <<>> /\ up' = Tail(up)
  /\ IF Head(up) = None
     THEN down' = Append(down, <<root_config>>) /\ UNCHANGED root_config
     ELSE root_config' = Head(up)[1] /\ down' = Append(down, None)
  /\ UNCHANGED <<user, config, cfg0, phase, i, open, root, faults, overtaken, lost>>

(* Its configuration is in a file.                                          *)
die ==
  /\ root /\ Fault /\ root' = FALSE
  /\ open' = FALSE /\ up' = <<>> /\ down' = <<>>
  /\ lost' = (lost \/ up # <<>>)
  /\ UNCHANGED <<user, config, cfg0, phase, i, root_config, overtaken>>

start ==
  /\ ~root /\ root' = TRUE
  /\ UNCHANGED <<user, config, cfg0, phase, i, wire, root_config, faults, overtaken, lost>>

Next ==
  \/ \E p \in Procs : get_options(p) \/ set_options(p)
  \/ connect \/ connect_failed \/ initial_sync \/ initial_timeout
  \/ sync_to_root \/ sync_answered \/ handle \/ die \/ start

Spec ==
  /\ Init /\ [][Next]_vars
  /\ WF_vars(connect \/ connect_failed) /\ WF_vars(initial_sync) /\ WF_vars(initial_timeout)
  /\ WF_vars(sync_to_root) /\ WF_vars(sync_answered) /\ WF_vars(handle) /\ WF_vars(start)

-----------------------------------------------------------------------------
(* A closed connection holds nothing; one that is open is to a service that *)
(* runs; once the service has been asked, it is tried no more.              *)
TypeOK ==
  /\ open => root
  /\ ~open => up = <<>> /\ down = <<>>
  /\ phase \in {"try", "skipped"} => ~open /\ cfg0 = zero

(* What a user sets stays set: no other process writes over it, nor does    *)
(* the service, unless they cross.                                          *)
Kept ==
  ~raced /\ ~overtaken =>
    \A p \in Procs : set[p] = "none" \/ config[p] = set[p]

(* What the service is known to have, it has, or it is on its way there.    *)
KnownUnlessLost ==
  phase \in {"watch", "sent"} /\ ~lost =>
    cfg0 = IF up = <<>> THEN root_config ELSE Last(up)[1]

(* In the end the service has the configuration of the user.                *)
Synced ==
  <>[](phase = "skipped" \/ lost \/ config = root_config)
=============================================================================
