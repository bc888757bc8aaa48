---------------------------- MODULE PrivacyMode -----------------------------
(***************************************************************************)
(* Privacy mode blanks the screen of the controlled side for its user      *)
(* (src/src/privacy_mode.rs, src/src/server/connection.rs).  One           *)
(* connection has it at a time, and the others are asked to leave: at      *)
(* their login, or by the video service when it sees the owner change.     *)
(* Turning it on may take seconds; then a thread does it, under the lock   *)
(* that every question about the mode takes, and the connection gives up   *)
(* waiting after 7.5 s.                                                    *)
(***************************************************************************)
EXTENDS Naturals, Sequences

CONSTANTS
  Conns,        (* remote control connections, each used once               *)
  Async,        (* is_async_privacy_mode                                    *)
  MaxToggles,   (* bound: what the clients ask for                          *)
  MaxFaults     (* bound: failures, time-outs and restarts of the video     *)

INVALID == "invalid"   (* INVALID_PRIVACY_MODE_CONN_ID                      *)
Free == "free"
None == "none"

(* Assumed of the constants by every module that gives them values. *)
PrivacyModeAssumption ==
  /\ {INVALID, Free, None} \cap Conns = {}
  /\ Async \in BOOLEAN /\ MaxToggles \in Nat /\ MaxFaults \in Nat

VARIABLES
  conn_id,      (* PrivacyMode.conn_id: the connection that has it          *)
  lock,         (* the job that holds PRIVACY_MODE                          *)
  st,           (* a connection: "off", "login", "on", "closed"             *)
  task,         (* its task: "idle", "waiting" or "late" for its job        *)
  job,          (* its job: "none", "start", "working", "ok", "error"       *)
  down,         (* messages to its client                                   *)
  shown,        (* its client shows privacy mode                            *)
  ci,           (* CapturerInfo.privacy_mode_id of the running capture      *)
  toggles, faults,
  ousted,       (* history: a connection lost the mode to another's error   *)
  missed        (* history: the capture began anew, or a login completed,
                   under the mode of another, or the mode went off and on
                   again before the capture saw it off                      *)

turn == <<conn_id, lock, task, job>>
vars == <<turn, st, down, shown, ci, toggles, faults, ousted, missed>>

Init ==
  /\ conn_id = INVALID /\ lock = Free
  /\ st = [c \in Conns |-> "off"] /\ task = [c \in Conns |-> "idle"]
  /\ job = [c \in Conns |-> "none"]
  /\ down = [c \in Conns |-> <<>>] /\ shown = [c \in Conns |-> FALSE]
  /\ ci = None /\ toggles = 0 /\ faults = 0 /\ ousted = {} /\ missed = FALSE

Fault == faults < MaxFaults /\ faults' = faults + 1

send(c, m) == down' = [down EXCEPT ![c] = Append(@, m)]

is_in_privacy_mode == conn_id # INVALID

-----------------------------------------------------------------------------
(* Mutant: not asked at the login.                                          *)
check_privacy_mode_on_never == TRUE

check_privacy_mode_on == ~is_in_privacy_mode

login_request(c) ==
  /\ st[c] = "off" /\ lock = Free /\ check_privacy_mode_on
  /\ st' = [st EXCEPT ![c] = "login"]
  /\ UNCHANGED <<turn, down, shown, ci, toggles, faults, ousted, missed>>

(* The password or the click, any time later.                               *)
authorized(c) ==
  /\ st[c] = "login" /\ st' = [st EXCEPT ![c] = "on"]
  /\ missed' = (missed \/ is_in_privacy_mode \/ lock # Free)
  /\ UNCHANGED <<turn, down, shown, ci, toggles, faults, ousted>>

toggle(c) ==
  /\ st[c] = "on" /\ task[c] = "idle" /\ toggles < MaxToggles /\ toggles' = toggles + 1

turn_on_privacy(c) ==
  /\ toggle(c) /\ job[c] = "none"
  /\ task' = [task EXCEPT ![c] = "waiting"] /\ job' = [job EXCEPT ![c] = "start"]
  /\ UNCHANGED <<conn_id, lock, st, down, shown, ci, faults, ousted, missed>>

(* Mutant: the owner is not looked at.                                      *)
check_on_conn_id_any(c) == IF conn_id = c THEN "ok" ELSE "working"

check_on_conn_id(c) ==
  CASE conn_id = c -> "ok" [] conn_id = INVALID -> "working" [] OTHER -> "error"

(* turn_on_privacy_sync: it keeps the lock while it works.                  *)
job_lock(c) ==
  /\ job[c] = "start" /\ lock = Free
  /\ job' = [job EXCEPT ![c] = check_on_conn_id(c)]
  /\ lock' = IF check_on_conn_id(c) = "working" THEN c ELSE Free
  /\ UNCHANGED <<conn_id, task, st, down, shown, ci, toggles, faults, ousted, missed>>

job_done(c) ==
  /\ lock = c /\ lock' = Free
  /\ \/ /\ conn_id' = c /\ job' = [job EXCEPT ![c] = "ok"] /\ UNCHANGED faults
        /\ missed' = (missed \/ ci = c)
     \/ /\ Fault /\ conn_id' = INVALID /\ job' = [job EXCEPT ![c] = "error"]
        /\ UNCHANGED missed
  /\ UNCHANGED <<task, st, down, shown, ci, toggles, ousted>>

(* Mutant: what has come on meanwhile is left.                              *)
turn_off_after_error_never(c) == UNCHANGED <<conn_id, ousted>>

(* turn_off_privacy with INVALID_PRIVACY_MODE_CONN_ID, whoever has it.      *)
turn_off_after_error(c) ==
  /\ conn_id' = INVALID
  /\ ousted' = IF conn_id \in {c, INVALID} THEN ousted ELSE ousted \cup {conn_id}

answer(c) ==
  /\ task[c] = "waiting" /\ job[c] \in {"ok", "error"} /\ lock = Free
  /\ task' = [task EXCEPT ![c] = "idle"] /\ job' = [job EXCEPT ![c] = "none"]
  /\ IF job[c] = "ok"
     THEN send(c, "PrvOnSucceeded") /\ UNCHANGED <<conn_id, ousted>>
     ELSE send(c, "PrvOnFailed") /\ turn_off_after_error(c)
  /\ UNCHANGED <<lock, st, shown, ci, toggles, faults, missed>>

(* 7.5 s are over, a little more than the job may take.                     *)
timeout(c) ==
  /\ Async /\ Fault
  /\ task[c] = "waiting" /\ job[c] = "working"
  /\ task' = [task EXCEPT ![c] = "late"]
  /\ UNCHANGED <<conn_id, lock, job, st, down, shown, ci, toggles, ousted, missed>>

(* The question whether the mode is on waits for the job.                   *)
answer_late(c) ==
  /\ task[c] = "late" /\ lock = Free
  /\ task' = [task EXCEPT ![c] = "idle"] /\ job' = [job EXCEPT ![c] = "none"]
  /\ send(c, "PrvOnFailed")
  /\ turn_off_after_error(c)
  /\ UNCHANGED <<lock, st, shown, ci, toggles, faults, missed>>

check_off_conn_id(c) == conn_id \in {c, INVALID}

turn_off_privacy(c) ==
  /\ toggle(c) /\ lock = Free
  /\ IF check_off_conn_id(c)
     THEN conn_id' = INVALID /\ send(c, "PrvOffSucceeded")
     ELSE UNCHANGED conn_id /\ send(c, "PrvOffFailed")
  /\ UNCHANGED <<lock, task, job, st, shown, ci, faults, ousted, missed>>

(* Mutant: a connection leaves it on.                                       *)
on_close_kept(c) ==
  /\ st[c] = "on" /\ task[c] = "idle" /\ lock = Free
  /\ st' = [st EXCEPT ![c] = "closed"]
  /\ down' = [down EXCEPT ![c] = <<>>] /\ shown' = [shown EXCEPT ![c] = FALSE]
  /\ UNCHANGED <<turn, ci, toggles, faults, ousted, missed>>

on_close(c) ==
  /\ st[c] = "on" /\ task[c] = "idle" /\ lock = Free
  /\ st' = [st EXCEPT ![c] = "closed"]
  /\ conn_id' = IF conn_id = c THEN INVALID ELSE conn_id
  /\ down' = [down EXCEPT ![c] = <<>>] /\ shown' = [shown EXCEPT ![c] = FALSE]
  /\ UNCHANGED <<lock, task, job, ci, toggles, faults, ousted, missed>>

-----------------------------------------------------------------------------
(* The video service.                                                       *)

get_capturer ==
  /\ ci = None /\ lock = Free /\ \E c \in Conns : st[c] = "on"
  /\ ci' = conn_id
  /\ missed' = (missed \/ is_in_privacy_mode)
  /\ UNCHANGED <<turn, st, down, shown, toggles, faults, ousted>>

(* Mutant: the others are not told.                                         *)
send_to_others_never == UNCHANGED down

send_to_others ==
  down' = [c \in Conns |->
    IF st[c] = "on" /\ c # conn_id THEN Append(down[c], "PrvOnByOther") ELSE down[c]]

(* With nobody left to send to, the service ends in the same way.           *)
check_privacy_mode_changed ==
  /\ ci # None /\ lock = Free /\ ci # conn_id
  /\ ci' = conn_id
  /\ IF is_in_privacy_mode THEN send_to_others ELSE UNCHANGED down
  /\ UNCHANGED <<turn, st, shown, toggles, faults, ousted, missed>>

(* The service starts its capture again for another reason.                 *)
switch ==
  /\ ci # None /\ ci' = None /\ Fault
  /\ UNCHANGED <<turn, st, down, shown, toggles, ousted, missed>>

-----------------------------------------------------------------------------
(* Its client.                                                              *)
handle_back_msg_privacy_mode(c) ==
  /\ down[c] # <<>> /\ Head(down[c]) # "PrvOnByOther"
  /\ down' = [down EXCEPT ![c] = Tail(@)]
  /\ shown' = [shown EXCEPT ![c] =
       CASE Head(down[c]) = "PrvOnSucceeded" -> TRUE
         [] Head(down[c]) = "PrvOffFailed" -> @
         [] OTHER -> FALSE]
  /\ UNCHANGED <<turn, st, ci, toggles, faults, ousted, missed>>

exit_by_other(c) == down[c] # <<>> /\ Head(down[c]) = "PrvOnByOther" /\ on_close(c)

Next ==
  \/ \E c \in Conns :
       \/ login_request(c) \/ authorized(c) \/ turn_on_privacy(c) \/ turn_off_privacy(c)
       \/ job_lock(c) \/ job_done(c) \/ answer(c) \/ timeout(c) \/ answer_late(c)
       \/ on_close(c) \/ exit_by_other(c) \/ handle_back_msg_privacy_mode(c)
  \/ get_capturer \/ check_privacy_mode_changed \/ switch

Spec ==
  /\ Init /\ [][Next]_vars
  /\ WF_vars(check_privacy_mode_changed)
  /\ \A c \in Conns :
       /\ WF_vars(job_lock(c)) /\ WF_vars(job_done(c))
       /\ WF_vars(answer(c)) /\ WF_vars(answer_late(c))
       /\ WF_vars(exit_by_other(c)) /\ WF_vars(handle_back_msg_privacy_mode(c))

-----------------------------------------------------------------------------
(* The one that has the mode is connected; one job at a time works at it.   *)
TypeOK ==
  /\ lock # Free => job[lock] = "working" /\ conn_id = INVALID
  /\ \A c \in Conns : task[c] = "idle" => job[c] = "none"
  /\ conn_id # INVALID => st[conn_id] = "on"

(* "Failed to turn off privacy mode that belongs to someone else.": it does *)
(* not end for a connection that is not told, and did not leave.            *)
NotByAnother ==
  [][\A c \in Conns : conn_id = c /\ conn_id' # c =>
       st'[c] # "on" \/ Len(down'[c]) > Len(down[c])]_vars

(* A client shows the mode exactly if it has it, once all is said and done, *)
(* but for one that lost it to the error of another.                        *)
ShownTruly ==
  \A c \in Conns \ ousted :
    st[c] = "on" /\ down[c] = <<>> /\ task[c] = "idle" /\ lock = Free
      => (shown[c] <=> conn_id = c)

(* "Someone turns on privacy mode, exit": once the capture has seen the     *)
(* owner, the other connections have been told to leave.                    *)
Alone ==
  ci = conn_id /\ is_in_privacy_mode =>
    \A c \in Conns \ {conn_id} :
      st[c] = "on" => \E i \in DOMAIN down[c] : down[c][i] = "PrvOnByOther"

(* The same, unless the capture began anew before it had seen the owner, a  *)
(* login that had passed the check was completed after, or the mode went    *)
(* off and on again unseen.                                                 *)
AloneUnlessMissed == ~missed => Alone

(* The mode of a connection that stays empties the host of others.          *)
OthersLeave ==
  \A c, d \in Conns :
    (c # d /\ conn_id = c /\ ci # None /\ ~missed) ~> (conn_id # c \/ st[d] # "on" \/ missed \/ ci = None)
=============================================================================
