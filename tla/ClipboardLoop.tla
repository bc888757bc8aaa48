--------------------------- MODULE ClipboardLoop ----------------------------
(***************************************************************************)
(* The clipboard loop of the client (src/src/client.rs): one thread that   *)
(* all sessions share, started by the first one that gets the peer's       *)
(* information and stopped by the last one to end, over the listener of    *)
(* src/src/clipboard.rs.  Nobody waits for the thread to end, and it       *)
(* clears the flag that says that it runs when it does, after it has       *)
(* perhaps looked through a tree of copied files.                          *)
(***************************************************************************)
EXTENDS Naturals

CONSTANTS
  Sessions,     (* the sessions that are opened, each once                  *)
  MaxThreads    (* bound: loops that are started                            *)

(* Assumed of the constants by every module that gives them values. *)
ClipboardLoopAssumption == MaxThreads \in Nat \ {0} /\ "free" \notin Sessions

Threads == 1 .. MaxThreads

VARIABLES
  sessions,     (* SESSIONS: those with a handler                           *)
  pc,           (* the thread of each session                               *)
  running,      (* CLIPBOARD_STATE.running                                  *)
  lock,         (* the session that holds CLIPBOARD_STATE over its steps    *)
  subscribers,  (* threads whose sender the listener has                    *)
  loop,         (* the clipboard thread                                     *)
  told,         (* threads with a Stop in their channel                     *)
  started,      (* number of loops started                                  *)
  crossed,      (* history: a session started while a loop was on its end   *)
  astray        (* history: a session was ended by its peer, not by the user*)

clip == <<running, lock, subscribers, loop, told, started>>
vars == <<sessions, pc, clip, crossed, astray>>

Free == "free"

Init ==
  /\ sessions = {} /\ pc = [s \in Sessions |-> "new"]
  /\ running = FALSE /\ lock = Free /\ subscribers = {}
  /\ loop = [t \in Threads |-> "none"] /\ told = {} /\ started = 0
  /\ crossed = FALSE /\ astray = FALSE

Goto(s, from, to) == pc[s] = from /\ pc' = [pc EXCEPT ![s] = to]

-----------------------------------------------------------------------------
(* Sessions.                                                                *)

session_start(s) ==
  /\ Goto(s, "new", "connecting")
  /\ sessions' = sessions \cup {s}
  /\ UNCHANGED <<clip, crossed, astray>>

Stopping == \E s \in Sessions : pc[s] \in {"unsubscribe", "stop"}

(* A loop that has been told to end, or whose flag is down.                 *)
Ending(t) ==
  loop[t] # "none" /\ loop[t] # "ended" /\ (~running \/ t \in told \/ loop[t] = "end")

(* Mutant: the sender is added under a name of its own.                     *)
subscribe_another(t) == subscribers' = subscribers \cup {t}

subscribe(t) == subscribers' = {t}

(* Mutant: not asked whether a loop runs.                                   *)
may_start_always == TRUE

may_start == ~running

(* try_start_clipboard, the subscription ...                                *)
try_start_clipboard(s) ==
  /\ lock = Free
  /\ crossed' = (crossed \/ Stopping \/ \E t \in Threads : Ending(t))
  /\ IF may_start
     THEN /\ started < MaxThreads
          /\ Goto(s, "connecting", "starting")
          /\ lock' = s /\ started' = started + 1
          /\ subscribe(started + 1)
          /\ UNCHANGED <<running, loop, told>>
     ELSE Goto(s, "connecting", "on") /\ UNCHANGED clip
  /\ UNCHANGED <<sessions, astray>>

(* ... and the thread.                                                      *)
spawn_loop(s) ==
  /\ lock = s /\ Goto(s, "starting", "on")
  /\ running' = TRUE /\ lock' = Free
  /\ loop' = [loop EXCEPT ![started] = "check"]
  /\ UNCHANGED <<sessions, subscribers, told, started, crossed, astray>>

(* Mutant: the session keeps its handler.                                   *)
session_close_kept(s) ==
  /\ pc[s] \in {"connecting", "on"}
  /\ pc' = [pc EXCEPT ![s] = "exit"]
  /\ UNCHANGED <<sessions, clip, crossed, astray>>

(* session_close, and the end of the io loop it brings about.               *)
session_close(s) ==
  /\ pc[s] \in {"connecting", "on"}
  /\ pc' = [pc EXCEPT ![s] = "exit"]
  /\ sessions' = sessions \ {s}
  /\ UNCHANGED <<clip, crossed, astray>>

(* The connection ends; its tab stays until the user closes it.             *)
closed_by_peer(s) ==
  /\ pc[s] \in {"connecting", "on"}
  /\ pc' = [pc EXCEPT ![s] = "exit"]
  /\ astray' = TRUE
  /\ UNCHANGED <<sessions, clip, crossed>>

(* Mutant: the sessions of others are not asked for.                        *)
has_sessions_running_never == FALSE

(* Mutant: the session that ends is counted, too.                           *)
has_sessions_running_itself == \E s \in Sessions : pc[s] \notin {"new", "done"}

has_sessions_running == sessions # {}

try_stop_clipboard(s) ==
  /\ Goto(s, "exit", IF has_sessions_running THEN "done" ELSE "unsubscribe")
  /\ UNCHANGED <<sessions, clip, crossed, astray>>

(* Mutant: the sender stays.                                                *)
unsubscribe_kept(s) ==
  /\ Goto(s, "unsubscribe", "stop")
  /\ told' = told \cup subscribers
  /\ UNCHANGED <<sessions, running, lock, subscribers, loop, started, crossed, astray>>

unsubscribe(s) ==
  /\ Goto(s, "unsubscribe", "stop")
  /\ told' = told \cup subscribers /\ subscribers' = {}
  /\ UNCHANGED <<sessions, running, lock, loop, started, crossed, astray>>

clear_running(s) ==
  /\ lock = Free /\ Goto(s, "stop", "done")
  /\ running' = FALSE
  /\ UNCHANGED <<sessions, lock, subscribers, loop, told, started, crossed, astray>>

Session(s) ==
  \/ session_start(s) \/ try_start_clipboard(s) \/ spawn_loop(s)
  \/ session_close(s) \/ closed_by_peer(s)
  \/ try_stop_clipboard(s) \/ unsubscribe(s) \/ clear_running(s)

-----------------------------------------------------------------------------
(* The loop.  Its receiver ends with a Stop, or when its sender is gone; a  *)
(* time-out or a change takes it round.                                     *)

LoopGoto(t, from, to) == loop[t] = from /\ loop' = [loop EXCEPT ![t] = to]

check_running(t) ==
  /\ lock = Free
  /\ LoopGoto(t, "check", IF running THEN "recv" ELSE "end")
  /\ UNCHANGED <<sessions, pc, running, lock, subscribers, told, started, crossed, astray>>

recv(t) ==
  /\ LoopGoto(t, "recv", IF t \in told \/ t \notin subscribers THEN "end" ELSE "check")
  /\ UNCHANGED <<sessions, pc, running, lock, subscribers, told, started, crossed, astray>>

end(t) ==
  /\ lock = Free
  /\ LoopGoto(t, "end", "ended")
  /\ running' = FALSE
  /\ UNCHANGED <<sessions, pc, lock, subscribers, told, started, crossed, astray>>

Loop(t) == check_running(t) \/ recv(t) \/ end(t)

Next == (\E s \in Sessions : Session(s)) \/ (\E t \in Threads : Loop(t))

Spec ==
  /\ Init /\ [][Next]_vars
  /\ \A t \in Threads : WF_vars(Loop(t))
  /\ \A s \in Sessions : /\ WF_vars(spawn_loop(s)) /\ WF_vars(try_stop_clipboard(s))
                         /\ WF_vars(unsubscribe(s)) /\ SF_vars(clear_running(s))

-----------------------------------------------------------------------------
Listening(t) == loop[t] \in {"check", "recv"} /\ t \in subscribers /\ t \notin told

TypeOK ==
  /\ lock # Free => pc[lock] = "starting"
  /\ subscribers \cap told = {}
  /\ \A t \in Threads : loop[t] # "none" => t <= started
  /\ running => started > 0

(* "This function only create one thread with a loop, the loop is shared by *)
(* all sessions": a change of the clipboard is handled by one loop.         *)
OneLoop == \A t, u \in Threads : Listening(t) /\ Listening(u) => t = u

Settled ==
  /\ ~Stopping /\ lock = Free
  /\ \A t \in Threads : loop[t] # "end"

(* While a session is on there is a loop that listens ...                   *)
Shared == Settled /\ (\E s \in Sessions : pc[s] = "on") => \E t \in Threads : Listening(t)

(* ... unless one started while a loop was on its way to its end, or while  *)
(* a session that had found itself the last one was stopping it.            *)
SharedUnlessCrossed == ~crossed => Shared

(* "After all sessions are end, the loop exists [exits]."  A session that   *)
(* its peer closes keeps its handler, and the loop: see try_stop_clipboard. *)
LoopExits ==
  (sessions = {} /\ \A s \in Sessions : pc[s] # "connecting")
    ~> (astray \/ sessions # {} \/ \A t \in Threads : loop[t] \in {"none", "ended"})
=============================================================================
