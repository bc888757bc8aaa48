------------------------------ MODULE Service ------------------------------
(***************************************************************************)
(* The publish/subscribe framework of src/src/server/service.rs and the    *)
(* subscription calls of src/src/server.rs: one service (a ServiceTmpl),   *)
(* its thread, and the connections that subscribe to it.                   *)
(*                                                                         *)
(* Three kinds of actor interleave:                                        *)
(*   - connection tasks, which call into Server under its write lock; the  *)
(*     lock makes them exclude one another, not the service thread;        *)
(*   - the service thread (`run` or `repeat`), which takes the inner       *)
(*     RwLock once per call, so anything may happen between two calls;     *)
(*   - Drop for Server, which joins the thread.                            *)
(*                                                                         *)
(* What a service says, and to whom, is left to the modules of the         *)
(* services: here a message is sent or is not.  The sleeps between rounds  *)
(* and after errors (error_timeout) last some time, and what `repeat`      *)
(* resets when nobody is subscribed is local to its callback.              *)
(***************************************************************************)
EXTENDS Naturals, FiniteSets

CONSTANTS
  Conns,          (* ids of connections; get_new_id never reuses one       *)
  NeedSnapshot,   (* ServiceInner.need_snapshot                            *)
  Repeat          (* the thread runs `repeat` (else `run`)                 *)

ASSUME ServiceAssumption ==
  /\ NeedSnapshot \in BOOLEAN
  /\ Repeat \in BOOLEAN
  /\ "none" \notin Conns

VARIABLES
  subscribes,     (* ServiceInner.subscribes                               *)
  new_subscribes, (* ServiceInner.new_subscribes                           *)
  active,         (* ServiceInner.active                                   *)
  pc,             (* where the service thread is                           *)
  joiner,         (* Drop for Server: "no", "waiting" in join, "done"      *)
  connections,    (* Server.connections                                    *)
  removed,        (* connections that remove_connection has taken out      *)
  call            (* a Server::subscribe call that is under way            *)

serverVars == <<connections, removed, call>>
vars == <<subscribes, new_subscribes, active, pc, joiner, serverVars>>

NoCall == [conn |-> "none", sub |-> FALSE, at |-> "none"]

ThreadStates == {"head", "has", "ok", "body", "snap", "callback", "work", "swap_ok",
                 "swap_err", "failed", "exit"}

TypeOK ==
  /\ subscribes \subseteq Conns
  /\ new_subscribes \subseteq Conns
  /\ active \in BOOLEAN
  /\ pc \in ThreadStates
  /\ joiner \in {"no", "waiting", "done"}
  /\ connections \subseteq Conns
  /\ removed \subseteq Conns
  /\ call \in [conn : Conns \cup {"none"}, sub : BOOLEAN,
               at : {"none", "new", "act"}]

Init ==
  /\ subscribes = {}
  /\ new_subscribes = {}
  /\ active = TRUE
  /\ pc = "head"
  /\ joiner = "no"
  /\ connections = {}
  /\ removed = {}
  /\ call = NoCall

-----------------------------------------------------------------------------
(* The ServiceInner operations; each runs under one acquisition of its lock. *)

Members == subscribes \cup new_subscribes

has_subscribes == subscribes # {} \/ new_subscribes # {}

(* Mutant: the callback's loop does not look at `active`.                  *)
ok_inactive == has_subscribes

ok == active /\ has_subscribes

(* The snapshot's message is out and its swap is still to come.            *)
SwapPending == pc \in {"swap_ok", "swap_err"}

(* Mutant: no early return for one that is subscribed.                     *)
on_subscribe_again(c) ==
  /\ new_subscribes' = new_subscribes \cup {c}
  /\ UNCHANGED subscribes

on_subscribe(c) ==
  IF c \in subscribes
  THEN UNCHANGED <<subscribes, new_subscribes>>
  ELSE IF NeedSnapshot
       THEN /\ new_subscribes' = new_subscribes \cup {c}
            /\ UNCHANGED subscribes
       ELSE /\ subscribes' = subscribes \cup {c}
            /\ UNCHANGED new_subscribes

(* Mutant: new subscribers are forgotten.                                  *)
on_unsubscribe_old(c) ==
  /\ subscribes' = subscribes \ {c}
  /\ UNCHANGED new_subscribes

(* Mutant: only new subscribers are looked for.                            *)
on_unsubscribe_new(c) ==
  /\ new_subscribes' = new_subscribes \ {c}
  /\ UNCHANGED subscribes

on_unsubscribe(c) ==
  /\ subscribes' = subscribes \ {c}
  /\ new_subscribes' = IF c \in subscribes THEN new_subscribes
                                           ELSE new_subscribes \ {c}

swap_new_subscribes ==
  /\ subscribes' = subscribes \cup new_subscribes
  /\ new_subscribes' = {}

-----------------------------------------------------------------------------
(* Calls into Server, under its write lock.                                *)

ServerFree == call = NoCall /\ joiner = "no"

(* Server::add_connection; noperms says whether it may have this service.  *)
add_connection(c) ==
  /\ ServerFree
  /\ c \notin connections \cup removed
  /\ \/ on_subscribe(c)
     \/ UNCHANGED <<subscribes, new_subscribes>>
  /\ connections' = connections \cup {c}
  /\ UNCHANGED <<active, pc, joiner, removed, call>>

(* Server::remove_connection, at the end of every connection's task.       *)
remove_connection(c) ==
  /\ ServerFree
  /\ c \notin removed
  /\ on_unsubscribe(c)
  /\ connections' = connections \ {c}
  /\ removed' = removed \cup {c}
  /\ UNCHANGED <<active, pc, joiner, call>>

(* Server::subscribe, from capture_displays or the connection's options.   *)
(* It asks is_subed first, and is_subed reads the two maps under two       *)
(* acquisitions of the read lock: the first read ...                       *)
subscribe(c, sub) ==
  /\ ServerFree
  /\ c \notin removed
  /\ call' = IF c \in subscribes
             THEN IF sub THEN NoCall ELSE [conn |-> c, sub |-> sub, at |-> "act"]
             ELSE [conn |-> c, sub |-> sub, at |-> "new"]
  /\ UNCHANGED <<subscribes, new_subscribes, active, pc, joiner,
                 connections, removed>>

(* Mutant: is_subed does not look at new_subscribes.                       *)
is_subed_old ==
  /\ call.at = "new"
  /\ call' = IF call.sub THEN [call EXCEPT !.at = "act"] ELSE NoCall
  /\ UNCHANGED <<subscribes, new_subscribes, active, pc, joiner,
                 connections, removed>>

(* ... the second read ...                                                 *)
is_subed_new ==
  /\ call.at = "new"
  /\ call' = IF (call.conn \in new_subscribes) = call.sub
             THEN NoCall
             ELSE [call EXCEPT !.at = "act"]
  /\ UNCHANGED <<subscribes, new_subscribes, active, pc, joiner,
                 connections, removed>>

(* Mutant: the service is called whatever is_subed has answered, or before. *)
subscribe_early ==
  /\ on_subscribe(call.conn)
  /\ call' = NoCall
  /\ UNCHANGED <<active, pc, joiner, connections, removed>>

(* ... and the call that the answer leads to.                              *)
subscribe_act ==
  /\ call.at = "act"
  /\ IF call.sub
     THEN on_subscribe(call.conn)
     ELSE on_unsubscribe(call.conn)
  /\ call' = NoCall
  /\ UNCHANGED <<active, pc, joiner, connections, removed>>

(* Drop for Server joins every service: active = false, take the handle,   *)
(* wait for the thread.                                                    *)
join ==
  /\ ServerFree
  /\ active' = FALSE
  /\ joiner' = "waiting"
  /\ UNCHANGED <<subscribes, new_subscribes, pc, serverVars>>

joined ==
  /\ joiner = "waiting"
  /\ pc = "exit"
  /\ joiner' = "done"
  /\ UNCHANGED <<subscribes, new_subscribes, active, pc, serverVars>>

-----------------------------------------------------------------------------
(* The service thread.                                                     *)

membership == <<subscribes, new_subscribes, active, joiner, serverVars>>

Goto(from, to) == pc = from /\ pc' = to

(* Mutant: `repeat` does not look at `active`.                             *)
check_active_never ==
  /\ Goto("head", "has")
  /\ UNCHANGED membership

(* `while sp.active()`                                                     *)
check_active ==
  /\ Goto("head", IF active THEN "has" ELSE "exit")
  /\ UNCHANGED membership

(* `if sp.has_subscribes()`: `run` enters its callback, which may loop;    *)
(* `repeat` calls it for one round.                                        *)
check_subscribes ==
  /\ Goto("has", CASE ~has_subscribes -> "head"
                   [] has_subscribes /\ Repeat -> "body"
                   [] has_subscribes /\ ~Repeat -> "ok")
  /\ UNCHANGED membership

(* The callback of `run` loops `while sp.ok()` and then returns Ok.        *)
check_ok ==
  /\ Goto("ok", IF ok THEN "body" ELSE "head")
  /\ UNCHANGED membership

NextRound == IF Repeat THEN "head" ELSE "ok"

(* A round of the callback has something to say,                           *)
begin_work ==
  /\ Goto("body", "snap")
  /\ UNCHANGED membership

(* or nothing.                                                             *)
no_work ==
  /\ Goto("body", NextRound)
  /\ UNCHANGED membership

(* snapshot: the callback runs only when somebody is new.                  *)
snapshot ==
  /\ Goto("snap", IF new_subscribes # {} THEN "callback" ELSE "work")
  /\ UNCHANGED membership

(* The snapshot's callback sends to the new ones ...                       *)
send_new_subscribes ==
  /\ Goto("callback", "swap_ok")
  /\ UNCHANGED membership

(* ... or fails, and then nobody gets the snapshot, but the ServiceSwap is *)
(* dropped all the same.                                                   *)
snapshot_fails ==
  /\ Goto("callback", "swap_err")
  /\ UNCHANGED membership

(* Mutant: the maps are swapped only after a snapshot that was sent.       *)
drop_swap_when_sent ==
  /\ SwapPending
  /\ IF pc = "swap_ok" THEN swap_new_subscribes
                       ELSE UNCHANGED <<subscribes, new_subscribes>>
  /\ pc' = IF pc = "swap_ok" THEN "work" ELSE "failed"
  /\ UNCHANGED <<active, joiner, serverVars>>

(* Drop for ServiceSwap.                                                   *)
drop_swap ==
  /\ SwapPending
  /\ swap_new_subscribes
  /\ pc' = IF pc = "swap_ok" THEN "work" ELSE "failed"
  /\ UNCHANGED <<active, joiner, serverVars>>

(* What the service is for: send_shared to `subscribes`, when it has news. *)
send_shared ==
  /\ Goto("work", NextRound)
  /\ UNCHANGED membership

(* The callback fails, before its loop or in it.                           *)
callback_fails ==
  /\ pc \in {"ok", "body", "work"}
  /\ pc' = "failed"
  /\ UNCHANGED membership

(* Back to `while sp.active()`, after a sleep.                             *)
after_error ==
  /\ Goto("failed", "head")
  /\ UNCHANGED membership

Thread ==
  \/ check_active
  \/ check_subscribes
  \/ check_ok
  \/ begin_work
  \/ no_work
  \/ snapshot
  \/ send_new_subscribes
  \/ snapshot_fails
  \/ drop_swap
  \/ send_shared
  \/ callback_fails
  \/ after_error

ServerCalls ==
  \/ \E c \in Conns : add_connection(c)
  \/ \E c \in Conns : remove_connection(c)
  \/ \E c \in Conns, sub \in BOOLEAN : subscribe(c, sub)
  \/ is_subed_new
  \/ subscribe_act
  \/ join
  \/ joined

Next == ServerCalls \/ Thread

(* The service thread is an OS thread and runs on, though nothing says it  *)
(* ever succeeds; a call that holds the server lock runs to its end; a     *)
(* joined thread's joiner wakes.                                           *)
Fairness ==
  /\ WF_vars(Thread)
  /\ WF_vars(is_subed_new \/ subscribe_act)
  /\ WF_vars(joined)

Spec == Init /\ [][Next]_vars /\ Fairness

(* The service's source is not broken or silent for good.                  *)
SpecWorks == Spec /\ SF_vars(check_ok) /\ SF_vars(begin_work)

-----------------------------------------------------------------------------
(* A connection is in one of the two maps at most: on_unsubscribe takes it *)
(* out of the first one that has it, so one that were in both would go on  *)
(* receiving after it left (service.rs on_subscribe, on_unsubscribe).      *)
Disjoint == subscribes \cap new_subscribes = {}

(* After remove_connection a service sends the connection nothing, however *)
(* the subscribe calls of its last moments interleaved with the thread.    *)
RemovedNotSubscribed == Members \cap removed = {}

(* Both: who is subscribed to what, whatever interleaves.                  *)
Subscriptions == Disjoint /\ RemovedNotSubscribed

(* When Server::subscribe returns, the connection is subscribed as asked.  *)
(* The one exception is the code's race: the thread moved it from          *)
(* new_subscribes to subscribes between the two reads of is_subed, and an  *)
(* unsubscription is lost.                                                 *)
SubscribeTakesEffect ==
  [][(call.at # "none" /\ call'.at = "none")
       => \/ (call.conn \in Members') = call.sub
          \/ /\ call.at = "new"
             /\ ~call.sub
             /\ call.conn \in subscribes]_vars

(* A service thread that is running what its callback does notices the     *)
(* join: dropping the server terminates.                                   *)
JoinTerminates == joiner = "waiting" ~> joiner = "done"

(* A subscriber does not stay new: the thread takes it into `subscribes`,  *)
(* unless it leaves or the service stops first.                            *)
NewSubscriberServed ==
  \A c \in Conns : c \in new_subscribes ~> (c \notin new_subscribes \/ ~active)

=============================================================================
