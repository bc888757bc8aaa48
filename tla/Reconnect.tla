----------------------------- MODULE Reconnect ------------------------------
(***************************************************************************)
(* The rounds of a session of the client (src/src/ui_session_interface.rs, *)
(* src/src/client/io_loop.rs): each connection attempt is a round with a   *)
(* thread of its own, which nobody joins.  A thread that is told to close, *)
(* or breaks, goes on for a while beside the one of the next round; they   *)
(* share the state of the round and the channel to the thread.  The user   *)
(* interface (src/flutter/lib/models/model.dart) reconnects by a button,   *)
(* or by a timer that nothing but the next message box stops.              *)
(***************************************************************************)
EXTENDS Naturals, FiniteSets

CONSTANTS
  MaxRounds,    (* bound: rounds                                            *)
  MaxFaults     (* bound: connections that fail or break                    *)

(* Assumed of the constants by every module that gives them values. *)
ReconnectAssumption == MaxRounds \in Nat \ {0} /\ MaxFaults \in Nat

Rounds == 1 .. MaxRounds

VARIABLES
  round, state, (* connection_round_state                                   *)
  thread,       (* the session has stored a thread                          *)
  sender,       (* the round whose channel Session::send uses, 0 if none    *)
  pc,           (* the thread of each round                                 *)
  closes,       (* the rounds with a Data::Close in their channel           *)
  ui,           (* "loading", "session", "dialog", "closed"                 *)
  boxes,        (* message boxes that the threads have asked for            *)
  timer,        (* the reconnect timer is set                               *)
  astray,       (* history: the session was closed between the start of a
                  thread and the storing of its channel                     *)
  faults

session == <<round, state, thread, sender>>
view == <<ui, boxes, timer>>
vars == <<session, pc, closes, view, astray, faults>>

(* session_start_: the first thread is not stored.                          *)
Init ==
  /\ round = 1 /\ state = "Connecting" /\ thread = FALSE /\ sender = 0
  /\ pc = [r \in Rounds |-> IF r = 1 THEN "starting" ELSE "none"]
  /\ closes = {}
  /\ ui = "loading" /\ boxes = 0 /\ timer = FALSE
  /\ astray = FALSE /\ faults = 0

Goto(r, from, to) == pc[r] = from /\ pc' = [pc EXCEPT ![r] = to]

-----------------------------------------------------------------------------
(* The thread of round r: io_loop.                                          *)

set_sender(r) ==
  /\ Goto(r, "starting", "connecting")
  /\ sender' = r
  /\ UNCHANGED <<round, state, thread, closes, view, astray, faults>>

set_connected(r) ==
  /\ Goto(r, "connecting", "connected")
  /\ state' = "Connected"
  /\ ui' = IF ui = "loading" /\ r = round THEN "session" ELSE ui
  /\ UNCHANGED <<round, thread, sender, closes, boxes, timer, astray, faults>>

(* Mutant: the user is not told.                                            *)
break_silently(r) ==
  /\ pc[r] \in {"connecting", "connected"}
  /\ pc' = [pc EXCEPT ![r] = "exiting"]
  /\ faults < MaxFaults /\ faults' = faults + 1
  /\ UNCHANGED <<session, closes, view, astray>>

(* on_establish_connection_error, or the connection is reset later.         *)
break(r) ==
  /\ pc[r] \in {"connecting", "connected"}
  /\ pc' = [pc EXCEPT ![r] = "exiting"]
  /\ faults < MaxFaults /\ faults' = faults + 1
  /\ boxes' = boxes + 1
  /\ UNCHANGED <<session, closes, ui, timer, astray>>

Close(r) ==
  /\ Goto(r, "connected", "exiting") /\ r \in closes
  /\ closes' = closes \ {r}
  /\ UNCHANGED <<session, view, astray, faults>>

(* Mutant: the round of the thread is not looked at.                        *)
set_disconnected_any(r) ==
  /\ Goto(r, "exiting", "exited")
  /\ state' = "Disconnected"
  /\ UNCHANGED <<round, thread, sender, closes, view, astray, faults>>

set_disconnected(r) ==
  /\ Goto(r, "exiting", "exited")
  /\ state' = IF r < round THEN state ELSE "Disconnected"
  /\ UNCHANGED <<round, thread, sender, closes, view, astray, faults>>

Thread(r) ==
  set_sender(r) \/ set_connected(r) \/ break(r) \/ Close(r) \/ set_disconnected(r)

-----------------------------------------------------------------------------
(* Session::reconnect.                                                      *)

(* Mutant: the connection of the round before is left alone.                *)
close_before_never == UNCHANGED closes

close_before ==
  closes' = IF thread /\ state = "Connected" THEN closes \cup {sender} ELSE closes

reconnect ==
  IF thread /\ state = "Connecting"
  THEN UNCHANGED <<session, pc, closes>>
  ELSE /\ close_before
       /\ round < MaxRounds
       /\ round' = round + 1 /\ state' = "Connecting"
       /\ thread' = TRUE
       /\ pc' = [pc EXCEPT ![round + 1] = "starting"]
       /\ UNCHANGED sender

(* The user interface: a message box sets the timer if it makes sense to    *)
(* try again, and takes the place of the one before.                        *)
showMsgBox ==
  /\ boxes > 0 /\ boxes' = boxes - 1
  /\ ui # "closed" /\ ui' = "dialog"
  /\ timer' \in BOOLEAN
  /\ UNCHANGED <<session, pc, closes, astray, faults>>

(* Clicks and timers come later than what the thread does after its         *)
(* message.                                                                 *)
Settled == \A r \in Rounds : pc[r] # "exiting"

click_reconnect ==
  /\ ui = "dialog" /\ Settled
  /\ reconnect
  /\ ui' = "loading"
  /\ UNCHANGED <<boxes, timer, astray, faults>>

timer_reconnect ==
  /\ timer /\ timer' = FALSE /\ ui # "closed" /\ Settled
  /\ reconnect
  /\ ui' = "loading"
  /\ UNCHANGED <<boxes, astray, faults>>

(* Mutant: a session that still connects is not told to close.              *)
close_connected_only ==
  /\ ui # "closed" /\ ui' = "closed"
  /\ closes' = IF state = "Connected" THEN closes \cup {sender} ELSE closes
  /\ timer' = FALSE /\ boxes' = 0
  /\ astray' = (astray \/ pc[round] = "starting")
  /\ UNCHANGED <<session, pc, faults>>

(* The user closes the session.                                             *)
close ==
  /\ ui # "closed" /\ ui' = "closed"
  /\ closes' = IF sender = 0 THEN closes ELSE closes \cup {sender}
  /\ timer' = FALSE /\ boxes' = 0
  /\ astray' = (astray \/ pc[round] = "starting")
  /\ UNCHANGED <<session, pc, faults>>

Ui == showMsgBox \/ click_reconnect \/ timer_reconnect \/ close

Next == Ui \/ \E r \in Rounds : Thread(r)

Spec ==
  /\ Init /\ [][Next]_vars
  /\ \A r \in Rounds : /\ WF_vars(set_sender(r)) /\ WF_vars(set_connected(r))
                       /\ WF_vars(Close(r)) /\ WF_vars(set_disconnected(r))
  /\ WF_vars(showMsgBox) /\ WF_vars(timer_reconnect)

-----------------------------------------------------------------------------
Running(r) == pc[r] \in {"starting", "connecting", "connected"}

(* The state of the round is that of its thread, whatever the threads of    *)
(* earlier rounds still do.                                                 *)
TypeOK ==
  /\ round \in Rounds /\ sender \in 0 .. round /\ closes \subseteq 0 .. round
  /\ pc[round] = "connected" => state = "Connected"
  /\ pc[round] = "exited" => state = "Disconnected"
  /\ pc[round] \in {"starting", "connecting"} => state = "Connecting"

(* "No need to join the previous thread, because it will exit               *)
(* automatically.": one of an earlier round has been told to close.         *)
PreviousExits == \A r \in Rounds : r < round /\ Running(r) => r \in closes

(* A session that shows that it connects gets connected, or shows an error. *)
NeverStuck == ui = "loading" ~> ui # "loading"

(* A session that was closed leaves no connection behind; a thread that     *)
(* had not stored its channel then is not told.                             *)
ClosedForGood == ui = "closed" ~> (astray \/ \A r \in Rounds : ~Running(r))

=============================================================================
