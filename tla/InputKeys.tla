----------------------------- MODULE InputKeys ------------------------------
(***************************************************************************)
(* The keys that clients hold down on the controlled side, on Linux in map *)
(* mode (src/src/server/input_service.rs): each connection has an input    *)
(* thread that takes its messages, records a key in KEYS_DOWN and presses  *)
(* it, in two steps.  A key whose release never comes is released when the *)
(* last connection leaves (StateCursor::reset) or, 360 s after it was      *)
(* pressed, by a timer; both work from a copy of KEYS_DOWN.                *)
(***************************************************************************)
EXTENDS Naturals, SequencesExt

CONSTANTS
  Conns,        (* connections, each used once                              *)
  Keys,
  Modifiers,    (* the keys that stay down; others are pressed and released *)
  MaxEvents     (* bound: what the users type                               *)

(* Assumed of the constants by every module that gives them values. *)
InputKeysAssumption == Modifiers \subseteq Keys /\ MaxEvents \in Nat

VARIABLES
  on,           (* connections that subscribe to the cursor service         *)
  gone,         (* connections that have left                               *)
  held,         (* keys that the user of a connection holds                 *)
  queue,        (* MessageInput::Key of a connection                        *)
  work,         (* the steps a thread has before it                         *)
  KEYS_DOWN,    (* for each key, whether it is recorded, and for how long   *)
  sys,          (* keys that are down in the system                         *)
  may_reset,    (* the cursor service has had subscribers                   *)
  events,
  collided,     (* history: two threads were at one key                     *)
  late          (* history: a key was pressed after the last one had left   *)

vars == <<on, gone, held, queue, work, KEYS_DOWN, sys, may_reset, events, collided, late>>

Fixers == {"timer", "reset"}
Threads == Conns \cup Fixers

Init ==
  /\ on = {} /\ gone = {} /\ held = [c \in Conns |-> {}]
  /\ queue = [c \in Conns |-> <<>>] /\ work = [t \in Threads |-> <<>>]
  /\ KEYS_DOWN = [k \in Keys |-> "no"] /\ sys = {}
  /\ may_reset = FALSE /\ events = 0 /\ collided = FALSE /\ late = FALSE

Touches(t, k) == \E i \in DOMAIN work[t] : work[t][i].key = k

Step(o, k) == [op |-> o, key |-> k]

(* Mutant: the key is pressed and not recorded.                             *)
down_unrecorded(k) == <<Step("press", k)>>

(* sim_rdev_rawkey_position: the record before the event.                   *)
down(k) == <<Step("record", k), Step("press", k)>>

(* Mutant: forgotten and not released.                                      *)
up_recorded_only(k) == <<Step("forget", k)>>

up(k) == <<Step("forget", k), Step("release", k)>>

-----------------------------------------------------------------------------
(* Connections.                                                             *)

login(c) ==
  /\ c \notin on \cup gone /\ on' = on \cup {c} /\ may_reset' = TRUE
  /\ UNCHANGED <<gone, held, queue, work, KEYS_DOWN, sys, events, collided, late>>

(* What a user types; of the keys that are no modifiers the press is sent   *)
(* as a press, and the release all the same.                                *)
input_key(c, k) ==
  /\ c \in on /\ events < MaxEvents /\ events' = events + 1
  /\ held' = [held EXCEPT ![c] = IF k \in @ THEN @ \ {k} ELSE @ \cup {k}]
  /\ queue' = [queue EXCEPT ![c] = Append(@,
       [key |-> k,
        kind |-> IF k \in held[c] THEN "up" ELSE IF k \in Modifiers THEN "down" ELSE "press"])]
  /\ UNCHANGED <<on, gone, work, KEYS_DOWN, sys, may_reset, collided, late>>

(* The end of a connection: its input thread takes what is queued first.    *)
leave(c) ==
  /\ c \in on /\ on' = on \ {c} /\ gone' = gone \cup {c}
  /\ held' = [held EXCEPT ![c] = {}]
  /\ UNCHANGED <<queue, work, KEYS_DOWN, sys, may_reset, events, collided, late>>

handle_input(c) ==
  /\ work[c] = <<>> /\ queue[c] # <<>>
  /\ \E m \in {Head(queue[c])} :
       /\ work' = [work EXCEPT ![c] = CASE m.kind = "down" -> down(m.key)
                                        [] m.kind = "up" -> up(m.key)
                                        [] m.kind = "press" -> down(m.key) \o up(m.key)]
       /\ collided' = (collided \/ \E t \in Threads : Touches(t, m.key))
  /\ queue' = [queue EXCEPT ![c] = Tail(@)]
  /\ UNCHANGED <<on, gone, held, KEYS_DOWN, sys, may_reset, events, late>>

-----------------------------------------------------------------------------
(* One step of a thread, under no lock but that of KEYS_DOWN.               *)
simulate(t) ==
  /\ work[t] # <<>> /\ work' = [work EXCEPT ![t] = Tail(@)]
  /\ \E s \in {Head(work[t])} :
       /\ KEYS_DOWN' = [KEYS_DOWN EXCEPT ![s.key] = CASE s.op = "record" -> "new"
                                                      [] s.op = "forget" -> "no"
                                                      [] OTHER -> @]
       /\ sys' = CASE s.op = "press" -> sys \cup {s.key}
                   [] s.op = "release" -> sys \ {s.key}
                   [] OTHER -> sys
       /\ late' = (late \/ (s.op \in {"record", "press"} /\ on = {}))
  /\ UNCHANGED <<on, gone, held, queue, may_reset, events, collided>>

(* fix_key_down_timeout: the keys are copied, and released one by one.      *)
Fix(f, keys) ==
  /\ work[f] = <<>>
  /\ \E order \in SetToSeqs(keys) : work' = [work EXCEPT ![f] = FlattenSeq([i \in DOMAIN order |-> up(order[i])])]
  /\ collided' = (collided \/ \E t \in Threads, k \in keys : Touches(t, k))
  /\ UNCHANGED <<on, gone, held, queue, KEYS_DOWN, sys, events, late>>

Recorded(ages) == {k \in Keys : KEYS_DOWN[k] \in ages}

(* Mutant: keys of any age stay.                                            *)
timeout_never == FALSE /\ UNCHANGED vars

timeout ==
  /\ Recorded({"old"}) # {}
  /\ Fix("timer", Recorded({"old"}))
  /\ UNCHANGED may_reset

(* Mutant: not forced.                                                      *)
reset_unforced ==
  /\ on = {} /\ may_reset /\ may_reset' = FALSE
  /\ Fix("reset", Recorded({"old"}))

reset ==
  /\ on = {} /\ may_reset /\ may_reset' = FALSE
  /\ Fix("reset", Recorded({"new", "old"}))

(* 360 s pass, in which every thread has done what it had to.               *)
age(k) ==
  /\ KEYS_DOWN[k] = "new"
  /\ \A t \in Threads : work[t] = <<>>
  /\ \A c \in Conns : queue[c] = <<>>
  /\ on = {} => ~may_reset
  /\ KEYS_DOWN' = [KEYS_DOWN EXCEPT ![k] = "old"]
  /\ UNCHANGED <<on, gone, held, queue, work, sys, may_reset, events, collided, late>>

Next ==
  \/ \E c \in Conns : login(c) \/ leave(c) \/ handle_input(c) \/ (\E k \in Keys : input_key(c, k))
  \/ \E t \in Threads : simulate(t)
  \/ timeout \/ reset
  \/ \E k \in Keys : age(k)

Spec ==
  /\ Init /\ [][Next]_vars
  /\ \A c \in Conns : WF_vars(handle_input(c))
  /\ \A t \in Threads : WF_vars(simulate(t))
  /\ WF_vars(timeout) /\ WF_vars(reset) /\ \A k \in Keys : WF_vars(age(k))

-----------------------------------------------------------------------------
At(k) == {t \in Threads : Touches(t, k)}

(* A key that is down is on record, or a thread is at it: nothing else      *)
(* could ever release it.                                                   *)
Accounted ==
  \A k \in Keys : ~collided /\ At(k) = {} => (k \in sys <=> KEYS_DOWN[k] # "no")

TypeOK ==
  /\ on \cap gone = {} /\ sys \subseteq Keys
  /\ \A k \in Keys \ Modifiers : At(k) = {} /\ ~collided => k \notin sys

(* Once nobody is connected and the cursor service has noticed, no key is   *)
(* down that was pressed before.                                            *)
ResetReleases ==
  on = {} /\ ~may_reset /\ ~collided /\ ~late
    /\ (\A t \in Threads : work[t] = <<>>) => sys = {}

(* When nobody is connected any more, whatever is down is released.         *)
Released == on = {} ~> (sys = {} \/ on # {} \/ collided)
=============================================================================
