--------------------------- MODULE CaptureDisplays ---------------------------
(***************************************************************************)
(* Which displays the host captures for a client with several windows on   *)
(* one session (src/src/flutter.rs, src/src/server/connection.rs).  A      *)
(* window that changes its display, or goes, tells the host the whole set  *)
(* that is needed from then on; for the other windows it goes by the       *)
(* displays that their renderers know, and these learn a new display only  *)
(* after its window has told the host.                                     *)
(***************************************************************************)
EXTENDS Naturals, Sequences, FiniteSets

CONSTANTS
  Windows,        (* sessions of the user interface on one peer             *)
  First,          (* the window that connects                               *)
  N,              (* displays of the peer; 0 is the primary one             *)
  MaxSwitches,    (* bound: changes of a window's display                   *)
  MaxOpens,       (* bound: windows opened on the running session           *)
  MaxLosses,      (* bound: connections lost                                *)
  MaxBehind       (* bound: messages on their way when a display is changed *)

(* Assumed of the constants by every module that gives them values. *)
CaptureDisplaysAssumption ==
  First \in Windows /\ N \in Nat \ {0, 1} /\ MaxSwitches \in Nat /\ MaxOpens \in Nat /\ MaxLosses \in Nat /\ MaxBehind \in Nat

Displays == 0 .. N - 1
PRIMARY_DISPLAY_IDX == {0}
Choices == {{d} : d \in Displays} \cup {Displays}

VARIABLES
  software,       (* use_texture_render() is off                            *)
  shown,          (* pi.currentDisplay of a window, as a set; {}: no window *)
  started,        (* windows that have told the host their first displays   *)
  stale,          (* windows whose renderer does not know of `shown` yet    *)
  textures,       (* the textures of a window, by display                   *)
  creating,       (* textures that will be registered when they are there   *)
  map_display_sessions,  (* the displays a window's renderer knows          *)
  up,             (* the session has a connection that is logged in         *)
  toHost,         (* messages on their way                                  *)
  display_idx,    (* Connection.display_idx                                 *)
  captured,       (* displays whose video service has the connection        *)
  multi_ui_session,
  switches, opens, losses,
  missed,         (* history: the last whole set left out a display in need *)
  spare           (* history: the last whole set had a display too many     *)

windows == <<shown, started, stale, textures, creating, map_display_sessions>>
host == <<display_idx, captured, multi_ui_session>>
bounds == <<switches, opens, losses>>
vars == <<software, windows, up, toHost, host, bounds, missed, spare>>

Switch(d) == [type |-> "switch_display", displays |-> d]
Add(ds) == [type |-> "add", displays |-> ds]
Set(ds) == [type |-> "set", displays |-> ds]

Init ==
  /\ software \in BOOLEAN
  /\ shown = [w \in Windows |-> IF w = First THEN PRIMARY_DISPLAY_IDX ELSE {}]
  /\ started = {First} /\ stale = {}
  /\ textures = shown /\ map_display_sessions = shown
  /\ creating = [w \in Windows |-> {}]
  /\ up = TRUE /\ toHost = <<>>
  /\ display_idx = PRIMARY_DISPLAY_IDX /\ captured = PRIMARY_DISPLAY_IDX /\ multi_ui_session = FALSE
  /\ switches = 0 /\ opens = 0 /\ losses = 0
  /\ missed = FALSE /\ spare = FALSE

session_handlers == {w \in Windows : shown[w] # {}}
Of(f, ws) == UNION {f[w] : w \in ws}
Send(msgs) == toHost' = IF up THEN toHost \o msgs ELSE toHost

-----------------------------------------------------------------------------
(* The client.                                                              *)

(* What w's change leaves in use, by the renderers of the other windows.    *)
remains_displays(current, w) ==
  current \cup Of(map_display_sessions, session_handlers \ {w})

(* Mutant: a set is sent even if it is empty.                               *)
check_remove_even_if_none(current, w) == <<Set(remains_displays(current, w))>>

(* Mutant: the window's new display is left out.                            *)
check_remove_without_current(current, w) ==
  LET remains == remains_displays({}, w)
  IN IF remains = {} THEN <<>> ELSE <<Set(remains)>>

check_remove_unused_displays(current, w) ==
  LET remains == remains_displays(current, w)
  IN IF remains = {} THEN <<>> ELSE <<Set(remains)>>

(* History: compares the set just sent with what the windows show.          *)
Judge(sent, w, own) ==
  LET needed == own \cup Of(shown, started \ {w})
  IN missed' = ~(needed \subseteq sent) /\ spare' = ~(sent \subseteq needed)

session_switch_display(w, value) ==
  /\ w \in session_handlers \cap started /\ switches < MaxSwitches /\ Len(toHost) <= MaxBehind
  /\ value \in Choices /\ value # shown[w]
  /\ shown' = [shown EXCEPT ![w] = value]
  /\ stale' = stale \cup {w}
  /\ Send(IF Cardinality(value) = 1
          THEN <<Switch(value)>>
               \o (IF software THEN <<Set(value)>> ELSE <<>>)
               \o check_remove_unused_displays(value, w)
          ELSE <<Set(value)>>)
  /\ Judge(IF Cardinality(value) = 1 THEN remains_displays(value, w) ELSE value, w, value)
  /\ switches' = switches + 1
  /\ UNCHANGED <<software, started, textures, creating, map_display_sessions, up, host, opens, losses>>

(* The window then gives the renderer the sizes (session_set_size) and has  *)
(* textures for what it shows; one it no longer needs is taken from the     *)
(* renderer at once (register_pixelbuffer_texture with no pointer).         *)
show(w) ==
  /\ w \in stale
  /\ stale' = stale \ {w}
  /\ LET gone == IF Cardinality(shown[w]) = 1 THEN textures[w] \ shown[w] ELSE {} IN
     /\ map_display_sessions' = [map_display_sessions EXCEPT ![w] = (@ \cup shown[w]) \ gone]
     /\ creating' = [creating EXCEPT ![w] = @ \cup (shown[w] \ textures[w])]
     /\ textures' = [textures EXCEPT ![w] = (@ \cup shown[w]) \ gone]
  /\ UNCHANGED <<software, shown, started, up, toHost, host, bounds, missed, spare>>

(* createTexture is done: its pointer is registered, wanted or not.         *)
register_pixelbuffer_texture(w, d) ==
  /\ d \in creating[w]
  /\ creating' = [creating EXCEPT ![w] = @ \ {d}]
  /\ map_display_sessions' = [map_display_sessions EXCEPT ![w] = @ \cup {d}]
  /\ UNCHANGED <<software, shown, started, stale, textures, up, toHost, host, bounds, missed, spare>>

(* insert_peer_session_id: another window, with its texture on the way.     *)
session_add_existed(w, displays) ==
  /\ w \notin session_handlers /\ opens < MaxOpens /\ displays \in Choices
  /\ shown' = [shown EXCEPT ![w] = displays]
  /\ textures' = [textures EXCEPT ![w] = displays]
  /\ creating' = [creating EXCEPT ![w] = displays]
  /\ opens' = opens + 1
  /\ UNCHANGED <<software, started, stale, map_display_sessions, up, toHost, host, switches, losses, missed, spare>>

session_start_with_displays(w) ==
  /\ w \in session_handlers \ started
  /\ started' = started \cup {w} /\ stale' = stale \cup {w}
  /\ Send(<<Add(shown[w])>>)
  /\ UNCHANGED <<software, shown, textures, creating, map_display_sessions, up, host, bounds, missed, spare>>

(* A window goes, which is not the last: that one ends the session.         *)
remove_session_by_session_id(w) ==
  /\ w \in session_handlers \cap started /\ Cardinality(session_handlers) > 1
  /\ shown' = [shown EXCEPT ![w] = {}] /\ started' = started \ {w} /\ stale' = stale \ {w}
  /\ textures' = [textures EXCEPT ![w] = {}] /\ creating' = [creating EXCEPT ![w] = {}]
  /\ map_display_sessions' = [map_display_sessions EXCEPT ![w] = {}]
  /\ Send(check_remove_unused_displays({}, w))
  /\ IF remains_displays({}, w) = {}
     THEN spare' = TRUE /\ UNCHANGED missed
     ELSE Judge(remains_displays({}, w), w, {})
  /\ UNCHANGED <<software, up, host, bounds>>

-----------------------------------------------------------------------------
(* The host.                                                                *)

(* switch_display_to: a client with several windows tells at once what else *)
(* it needs, so the old display is not given up here.                       *)
handle_switch_display(s) ==
  IF s # display_idx
  THEN display_idx' = s /\ captured' = captured \cup s /\ UNCHANGED multi_ui_session
  ELSE UNCHANGED host

(* Mutant: the displays that are not in the set are left as they are.       *)
capture_displays_added(m) ==
  /\ captured' = captured \cup m.displays
  /\ multi_ui_session' = (Cardinality(captured') > 1)
  /\ UNCHANGED display_idx

(* Mutant: the displays are counted before they are changed.                *)
capture_displays_counted_before(m) ==
  /\ captured' = IF m.type = "add" THEN captured \cup m.displays ELSE m.displays
  /\ multi_ui_session' = (Cardinality(captured) > 1)
  /\ UNCHANGED display_idx

capture_displays(m) ==
  /\ captured' = IF m.type = "add" THEN captured \cup m.displays ELSE m.displays
  /\ multi_ui_session' = (Cardinality(captured') > 1)
  /\ UNCHANGED display_idx

on_message ==
  /\ toHost # <<>>
  /\ toHost' = Tail(toHost)
  /\ LET m == Head(toHost)
     IN IF m.type = "switch_display" THEN handle_switch_display(m.displays) ELSE capture_displays(m)
  /\ UNCHANGED <<software, windows, up, bounds, missed, spare>>

-----------------------------------------------------------------------------
(* A lost connection, and the login of the next one.                        *)

lost ==
  /\ up /\ losses < MaxLosses
  /\ up' = FALSE /\ toHost' = <<>> /\ losses' = losses + 1
  /\ captured' = {} /\ display_idx' = PRIMARY_DISPLAY_IDX /\ multi_ui_session' = FALSE
  /\ UNCHANGED <<software, windows, switches, opens, missed, spare>>

(* add_connection subscribes the primary display.  handlePeerInfo moves a   *)
(* window to it that is alone; several windows keep what they show.         *)
login ==
  /\ ~up /\ up' = TRUE
  /\ captured' = PRIMARY_DISPLAY_IDX
  /\ shown' = IF Cardinality(session_handlers) > 1 THEN shown
              ELSE [w \in Windows |-> IF w \in session_handlers THEN PRIMARY_DISPLAY_IDX ELSE {}]
  /\ stale' = started
  /\ missed' = ~(Of(shown', started) \subseteq PRIMARY_DISPLAY_IDX)
  /\ spare' = ~(PRIMARY_DISPLAY_IDX \subseteq Of(shown', started))
  /\ UNCHANGED <<software, started, textures, creating, map_display_sessions, toHost, display_idx, multi_ui_session, bounds>>

Next ==
  \/ \E w \in Windows :
       \/ \E value \in Choices : session_switch_display(w, value) \/ session_add_existed(w, value)
       \/ \E d \in Displays : register_pixelbuffer_texture(w, d)
       \/ show(w) \/ session_start_with_displays(w) \/ remove_session_by_session_id(w)
  \/ on_message \/ lost \/ login

Spec == Init /\ [][Next]_vars

-----------------------------------------------------------------------------
TypeOK ==
  /\ software \in BOOLEAN /\ up \in BOOLEAN /\ multi_ui_session \in BOOLEAN
  /\ shown \in [Windows -> Choices \cup {{}}]
  /\ {textures, creating, map_display_sessions} \subseteq [Windows -> SUBSET Displays]
  /\ started \subseteq session_handlers /\ stale \subseteq started /\ session_handlers # {}
  /\ toHost \in Seq([type : {"switch_display", "add", "set"}, displays : Choices \cup SUBSET Displays])
  /\ display_idx \in {{d} : d \in Displays} /\ captured \subseteq Displays
  /\ up => captured # {}
  /\ switches \in 0 .. MaxSwitches /\ opens \in 0 .. MaxOpens /\ losses \in 0 .. MaxLosses
  /\ missed \in BOOLEAN /\ spare \in BOOLEAN

Settled == up /\ toHost = <<>>
Needed == Of(shown, started)

(* Once the host has handled what it was sent it captures every display     *)
(* that a window shows (the comment of session_switch_display).             *)
OthersKept == Settled => Needed \subseteq captured

(* The same, unless the last set was made from renderers that did not know  *)
(* the display yet, or several windows outlived their connection.           *)
OthersKeptUnlessMissed == ~missed => OthersKept

(* And it captures no other (the comment of switch_display_to), unless the  *)
(* last set was made from renderers that still knew one.                    *)
NoneSpare == Settled /\ ~spare /\ session_handlers = started => captured \subseteq Needed

(* The focused window is followed only while one display is captured.       *)
FollowsOne == Settled => multi_ui_session = (Cardinality(captured) > 1)

=============================================================================
