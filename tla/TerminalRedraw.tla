---------------------------- MODULE TerminalRedraw ----------------------------
(***************************************************************************)
(* The size of a remote terminal, and the two resizes that make a program  *)
(* redraw its screen when a client comes back (SigwinchPhase, read_outputs *)
(* and handle_resize in src/src/server/terminal_service.rs; the size of    *)
(* the client's view is in src/flutter/lib/models/terminal_model.dart).    *)
(*                                                                         *)
(* One terminal, which the windows of the client open one after the other. *)
(* Only the number of rows is kept of a size.  The program in the terminal *)
(* is told of a change of size by a signal, and redraws when it then finds *)
(* a size other than the one it drew at; it does so within the 30 ms       *)
(* between two calls of read_outputs, which is what the code relies on.    *)
(***************************************************************************)
EXTENDS Naturals, Sequences

CONSTANTS
  Sizes,       (* the heights a view may have                              *)
  Attempts,    (* MAX_SIGWINCH_PHASE_ATTEMPTS                              *)
  MaxWindows,  (* bound: windows of the client, one after the other        *)
  MaxResizes,  (* bound: resizes of the view                               *)
  MaxFails,    (* bound: resizes of the pty that fail                      *)
  Early        (* a view may be resized before its terminal is opened      *)

(* Assumed of the constants by every module that gives them values. *)
TerminalRedrawAssumption ==
  /\ Sizes \subseteq Nat \ {0} /\ Sizes # {}
  /\ {Attempts, MaxWindows, MaxResizes, MaxFails} \subseteq Nat /\ Attempts > 0
  /\ Early \in BOOLEAN

VARIABLES
  window,   (* the window: "none", "opening", "open" (_terminalOpened)     *)
  view,     (* the height of its view                                      *)
  sent,     (* what it sent and the host has not handled                   *)
  answered, (* TerminalOpened is on its way to the window                  *)
  rows,     (* rows of the TerminalSession, 0 if there is none             *)
  pty,      (* the size of the pty                                         *)
  phase,    (* SigwinchPhase: its kind and retries                         *)
  app,      (* the size the program drew at                                *)
  signal,   (* SIGWINCH is pending for the program                         *)
  windows, resizes, fails,   (* what is used of the bounds                 *)
  owed,     (* history: a reopening after which nothing was redrawn        *)
  touched,  (* history: a resize was handled since the reopening           *)
  gaveUp,   (* history: a phase was given up, or a resize failed, since the
               last resize that succeeded                                  *)
  unsaid    (* history: the view has a size of which the host is not told  *)

host == <<rows, pty, phase>>
client == <<window, view, answered>>
program == <<app, signal>>
bounds == <<windows, resizes, fails>>
history == <<owed, touched, gaveUp, unsaid>>
vars == <<client, sent, host, program, bounds, history>>

Idle == [kind |-> "idle", retries |-> 0]
Phase_counted_from_one(k) == [kind |-> k, retries |-> Attempts + 1]
Phase(k) == [kind |-> k, retries |-> Attempts]

Init ==
  /\ window = "none" /\ view \in Sizes /\ sent = <<>> /\ answered = FALSE
  /\ rows = 0 /\ pty = 0 /\ phase = Idle
  /\ app = 0 /\ signal = FALSE
  /\ windows = 0 /\ resizes = 0 /\ fails = 0
  /\ owed = FALSE /\ touched = FALSE /\ gaveUp = FALSE /\ unsaid = FALSE

(* The kernel resizes the pty to r: it signals a change and nothing else.   *)
resize_pty(r) == pty' = r /\ signal' = (signal \/ r # pty)

(* A resize of the pty to r that may fail.                                  *)
Tried(r, ok) ==
  \/ /\ ok /\ resize_pty(r) /\ UNCHANGED fails
  \/ /\ ~ok /\ fails < MaxFails /\ fails' = fails + 1 /\ UNCHANGED <<pty, signal>>

-----------------------------------------------------------------------------
(* A window is opened, with a view of any size, and asks for the terminal.  *)
openTerminal ==
  /\ window = "none" /\ windows < MaxWindows
  /\ windows' = windows + 1 /\ window' = "opening"
  /\ \E v \in Sizes :
       /\ view' = v /\ sent' = <<[kind |-> "open", rows |-> v]>>
       /\ unsaid' = (rows \notin {0, v})
  /\ UNCHANGED <<answered, host, program, resizes, fails, owed, touched, gaveUp>>

(* terminal.onResize: the host is told if the terminal is open.             *)
onResize ==
  /\ window = "open" \/ (Early /\ window = "opening")
  /\ resizes < MaxResizes /\ resizes' = resizes + 1
  /\ \E v \in Sizes \ {view} :
       /\ view' = v
       /\ sent' = IF window = "open" THEN Append(sent, [kind |-> "resize", rows |-> v])
                                     ELSE sent
  /\ unsaid' = (window # "open")
  /\ UNCHANGED <<window, answered, host, program, windows, fails, owed, touched, gaveUp>>

handleTerminalOpened ==
  /\ window = "opening" /\ answered
  /\ window' = "open" /\ answered' = FALSE
  /\ UNCHANGED <<view, sent, host, program, bounds, history>>

(* The window or its connection ends; the session is kept.                  *)
disconnect ==
  /\ window # "none"
  /\ window' = "none" /\ sent' = <<>> /\ answered' = FALSE
  /\ UNCHANGED <<view, host, program, bounds, history>>

-----------------------------------------------------------------------------
(* handle_open: a new session has the size that was asked for, one that was *)
(* there keeps its size.                                                    *)
reopened_if_resized == IF rows # pty THEN Phase("temp") ELSE Idle
reopened == Phase("temp")

handle_open ==
  /\ sent # <<>> /\ Head(sent).kind = "open"
  /\ sent' = Tail(sent) /\ answered' = TRUE
  /\ IF rows = 0
     THEN /\ rows' = Head(sent).rows /\ pty' = Head(sent).rows /\ app' = Head(sent).rows
          /\ UNCHANGED <<phase, owed, touched>>
     ELSE /\ phase' = reopened /\ owed' = TRUE /\ touched' = FALSE
          /\ UNCHANGED <<rows, pty, app>>
  /\ UNCHANGED <<window, view, signal, bounds, gaveUp, unsaid>>

(* handle_resize: the session keeps the size, and the phase of the redraw   *)
(* stays as it is.                                                          *)
resized_rows_forgotten(m) == rows
resized_rows(m) == m.rows

handle_resize ==
  /\ sent # <<>> /\ Head(sent).kind = "resize"
  /\ sent' = Tail(sent) /\ rows' = resized_rows(Head(sent)) /\ touched' = TRUE
  /\ \E ok \in BOOLEAN :
       Tried(Head(sent).rows, ok) /\ gaveUp' = ~ok /\ owed' = (owed /\ ok)
  /\ UNCHANGED <<client, phase, app, windows, resizes, unsaid>>

(* The size of the first phase: one row less, or more if there are few.     *)
temp_rows == IF rows > 2 THEN rows - 1 ELSE rows + 1

(* The phase after a resize in phase k that succeeded.                      *)
advance_once(k) == Idle
advance(k) == IF k = "temp" THEN Phase("restore") ELSE Idle

(* A round of read_outputs for a connection that is there.                  *)
read_outputs ==
  /\ window # "none" /\ rows # 0 /\ ~signal /\ phase.kind # "idle"
  /\ IF phase.retries = 0
     THEN /\ phase' = Idle /\ gaveUp' = TRUE /\ owed' = FALSE
          /\ UNCHANGED <<pty, signal, fails>>
     ELSE \E ok \in BOOLEAN :
            /\ Tried(IF phase.kind = "temp" THEN temp_rows ELSE rows, ok)
            /\ phase' = IF ok THEN advance(phase.kind)
                        ELSE [phase EXCEPT !.retries = @ - 1]
            /\ gaveUp' = (gaveUp /\ ~(ok /\ phase.kind = "restore"))
            /\ UNCHANGED owed
  /\ UNCHANGED <<client, sent, rows, app, windows, resizes, touched, unsaid>>

(* The program reads the size, and redraws if it is not the one it had.     *)
redraw ==
  /\ signal /\ signal' = FALSE
  /\ app' = pty /\ owed' = (owed /\ app = pty)
  /\ UNCHANGED <<client, sent, host, bounds, touched, gaveUp, unsaid>>

Next ==
  \/ openTerminal \/ onResize \/ handleTerminalOpened \/ disconnect
  \/ handle_open \/ handle_resize \/ read_outputs \/ redraw

Spec ==
  /\ Init /\ [][Next]_vars
  /\ WF_vars(handleTerminalOpened) /\ WF_vars(handle_open) /\ WF_vars(handle_resize)
  /\ WF_vars(read_outputs) /\ WF_vars(redraw)

-----------------------------------------------------------------------------
Message == [kind : {"open", "resize"}, rows : Sizes]

(* The state has its type, and a phase in progress is one of a session.     *)
TypeOK ==
  /\ window \in {"none", "opening", "open"} /\ view \in Sizes
  /\ sent \in Seq(Message) /\ answered \in BOOLEAN
  /\ rows \in Sizes \cup {0} /\ pty \in Nat /\ app \in Nat /\ signal \in BOOLEAN
  /\ phase \in [kind : {"idle", "temp", "restore"}, retries : 0 .. Attempts]
  /\ phase.kind # "idle" => rows # 0
  /\ windows \in 0 .. MaxWindows /\ resizes \in 0 .. MaxResizes /\ fails \in 0 .. MaxFails
  /\ {owed, touched, gaveUp, unsaid} \subseteq BOOLEAN

(* Nothing is on its way and no redraw is in progress.                      *)
Quiet == window = "open" /\ sent = <<>> /\ phase.kind = "idle" /\ ~signal

(* SizeRestored.  When the redraw is over, the pty has the size of the      *)
(* session and the program drew at it, whatever resizes of the client, lost *)
(* connections and failures came between the two phases; unless a phase was *)
(* given up or a resize failed for good (read_outputs, handle_resize).      *)
SizeRestored == Quiet => gaveUp \/ (pty = rows /\ app = pty)

(* SizeTold.  A terminal at rest has the size of the view, unless the view  *)
(* got its size when the host was not told of it.                           *)
SizeTold == Quiet => gaveUp \/ unsaid \/ pty = view

(* RedrawnAlone.  After a client came back to a program, the program redraws*)
(* at least once (SigwinchPhase), also when an earlier client left between  *)
(* the phases, unless the phase is given up, a resize of the client comes   *)
(* in between, or the client leaves again.                                  *)
RedrawnAlone == owed ~> (~owed \/ touched \/ window = "none")

(* Redrawn.  What the comment in handle_resize says: a resize of the client *)
(* does not affect the redraw.                                              *)
Redrawn == owed ~> (~owed \/ window = "none")

(* SizesAgree.  What the comments say of the size: the client notifies the  *)
(* host of a resize, and the last phase restores the correct dimensions.    *)
SizesAgree == Quiet => gaveUp \/ pty = view
=============================================================================
