--------------------------- MODULE TerminalService ---------------------------
(***************************************************************************)
(* Remote terminals: src/src/server/terminal_service.rs, how a Connection  *)
(* uses it (src/src/server/connection.rs), and the client's tabs           *)
(* (src/flutter/lib/models/terminal_model.dart, terminal_tab_page.dart).   *)
(*                                                                         *)
(* The terminals of a client live in a PersistentTerminalService, found by *)
(* the service id that the client keeps, which outlives a connection: until*)
(* the end of the connection if sessions are not to be kept, else for good.*)
(* A reader thread per terminal puts the output of the shell into a bounded*)
(* channel; the thread of every connection (loop) empties the channels,    *)
(* copies the output for a later reconnection, and sends it.               *)
(*                                                                         *)
(* A chunk of output is <<shell, n>>.  How much of the copied output is    *)
(* replayed is in module OutputBuffer; the resizing that makes a program   *)
(* redraw is in module TerminalRedraw.                                     *)
(***************************************************************************)
EXTENDS Naturals, SequencesExt

CONSTANTS
  Terminals,    (* the ids of terminals that a client uses, 1 and up           *)
  MaxShells,    (* bound: shells started                                       *)
  MaxOut,       (* bound: chunks a shell prints                                *)
  Channel,      (* CHANNEL_BUFFER_SIZE                                         *)
  MaxConns,     (* bound: connections, one after the other                     *)
  Lingers,      (* the end of a connection may come after the next login       *)
  Idles,        (* nobody may type anything for an hour                        *)
  Reconnects    (* the window may stay and connect again                       *)

(* Assumed of the constants by every module that gives them values. *)
TerminalServiceAssumption ==
  /\ Terminals \subseteq Nat \ {0}
  /\ MaxShells \in Nat /\ MaxOut \in Nat /\ Channel \in Nat /\ MaxConns \in Nat
  /\ Lingers \in BOOLEAN /\ Idles \in BOOLEAN /\ Reconnects \in BOOLEAN

Conns == 1 .. MaxConns
Shells == 1 .. MaxShells
Chunks == Shells \X (1 .. MaxOut)

VARIABLES
  svc,        (* the entry of TERMINAL_SERVICES: there, is_persistent,
                 needs_session_sync                                            *)
  sessions,   (* its sessions: the shell of a terminal id, 0 if there is none  *)
  shell,      (* TerminalSession of a shell: what its channel (chan) and
                 output_buffer (buf) hold, what of it waits (pending), its state,
                 whether its reader thread runs (alive) and closed_message_sent*)
  shells,     (* shells started                                                *)
  conn,       (* a connection: "none", "on", "lost" (the link is broken, it does
                 not know), "ending" (in its Drop), "gone"                     *)
  loop,       (* its thread: where it is, is_persistent of its proxy, the
                 sessions it has still to read, closed_terminals, responses    *)
  tx,         (* what the thread has sent to the connection                    *)
  cur,        (* the connection of the client                                  *)
  persistent, (* the client's option "Keep terminal sessions on disconnect"    *)
  tab,        (* a tab of the client: "none", "opening", "open" (_terminalOpened)
                 or "ended"                                                    *)
  next,       (* _nextTerminalId of the window                                 *)
  got,        (* history: the chunks a tab was given since it was opened       *)
  reused,     (* history: tabs that were open when their link broke            *)
  late,       (* history: tabs opened after the end of their program was told  *)
  astray      (* history: tabs whose session took their id while a round was
                 about to read it under another one                            *)

server == <<svc, sessions, shell, shells>>
client == <<cur, persistent, tab, next, got, reused, late, astray>>
vars == <<server, conn, loop, tx, client>>

NoShell == [chan |-> <<>>, buf |-> <<>>, pending |-> <<>>, state |-> "closed",
            alive |-> FALSE, printed |-> 0, dropped |-> {}, told |-> TRUE]
Resting(pc) == [pc |-> pc, persistent |-> FALSE, todo |-> {}, closed |-> {}, resp |-> <<>>]
NoService == [there |-> FALSE, persistent |-> FALSE, sync |-> FALSE]

TypeOK ==
  /\ svc \in [there : BOOLEAN, persistent : BOOLEAN, sync : BOOLEAN]
  /\ sessions \in [Terminals -> 0 .. MaxShells]
  /\ \A s \in Shells :
       /\ shell[s].state \in {"closed", "active"}
       /\ Len(shell[s].chan) <= Channel
       (* a session that has been stopped stays so *)
       /\ shell[s].state = "active" => \E t \in Terminals : sessions[t] = s
  /\ shells \in 0 .. MaxShells
  /\ conn \in [Conns -> {"none", "on", "lost", "ending", "gone"}]
  /\ \A c \in Conns : loop[c].pc \in {"start", "head", "read", "done"}
  /\ cur \in 0 .. MaxConns
  /\ persistent \in BOOLEAN
  /\ tab \in [Terminals -> {"none", "opening", "open", "ended"}]
  (* no two terminals have one shell *)
  /\ \A t, u \in Terminals : t # u /\ sessions[t] # 0 => sessions[t] # sessions[u]

-----------------------------------------------------------------------------
(* Sessions and the service *)

Responses(t, chunks) == IF chunks = <<>> THEN <<>> ELSE <<[kind |-> "data", t |-> t, chunks |-> chunks]>>
Closed(t) == [kind |-> "closed", t |-> t, chunks |-> <<>>]

Held == {sessions[t] : t \in Terminals} \ {0}

(* TerminalSession::stop, of all shells in S: both threads are joined *)
stopped(S) ==
  [s \in Shells |->
     IF s \in S
     THEN [shell[s] EXCEPT !.state = "closed", !.alive = FALSE, !.told = TRUE,
                           !.chan = <<>>, !.pending = <<>>]
     ELSE shell[s]]

remove_service ==
  /\ svc' = NoService
  /\ sessions' = [t \in Terminals |-> 0]
  /\ shell' = stopped(Held)

(* get_or_create_service, with reset_status: what is there is closed, until
   the client opens it *)
get_or_create_service(p) ==
  /\ svc' = [there |-> TRUE, persistent |-> p, sync |-> TRUE]
  /\ shell' = [s \in Shells |->
                 IF s \in Held THEN [shell[s] EXCEPT !.state = "closed", !.pending = <<>>]
                               ELSE shell[s]]
  /\ UNCHANGED sessions

(* The surviving session with the lowest id takes the id the client asks for,
   on the first request after a reconnection. *)
remapped(t) ==
  IF sessions[t] = 0 /\ svc.sync /\ Held # {}
  THEN LET lowest == CHOOSE u \in Terminals :
                       sessions[u] # 0 /\ \A v \in Terminals : sessions[v] # 0 => u <= v
       IN [sessions EXCEPT ![t] = sessions[lowest], ![lowest] = 0]
  ELSE sessions

(* cleanup_inactive_services, of a service without actions for an hour (two
   hours if it is persistent): output is not an action *)
cleanup_inactive_services ==
  /\ Idles /\ svc.there
  /\ ~svc.persistent \/ Held = {}
  /\ remove_service
  /\ UNCHANGED <<shells, conn, loop, tx, client>>

-----------------------------------------------------------------------------
(* The shells and their reader threads *)

(* Mutant: the channel has no end. *)
prints_for_ever(s) ==
  /\ shell[s].alive /\ shell[s].printed < MaxOut
  /\ LET n == shell[s].printed + 1
     IN shell' = [shell EXCEPT ![s].printed = n, ![s].chan = Append(@, <<s, n>>)]
  /\ UNCHANGED <<svc, sessions, shells, conn, loop, tx, client>>

(* try_send_output: what does not fit into the channel is dropped *)
prints(s) ==
  /\ shell[s].alive /\ shell[s].printed < MaxOut
  /\ LET n == shell[s].printed + 1
     IN shell' = [shell EXCEPT
                    ![s].printed = n,
                    ![s].chan = IF Len(@) < Channel THEN Append(@, <<s, n>>) ELSE @,
                    ![s].dropped = IF Len(shell[s].chan) < Channel THEN @ ELSE @ \cup {n}]
  /\ UNCHANGED <<svc, sessions, shells, conn, loop, tx, client>>

(* the program exits: the reader thread finishes *)
exits(s) ==
  /\ shell[s].alive
  /\ shell' = [shell EXCEPT ![s].alive = FALSE]
  /\ UNCHANGED <<svc, sessions, shells, conn, loop, tx, client>>

-----------------------------------------------------------------------------
(* The thread of a connection: run *)

(* while sp.ok(): a round begins, with the sessions that are there now *)
begin_round(c) ==
  /\ loop[c].pc \in {"start", "head"} /\ conn[c] \in {"on", "lost"}
  /\ loop' = [loop EXCEPT ![c] =
       [Resting("read") EXCEPT !.persistent = svc.persistent,
                               !.todo = {<<t, sessions[t]>> : t \in {u \in Terminals : sessions[u] # 0}}]]
  /\ UNCHANGED <<server, conn, tx, client>>

(* Mutant: the replay comes after what is new. *)
read_outputs_swapped(c, t, s) ==
  LET sh == shell[s]
      told == ~sh.alive /\ ~sh.told
  IN /\ loop[c].pc = "read" /\ <<t, s>> \in loop[c].todo
     /\ shell' = [shell EXCEPT ![s].told = @ \/ told, ![s].chan = <<>>,
                               ![s].buf = @ \o sh.chan, ![s].pending = <<>>]
     /\ loop' = [loop EXCEPT ![c].todo = @ \ {<<t, s>>},
                             ![c].closed = IF told THEN @ \cup {t} ELSE @,
                             ![c].resp = IF sh.state = "active"
                                         THEN @ \o Responses(t, sh.chan \o sh.pending) ELSE @]
     /\ UNCHANGED <<svc, sessions, shells, conn, tx, client>>

(* read_outputs, of one session: its end is told once; its channel is emptied
   into the output buffer; if it is active, what is to be replayed is sent,
   and then what is new. *)
read_outputs(c, t, s) ==
  LET sh == shell[s]
      told == ~sh.alive /\ ~sh.told
  IN /\ loop[c].pc = "read" /\ <<t, s>> \in loop[c].todo
     /\ shell' = [shell EXCEPT ![s].told = @ \/ told, ![s].chan = <<>>,
                               ![s].buf = @ \o sh.chan, ![s].pending = <<>>]
     /\ loop' = [loop EXCEPT ![c].todo = @ \ {<<t, s>>},
                             ![c].closed = IF told THEN @ \cup {t} ELSE @,
                             ![c].resp = IF sh.state = "active"
                                         THEN @ \o Responses(t, sh.pending \o sh.chan) ELSE @]
     /\ UNCHANGED <<svc, sessions, shells, conn, tx, client>>

(* Mutant: of a session that is kept nothing is said. *)
end_round_silent(c) ==
  LET ended == IF loop[c].persistent THEN {} ELSE loop[c].closed IN
  /\ loop[c].pc = "read" /\ loop[c].todo = {}
  /\ sessions' = [t \in Terminals |-> IF t \in ended THEN 0 ELSE sessions[t]]
  /\ shell' = stopped({sessions[t] : t \in ended} \ {0})
  /\ tx' = [tx EXCEPT ![c] = @ \o loop[c].resp \o SetToSeq({Closed(t) : t \in ended})]
  /\ loop' = [loop EXCEPT ![c] = Resting("head")]
  /\ UNCHANGED <<svc, shells, conn, client>>

(* the end of read_outputs: terminals that have ended are forgotten unless
   sessions are kept, and everything is sent *)
end_round(c) ==
  LET ended == loop[c].closed IN
  /\ loop[c].pc = "read" /\ loop[c].todo = {}
  /\ IF loop[c].persistent
     THEN UNCHANGED <<sessions, shell>>
     ELSE /\ sessions' = [t \in Terminals |-> IF t \in ended THEN 0 ELSE sessions[t]]
          /\ shell' = stopped({sessions[t] : t \in ended} \ {0})
  /\ tx' = [tx EXCEPT ![c] = @ \o loop[c].resp \o SetToSeq({Closed(t) : t \in ended})]
  /\ loop' = [loop EXCEPT ![c] = Resting("head")]
  /\ UNCHANGED <<svc, shells, conn, client>>

(* the loop exits, once the service is told to end *)
run_exits(c) ==
  /\ loop[c].pc = "head" /\ conn[c] = "ending"
  /\ loop' = [loop EXCEPT ![c] = Resting("done")]
  /\ IF svc.there /\ ~svc.persistent THEN remove_service ELSE UNCHANGED <<svc, sessions, shell>>
  /\ UNCHANGED <<shells, conn, tx, client>>

(* a thread that had not got to its callback has nothing to clean up *)
never_ran(c) ==
  /\ loop[c].pc = "start" /\ conn[c] = "ending"
  /\ loop' = [loop EXCEPT ![c] = Resting("done")]
  /\ UNCHANGED <<server, conn, tx, client>>

-----------------------------------------------------------------------------
(* The connection *)

(* a login: init_terminal_service.  The window was opened, or stayed. *)
init_terminal_service ==
  /\ cur < MaxConns
  /\ cur > 0 => conn[cur] = "gone" \/ (Lingers /\ conn[cur] # "on")
  /\ cur' = cur + 1
  /\ conn' = [conn EXCEPT ![cur + 1] = "on"]
  /\ loop' = [loop EXCEPT ![cur + 1] = Resting("start")]
  /\ get_or_create_service(persistent)
  (* onReady: terminals that the client does not take for open are opened *)
  /\ tab' = [t \in Terminals |-> IF tab[t] = "ended" THEN "opening" ELSE tab[t]]
  /\ UNCHANGED <<shells, tx, persistent, next, got, reused, late, astray>>

(* Connection::drop joins the thread *)
joined(c) ==
  /\ conn[c] = "ending" /\ loop[c].pc = "done"
  /\ conn' = [conn EXCEPT ![c] = "gone"]
  /\ tx' = [tx EXCEPT ![c] = <<>>]
  /\ UNCHANGED <<server, loop, client>>

On == cur > 0 /\ conn[cur] = "on"

(* What the thread has sent reaches the client.  A tab shows the data, or
   that its terminal has ended. *)
forward ==
  /\ On /\ tx[cur] # <<>>
  /\ LET m == Head(tx[cur]) IN
       /\ tx' = [tx EXCEPT ![cur] = Tail(@)]
       /\ IF tab[m.t] = "none"
          THEN UNCHANGED <<tab, got>>
          ELSE /\ tab' = IF m.kind = "closed" /\ tab[m.t] = "open"
                         THEN [tab EXCEPT ![m.t] = "ended"] ELSE tab
               /\ got' = [got EXCEPT ![m.t] = @ \o m.chunks]
  /\ UNCHANGED <<server, conn, loop, cur, persistent, next, reused, late, astray>>

(* the broken link is noticed *)
notice(c) ==
  /\ conn[c] = "lost"
  /\ conn' = [conn EXCEPT ![c] = "ending"]
  /\ UNCHANGED <<server, loop, tx, client>>

-----------------------------------------------------------------------------
(* The client, and what the connection does about its requests *)

(* Mutant: the session is not streamed again. *)
reconnected_silent(t, ss) ==
  /\ shell' = [shell EXCEPT ![ss[t]].pending = shell[ss[t]].buf]
  /\ sessions' = ss

(* handle_open, of a terminal that is there *)
reconnected(t, ss) ==
  /\ shell' = [shell EXCEPT ![ss[t]].state = "active", ![ss[t]].pending = shell[ss[t]].buf]
  /\ sessions' = ss

(* handle_open, of a new one: a shell is started *)
started(t) ==
  /\ shell' = [shell EXCEPT ![shells + 1] =
                 [NoShell EXCEPT !.state = "active", !.alive = TRUE, !.told = FALSE]]
  /\ sessions' = [sessions EXCEPT ![t] = shells + 1]

(* A tab that was added is opened: handle_open.  With the first answer after
   a login the client learns of the other sessions, and adds tabs for them. *)
handle_open(t) ==
  LET ss == remapped(t)
      others == IF svc.sync THEN {u \in Terminals \ {t} : ss[u] # 0} ELSE {}
  IN /\ On /\ tab[t] = "opening" /\ svc.there
     /\ \A u \in Terminals : u < t => tab[u] # "opening"
     /\ \/ ss[t] # 0 /\ reconnected(t, ss) /\ UNCHANGED shells
        \/ ss[t] = 0 /\ shells < MaxShells /\ started(t) /\ shells' = shells + 1
     /\ svc' = [svc EXCEPT !.sync = FALSE]
     /\ tab' = [u \in Terminals |->
                  IF u = t THEN "open"
                  ELSE IF u \in others /\ tab[u] = "none" THEN "opening" ELSE tab[u]]
     /\ next' = Max({next} \cup {u + 1 : u \in others})
     /\ got' = [got EXCEPT ![t] = <<>>]
     /\ reused' = reused \ {t}
     /\ late' = IF ss[t] # 0 /\ shell[ss[t]].told THEN late \cup {t} ELSE late \ {t}
     /\ astray' = IF ss # sessions /\ \E c \in Conns, u \in Terminals : <<u, ss[t]>> \in loop[c].todo
                  THEN astray \cup {t} ELSE astray \ {t}
     /\ UNCHANGED <<conn, loop, tx, cur, persistent>>

(* _addNewTerminal: ids go up while the window is there *)
add_tab(t) ==
  /\ On /\ t = next
  /\ next' = next + 1
  /\ tab' = [tab EXCEPT ![t] = "opening"]
  /\ got' = [got EXCEPT ![t] = <<>>]
  /\ UNCHANGED <<server, conn, loop, tx, cur, persistent, reused, late, astray>>

(* handle_close, and the tab that goes with it; not if it is the last and
   sessions are kept *)
handle_close(t) ==
  /\ On /\ tab[t] \in {"open", "ended"}
  /\ \E u \in Terminals \ {t} : tab[u] # "none"
  /\ tab' = [tab EXCEPT ![t] = "none"]
  /\ IF tab[t] = "open" /\ svc.there
     THEN /\ sessions' = [sessions EXCEPT ![t] = 0]
          /\ shell' = stopped({sessions[t]} \ {0})
     ELSE UNCHANGED <<sessions, shell>>
  /\ UNCHANGED <<svc, shells, conn, loop, tx, cur, persistent, next, got, reused, late, astray>>

(* the last tab, or the window, is closed, and the connection with it *)
close_window ==
  /\ On
  /\ tab' = [t \in Terminals |-> "none"]
  /\ next' = 1
  /\ got' = [t \in Terminals |-> <<>>]
  /\ reused' = {}
  /\ LET open == {t \in Terminals : tab[t] = "open"} IN
       IF persistent
       THEN UNCHANGED <<sessions, shell>>
       ELSE /\ sessions' = [t \in Terminals |-> IF t \in open THEN 0 ELSE sessions[t]]
            /\ shell' = stopped({sessions[t] : t \in open} \ {0})
  /\ conn' = [conn EXCEPT ![cur] = "ending"]
  /\ UNCHANGED <<svc, shells, loop, tx, cur, persistent, late, astray>>

(* update_terminal_persistence, asked for by the client *)
update_terminal_persistence ==
  /\ On
  /\ persistent' = ~persistent
  /\ svc' = IF svc.there THEN [svc EXCEPT !.persistent = ~persistent] ELSE svc
  /\ UNCHANGED <<sessions, shell, shells, conn, loop, tx, cur, tab, next, got, reused, late, astray>>

(* The link breaks.  The client's window will connect again, or is closed by
   its user; the controlled side notices at once or not. *)
link_breaks ==
  /\ On
  /\ \/ conn' = [conn EXCEPT ![cur] = "ending"]
     \/ Lingers /\ conn' = [conn EXCEPT ![cur] = "lost"]
  /\ \/ /\ Reconnects
        /\ reused' = reused \cup {t \in Terminals : tab[t] = "open"}
        /\ UNCHANGED <<tab, next, got>>
     \/ /\ tab' = [t \in Terminals |-> "none"]
        /\ next' = 1
        /\ got' = [t \in Terminals |-> <<>>]
        /\ reused' = {}
  /\ UNCHANGED <<server, loop, tx, cur, persistent, late, astray>>

-----------------------------------------------------------------------------
Init ==
  /\ svc = NoService
  /\ sessions = [t \in Terminals |-> 0]
  /\ shell = [s \in Shells |-> NoShell]
  /\ shells = 0
  /\ conn = [c \in Conns |-> "none"]
  /\ loop = [c \in Conns |-> Resting("done")]
  /\ tx = [c \in Conns |-> <<>>]
  /\ cur = 0
  /\ persistent \in BOOLEAN
  /\ tab = [t \in Terminals |-> "none"] /\ next = 1
  /\ got = [t \in Terminals |-> <<>>]
  /\ reused = {} /\ late = {} /\ astray = {}

Thread(c) ==
  \/ begin_round(c)
  \/ \E t \in Terminals, s \in Shells : read_outputs(c, t, s)
  \/ end_round(c)
  \/ run_exits(c)
  \/ never_ran(c)

Next ==
  \/ cleanup_inactive_services
  \/ \E s \in Shells : prints(s) \/ exits(s)
  \/ \E c \in Conns : Thread(c) \/ joined(c) \/ notice(c)
  \/ init_terminal_service
  \/ forward
  \/ \E t \in Terminals : handle_open(t) \/ add_tab(t) \/ handle_close(t)
  \/ close_window
  \/ update_terminal_persistence
  \/ link_breaks

Spec == Init /\ [][Next]_vars

-----------------------------------------------------------------------------
(* Properties *)

(* What a tab shows has no gap, nothing twice and nothing of another terminal:
   the replay goes over into what is new, and only what the channel had no room
   for is missing. *)
ReplayIsContiguous ==
  \A t \in Terminals \ astray : \A i \in 1 .. Len(got[t]) - 1 :
    LET a == got[t][i] b == got[t][i + 1] IN
    /\ a[1] = b[1]
    /\ a[2] < b[2]
    /\ (a[2] + 1) .. (b[2] - 1) \subseteq shell[a[1]].dropped

ClosedComes(t) ==
  \/ \E i \in DOMAIN tx[cur] : tx[cur][i] = Closed(t)
  \/ t \in loop[cur].closed

(* A terminal that its tab takes for open is streamed to it, or the end of it
   is on its way. *)
OpenTabIsLive ==
  On => \A t \in Terminals :
    tab[t] = "open" =>
      \/ svc.there /\ sessions[t] # 0 /\ shell[sessions[t]].state = "active"
      \/ ClosedComes(t)

(* When the program of an open tab has exited, the tab is told: the end is
   not counted as told before it is on its way to this connection.  Excepted
   is a tab that was opened when the end had been told already. *)
EndIsTold ==
  On => \A t \in Terminals :
    tab[t] = "open" /\ t \notin reused \cup late \cup astray /\ sessions[t] # 0 =>
      ~shell[sessions[t]].told \/ ClosedComes(t)

(* closed_message_sent is "Track if we've already sent the closed message":
   a client that has a terminal open whose program has exited is told, also if
   it came later. *)
EveryEndIsTold ==
  On => \A t \in Terminals :
    tab[t] = "open" /\ t \notin reused \cup astray /\ sessions[t] # 0 =>
      ~shell[sessions[t]].told \/ ClosedComes(t)

=============================================================================
