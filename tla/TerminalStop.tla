---------------------------- MODULE TerminalStop ----------------------------
(***************************************************************************)
(* How a remote terminal ends (src/src/server/terminal_service.rs, on      *)
(* Linux): TerminalSession::stop joins the thread that reads the pty and   *)
(* the one that writes it, which may both be blocked in the kernel, while  *)
(* its caller holds up to three mutexes: TERMINAL_SERVICES, which every    *)
(* terminal of the host needs, the service's and the session's. Callers    *)
(* are the task of a connection (handle_close), the thread of a connection *)
(* (the last reference to a session, or remove_service at its end) and the *)
(* cleanup task. Input is sent to the writer with the session locked and   *)
(* waits where its channel is full.                                        *)
(*                                                                         *)
(* One service, not persistent, with one terminal; a service of the same   *)
(* id that is made after it was removed is another one. What is read and   *)
(* written is counted.                                                     *)
(***************************************************************************)
EXTENDS Naturals, FiniteSets

CONSTANTS
  Tasks,        (* tasks of connections                                     *)
  Channel,      (* CHANNEL_BUFFER_SIZE                                      *)
  PtyBuffer,    (* what the kernel keeps of the input of a pty              *)
  Echo,         (* the pty echoes its input                                 *)
  Reads,        (* the program reads its input, and ends with it            *)
  MaxOps        (* bound: calls of the tasks                                *)

(* Assumed of the constants by every module that gives them values. *)
TerminalStopAssumption ==
  /\ {Channel, PtyBuffer, MaxOps} \subseteq Nat /\ PtyBuffer > 0
  /\ {Echo, Reads} \subseteq BOOLEAN
  /\ {"loop", "cleaner", "free"} \cap Tasks = {}

Procs == Tasks \cup {"loop", "cleaner"}

VARIABLES
  TERMINAL_SERVICES, service, session,   (* mutexes: who holds them         *)
  registered,   (* the service is in TERMINAL_SERVICES                      *)
  listed,       (* the session is in the service's sessions                 *)
  refs,         (* who has a reference of its own to the session            *)
  pc,           (* what a process is about to do                            *)
  input_tx, chan,          (* the writer's channel                          *)
  pty_pair, exiting,
  child,        (* of the session: "some", or taken                         *)
  program,      (* "runs" or "ended"                                        *)
  writer, reader,          (* the two threads                               *)
  input, eof, output,      (* in the kernel                                 *)
  closed_message_sent,
  ops           (* bound                                                    *)

locks == <<TERMINAL_SERVICES, service, session>>
maps == <<registered, listed, refs>>
fields == <<input_tx, pty_pair, exiting, child, closed_message_sent>>
pty == <<chan, program, writer, reader, input, eof, output>>
vars == <<locks, maps, pc, fields, pty, ops>>

Init ==
  /\ TERMINAL_SERVICES = "free" /\ service = "free" /\ session = "free"
  /\ registered = TRUE /\ listed = TRUE /\ refs = {}
  /\ pc = [p \in Procs |-> "idle"]
  /\ input_tx = "some" /\ chan = 0
  /\ pty_pair = "some" /\ exiting = FALSE /\ child = "some" /\ closed_message_sent = FALSE
  /\ program = "runs" /\ writer = "recv" /\ reader = "read"
  /\ input = 0 /\ eof = FALSE /\ output = FALSE
  /\ ops = 0

Goto(p, place) == pc' = [pc EXCEPT ![p] = place]

(* What p holds is released; what others hold is not.                       *)
Released(lock, p) == IF lock = p THEN "free" ELSE lock

Return(p) ==
  /\ TERMINAL_SERVICES' = Released(TERMINAL_SERVICES, p)
  /\ service' = Released(service, p)
  /\ session' = Released(session, p)
  /\ Goto(p, "idle")

(* p's reference ends; if it was the last one the session is dropped, which *)
(* stops it.                                                                *)
Dropped(p) ==
  /\ refs' = refs \ {p}
  /\ IF refs' = {} /\ ~listed'
     THEN /\ Goto(p, "stop") /\ session' = Released(session, p)
          /\ UNCHANGED <<TERMINAL_SERVICES, service>>
     ELSE Return(p)

-----------------------------------------------------------------------------
(* handle_action: get_service, and the service is locked for a moment.      *)

get_service(p, place) ==
  /\ TERMINAL_SERVICES = "free"
  /\ Goto(p, IF registered THEN place ELSE "idle")
  /\ UNCHANGED <<locks, maps, fields, pty>>

begin ==
  \E p \in Tasks :
    /\ pc[p] = "idle" /\ ops < MaxOps
    /\ ops' = ops + 1
    /\ \/ get_service(p, "data")
       \/ get_service(p, "close")
       \/ /\ Goto(p, "reopen")
          /\ UNCHANGED <<locks, maps, fields, pty>>

(* handle_data                                                              *)
find_session(p) ==
  /\ pc[p] = "data" /\ service = "free"
  /\ IF listed THEN refs' = refs \cup {p} /\ Goto(p, "lock") ELSE UNCHANGED refs /\ Goto(p, "idle")
  /\ UNCHANGED <<locks, registered, listed, fields, pty, ops>>

lock_session(p) ==
  /\ pc[p] = "lock" /\ session = "free"
  /\ session' = p /\ Goto(p, "send")
  /\ UNCHANGED <<TERMINAL_SERVICES, service, maps, fields, pty, ops>>

(* Mutant: a channel without a bound.                                       *)
Sendable_always == chan < Channel + 1

(* To a thread that is gone a send fails at once.                           *)
Sendable == chan < Channel \/ writer = "gone"
Sent == IF writer = "gone" THEN chan ELSE chan + 1

send_data(p) ==
  /\ pc[p] = "send"
  /\ IF input_tx = "some" THEN Sendable /\ chan' = Sent ELSE UNCHANGED chan
  /\ UNCHANGED <<registered, listed, fields, program, writer, reader, input, eof, output, ops>>
  /\ Dropped(p)

(* handle_close: the service stays locked to the end.                       *)
close_session(p) ==
  /\ pc[p] = "close" /\ service = "free"
  /\ IF listed
     THEN /\ service' = p /\ listed' = FALSE /\ refs' = refs \cup {p}
          /\ Goto(p, "kill")
     ELSE UNCHANGED <<service, listed, refs>> /\ Goto(p, "idle")
  /\ UNCHANGED <<TERMINAL_SERVICES, session, registered, fields, pty, ops>>

kill_child(p) ==
  /\ pc[p] = "kill" /\ session = "free"
  /\ child' = "taken"
  /\ program' = IF child = "some" THEN "ended" ELSE program
  /\ UNCHANGED <<registered, listed, input_tx, pty_pair, exiting, closed_message_sent, chan,
                 writer, reader, input, eof, output, ops>>
  /\ Dropped(p)

(* A new connection: get_or_create_service, whose reset_status locks the     *)
(* sessions, and then handle_open.                                          *)
get_or_create_service(p) ==
  \/ /\ pc[p] = "reopen" /\ TERMINAL_SERVICES = "free"
     /\ TERMINAL_SERVICES' = p /\ Goto(p, "reset")
     /\ UNCHANGED <<service, session, maps, fields, pty, ops>>
  \/ /\ pc[p] = "reset" /\ service = "free"
     /\ IF registered
        THEN service' = p /\ Goto(p, "reset!") /\ UNCHANGED <<TERMINAL_SERVICES, session>>
        ELSE Return(p)
     /\ UNCHANGED <<maps, fields, pty, ops>>
  \/ /\ pc[p] = "reset!" /\ (listed => session = "free")
     /\ TERMINAL_SERVICES' = "free" /\ service' = "free" /\ Goto(p, "get")
     /\ UNCHANGED <<session, maps, fields, pty, ops>>

handle_open(p) ==
  \/ /\ pc[p] = "get"
     /\ get_service(p, "open")
     /\ UNCHANGED ops
  \/ /\ pc[p] = "open" /\ service = "free"
     /\ IF listed THEN service' = p /\ Goto(p, "opened") ELSE UNCHANGED service /\ Goto(p, "idle")
     /\ UNCHANGED <<TERMINAL_SERVICES, session, maps, fields, pty, ops>>
  \/ /\ pc[p] = "opened" /\ session = "free"
     /\ Return(p)
     /\ UNCHANGED <<maps, fields, pty, ops>>

-----------------------------------------------------------------------------
(* The thread of a connection, and the cleanup task.                        *)

(* read_outputs skips a session that is locked, and ends one whose reader   *)
(* is gone.                                                                 *)
read_outputs ==
  \/ /\ pc["loop"] = "idle" /\ registered
     /\ get_service("loop", "clone")
     /\ UNCHANGED ops
  \/ /\ pc["loop"] \in {"clone", "ended"} /\ service = "free"
     /\ IF listed
        THEN /\ refs' = refs \cup {"loop"}
             /\ Goto("loop", IF pc["loop"] = "clone" THEN "try" ELSE "unlist")
        ELSE UNCHANGED refs /\ Goto("loop", "idle")
     /\ UNCHANGED <<locks, registered, listed, fields, pty, ops>>
  \/ /\ pc["loop"] = "try"
     /\ UNCHANGED <<registered, listed, input_tx, pty_pair, exiting, child, pty, ops>>
     /\ IF session = "free" /\ reader = "gone" /\ ~closed_message_sent
        THEN /\ closed_message_sent' = TRUE
             /\ IF refs = {"loop"} /\ ~listed
                THEN Dropped("loop")
                ELSE refs' = refs \ {"loop"} /\ Goto("loop", "ended") /\ UNCHANGED locks
        ELSE Dropped("loop") /\ UNCHANGED closed_message_sent
  \/ /\ pc["loop"] = "unlist" /\ service = "free"
     /\ listed' = FALSE /\ Goto("loop", "reap")
     /\ UNCHANGED <<locks, registered, refs, fields, pty, ops>>
  \/ /\ pc["loop"] = "reap" /\ session = "free"
     /\ child' = "taken"
     /\ UNCHANGED <<registered, listed, input_tx, pty_pair, exiting, closed_message_sent, pty, ops>>
     /\ Dropped("loop")

(* The connection has ended: its thread removes the service.                *)
run_ends ==
  /\ pc["loop"] = "idle" /\ registered
  /\ Goto("loop", "remove")
  /\ UNCHANGED <<locks, maps, fields, pty, ops>>

(* Mutant: the lock is kept while the services are removed.                 *)
cleanup_inactive_services_locked ==
  \/ /\ pc["cleaner"] = "idle" /\ registered /\ TERMINAL_SERVICES = "free"
     /\ TERMINAL_SERVICES' = "cleaner" /\ Goto("cleaner", "idle?")
     /\ UNCHANGED <<service, session, maps, fields, pty, ops>>
  \/ /\ pc["cleaner"] = "idle?" /\ service = "free"
     /\ \/ Goto("cleaner", "remove") /\ UNCHANGED TERMINAL_SERVICES
        \/ Goto("cleaner", "idle") /\ TERMINAL_SERVICES' = "free"
     /\ UNCHANGED <<service, session, maps, fields, pty, ops>>

(* An hour of idleness may be over.                                         *)
cleanup_inactive_services ==
  \/ /\ pc["cleaner"] = "idle" /\ registered /\ TERMINAL_SERVICES = "free"
     /\ TERMINAL_SERVICES' = "cleaner" /\ Goto("cleaner", "idle?")
     /\ UNCHANGED <<service, session, maps, fields, pty, ops>>
  \/ /\ pc["cleaner"] = "idle?" /\ service = "free"
     /\ TERMINAL_SERVICES' = "free"
     /\ \E place \in {"remove", "idle"} : Goto("cleaner", place)
     /\ UNCHANGED <<service, session, maps, fields, pty, ops>>

remove_service(p) ==
  \/ /\ pc[p] = "remove" /\ TERMINAL_SERVICES = "free"
     /\ IF registered
        THEN TERMINAL_SERVICES' = p /\ registered' = FALSE /\ Goto(p, "removed")
        ELSE UNCHANGED <<TERMINAL_SERVICES, registered>> /\ Goto(p, "idle")
     /\ UNCHANGED <<service, session, listed, refs, fields, pty, ops>>
  \/ /\ pc[p] = "removed" /\ service = "free"
     /\ IF listed
        THEN refs' = refs \cup {p} /\ Goto(p, "stop!") /\ UNCHANGED locks
        ELSE Return(p) /\ UNCHANGED refs
     /\ UNCHANGED <<registered, listed, fields, pty, ops>>
  \/ /\ pc[p] = "stop!" /\ session = "free"
     /\ session' = p /\ refs' = refs \ {p} /\ Goto(p, "stop")
     /\ UNCHANGED <<TERMINAL_SERVICES, service, registered, listed, fields, pty, ops>>

-----------------------------------------------------------------------------
(* TerminalSession::stop.  A second stop finds everything taken.            *)

(* Mutant: the channel is not dropped, so that the writer waits for more.   *)
final_newline_kept(p) ==
  /\ pc[p] = "newline"
  /\ IF input_tx = "some" THEN Sendable /\ chan' = Sent ELSE UNCHANGED chan
  /\ pty_pair' = "none"
  /\ Goto(p, "join")
  /\ UNCHANGED <<locks, maps, input_tx, exiting, child, closed_message_sent, program, writer, reader,
                 input, eof, output, ops>>

(* The final newline waits for room in the channel like any other input;    *)
(* then the channel and the pty_pair are dropped.                           *)
final_newline(p) ==
  /\ pc[p] = "newline"
  /\ IF input_tx = "some" THEN Sendable /\ chan' = Sent ELSE UNCHANGED chan
  /\ input_tx' = "none" /\ pty_pair' = "none"
  /\ Goto(p, "join")
  /\ UNCHANGED <<locks, maps, exiting, child, closed_message_sent, program, writer, reader, input,
                 eof, output, ops>>

(* Mutant: the program is left to the end of its input.                     *)
join_only(p) ==
  /\ pc[p] = "join" /\ reader = "gone" /\ writer = "gone"
  /\ child' = "taken"
  /\ Return(p)
  /\ UNCHANGED <<maps, input_tx, pty_pair, exiting, closed_message_sent, pty, ops>>

(* The two threads are joined, and the child is killed.                     *)
join(p) ==
  /\ pc[p] = "join" /\ reader = "gone" /\ writer = "gone"
  /\ child' = "taken"
  /\ program' = IF child = "some" THEN "ended" ELSE program
  /\ Return(p)
  /\ UNCHANGED <<maps, input_tx, pty_pair, exiting, closed_message_sent, chan, writer, reader,
                 input, eof, output, ops>>

stop(p) ==
  \/ /\ pc[p] = "stop"
     /\ exiting' = TRUE /\ Goto(p, "newline")
     /\ UNCHANGED <<locks, maps, input_tx, pty_pair, child, closed_message_sent, pty, ops>>
  \/ final_newline(p)
  \/ join(p)

-----------------------------------------------------------------------------
(* The two threads of the session, the pty and the program.                 *)

(* The last slave of the pty is closed: reads and writes of the master fail.*)
HungUp == pty_pair = "none" /\ program = "ended"

(* The end of the writer (UnixMasterWriter) leaves a newline and an end of  *)
(* file in the pty.                                                         *)
writer_thread ==
  \/ /\ writer = "recv" /\ chan > 0
     /\ chan' = chan - 1 /\ writer' = "write"
     /\ UNCHANGED <<locks, maps, pc, fields, program, reader, input, eof, output, ops>>
  \/ /\ writer = "recv" /\ chan = 0 /\ input_tx = "none"
     /\ writer' = "eot"
     /\ UNCHANGED <<locks, maps, pc, fields, chan, program, reader, input, eof, output, ops>>
  \/ /\ writer \in {"write", "eot"} /\ ~HungUp /\ input < PtyBuffer
     /\ input' = input + 1
     /\ output' = (output \/ Echo)
     /\ eof' = (eof \/ writer = "eot")
     /\ writer' = IF writer = "eot" THEN "gone" ELSE "recv"
     /\ UNCHANGED <<locks, maps, pc, fields, chan, program, reader, ops>>
  \/ /\ writer \in {"write", "eot"} /\ HungUp
     /\ writer' = "gone" /\ chan' = 0
     /\ UNCHANGED <<locks, maps, pc, fields, program, reader, input, eof, output, ops>>

(* What a read returns is not sent on when the terminal is exiting, and     *)
(* only then does the reader look.                                          *)
reader_thread ==
  \/ /\ reader = "read" /\ output
     /\ output' = FALSE /\ reader' = "check"
     /\ UNCHANGED <<locks, maps, pc, fields, chan, program, writer, input, eof, ops>>
  \/ /\ reader = "check"
     /\ reader' = IF exiting THEN "gone" ELSE "read"
     /\ UNCHANGED <<locks, maps, pc, fields, chan, program, writer, input, eof, output, ops>>
  \/ /\ reader = "read" /\ ~output /\ HungUp
     /\ reader' = "gone"
     /\ UNCHANGED <<locks, maps, pc, fields, chan, program, writer, input, eof, output, ops>>

(* A program that reads ends with its input.                                *)
program_reads ==
  /\ Reads /\ program = "runs"
  /\ \/ input > 0 /\ input' = input - 1 /\ UNCHANGED program
     \/ input = 0 /\ eof /\ program' = "ended" /\ UNCHANGED input
  /\ UNCHANGED <<locks, maps, pc, fields, chan, writer, reader, eof, output, ops>>

(* Any program may print, or end.                                           *)
program_acts ==
  /\ program = "runs"
  /\ \/ output' = TRUE /\ UNCHANGED program
     \/ program' = "ended" /\ UNCHANGED output
  /\ UNCHANGED <<locks, maps, pc, fields, chan, writer, reader, input, eof, ops>>

-----------------------------------------------------------------------------
(* What a process that has begun does next.                                 *)
Proceeds(p) ==
  \/ p \in Tasks /\ \/ find_session(p) \/ lock_session(p) \/ send_data(p)
                     \/ close_session(p) \/ kill_child(p)
                     \/ get_or_create_service(p) \/ handle_open(p)
  \/ p = "loop" /\ read_outputs
  \/ p = "cleaner" /\ cleanup_inactive_services
  \/ remove_service(p)
  \/ stop(p)

Next ==
  \/ begin
  \/ run_ends
  \/ \E p \in Procs : Proceeds(p)
  \/ writer_thread
  \/ reader_thread
  \/ program_reads
  \/ program_acts

Spec == Init /\ [][Next]_vars

(* A lock that becomes free again and again is obtained: the loop sleeps    *)
(* between its rounds, the cleanup task a minute or more.                   *)
FairSpec ==
  /\ Spec
  /\ \A p \in Procs : SF_vars(Proceeds(p))
  /\ WF_vars(writer_thread) /\ WF_vars(reader_thread) /\ WF_vars(program_reads)

-----------------------------------------------------------------------------
Owners == Procs \cup {"free"}

Places == {"idle", "data", "lock", "send", "close", "kill", "reopen", "reset", "reset!", "get", "open",
           "opened", "clone", "try", "ended", "unlist", "reap", "idle?", "remove", "removed", "stop!",
           "stop", "newline", "join"}

(* The type invariant.                                                      *)
TypeOK ==
  /\ {TERMINAL_SERVICES, service, session} \subseteq Owners
  /\ {registered, listed, exiting, eof, output, closed_message_sent} \subseteq BOOLEAN
  /\ refs \subseteq Procs
  /\ pc \in [Procs -> Places]
  /\ chan \in 0..Channel /\ input \in 0..PtyBuffer
  /\ {input_tx, pty_pair} \subseteq {"some", "none"} /\ child \in {"some", "taken"}
  /\ program \in {"runs", "ended"}
  /\ writer \in {"recv", "write", "eot", "gone"} /\ reader \in {"read", "check", "gone"}
  /\ ops \in 0..MaxOps

Stopping(p) == pc[p] \in {"removed", "stop!", "stop", "newline", "join"}

(* Of a terminal that was closed, or whose service was removed, nothing is  *)
(* left when the last one that used it is done: neither thread and no       *)
(* program, whichever of the four ends came first.                          *)
NothingLeft ==
  (((~registered /\ listed) \/ (~listed /\ refs = {})) /\ ~\E p \in Procs : Stopping(p))
    => writer = "gone" /\ reader = "gone" /\ program = "ended" /\ child = "taken"

(* Nobody waits for ever: every call ends, the joins of a stop among them,  *)
(* with the mutexes its process held.                                       *)
Returns == \A p \in Procs : pc[p] /= "idle" ~> pc[p] = "idle"

(* "Send a final newline to ensure the reader can read some data, and then  *)
(* exit." (terminal_service.rs:647)                                         *)
ReaderExits == exiting ~> reader = "gone"
=============================================================================
