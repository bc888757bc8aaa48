---------------------------- MODULE PeerRequests ----------------------------
(***************************************************************************)
(* What a mediator does first with a request of a peer that its rendezvous *)
(* server forwards (handle_punch_hole, handle_intranet and                 *)
(* handle_request_relay of src/src/rendezvous_mediator.rs): each is a task *)
(* of its own, reads the address of the last request and writes its own,   *)
(* under two acquisitions of one lock, and is skipped when the two are the *)
(* same.  A request may arrive twice; everything here happens within the   *)
(* 100 ms in which the second one counts as a duplicate.                   *)
(***************************************************************************)
EXTENDS Naturals, Sequences, SequencesExt

CONSTANTS
  Peers,        (* the peers, one request and so one address each           *)
  NoAddr        (* no request of the last 100 ms                            *)

(* Assumed of the constants by every module that gives them values. *)
PeerRequestsAssumption == NoAddr \notin Peers

Tasks == Peers \X {1, 2}
Addr(t) == t[1]
Twin(t) == <<t[1], 3 - t[2]>>

VARIABLES
  LAST_MSG,
  pc,           (* "net", "read", "written", "skipped", "handled"           *)
  last,         (* what each task has read                                  *)
  log           (* history: the reads and writes, in order                  *)

vars == <<LAST_MSG, pc, last, log>>

Init ==
  /\ LAST_MSG = NoAddr
  /\ pc = [t \in Tasks |-> "net"]
  /\ last = [t \in Tasks |-> NoAddr]
  /\ log = <<>>

Goto(t, from, to) == pc[t] = from /\ pc' = [pc EXCEPT ![t] = to]

read_last(t) ==
  /\ Goto(t, "net", "read")
  /\ last' = [last EXCEPT ![t] = LAST_MSG]
  /\ log' = Append(log, [task |-> t, op |-> "read"])
  /\ UNCHANGED LAST_MSG

(* Mutant: only the first of several requests is written.                  *)
write_first(t) ==
  /\ Goto(t, "read", "written")
  /\ LAST_MSG' = IF LAST_MSG = NoAddr THEN Addr(t) ELSE LAST_MSG
  /\ log' = Append(log, [task |-> t, op |-> "write"])
  /\ UNCHANGED last

write(t) ==
  /\ Goto(t, "read", "written")
  /\ LAST_MSG' = Addr(t)
  /\ log' = Append(log, [task |-> t, op |-> "write"])
  /\ UNCHANGED last

(* Mutant: any request of the last 100 ms makes this one a duplicate.       *)
duplicate_any(t) == last[t] # NoAddr
(* Mutant: duplicates are not told apart.                                   *)
duplicate_never(t) == FALSE

duplicate(t) == last[t] = Addr(t)

decide(t) ==
  /\ Goto(t, "written", IF duplicate(t) THEN "skipped" ELSE "handled")
  /\ UNCHANGED <<LAST_MSG, last, log>>

Next == \E t \in Tasks : read_last(t) \/ write(t) \/ decide(t)
Spec == Init /\ [][Next]_vars

-----------------------------------------------------------------------------
Before(e, f) == \E i, j \in DOMAIN log : i < j /\ log[i] = e /\ log[j] = f

(* The last request is the last that was written.                           *)
TypeOK ==
  /\ LAST_MSG \in Peers \cup {NoAddr}
  /\ last \in [Tasks -> Peers \cup {NoAddr}]
  /\ LET writes == SelectSeq(log, LAMBDA e : e.op = "write")
     IN  LAST_MSG = IF writes = <<>> THEN NoAddr ELSE Addr(Last(writes).task)

(* Of the copies of a request, one is handled.                              *)
EveryRequestHandled ==
  \A t \in Tasks : pc[t] = "skipped" => pc[Twin(t)] \in {"read", "written", "handled"}

(* "skip duplicate punch hole messages", "skip duplicate relay request      *)
(* messages".                                                               *)
HandledOnce == \A t \in Tasks : ~(pc[t] = "handled" /\ pc[Twin(t)] = "handled")

(* ... which is so for a copy whose task starts after the other's has       *)
(* written, when no other request has come in between.                      *)
InTurn(t) ==
  /\ Before([task |-> t, op |-> "write"], [task |-> Twin(t), op |-> "read"])
  /\ \A u \in Tasks \ {t} :
       ~(/\ Before([task |-> t, op |-> "write"], [task |-> u, op |-> "write"])
         /\ Before([task |-> u, op |-> "write"], [task |-> Twin(t), op |-> "read"]))

HandledOnceInTurn ==
  \A t \in Tasks : InTurn(t) => ~(pc[t] = "handled" /\ pc[Twin(t)] = "handled")

(* Both: of the copies of a request one is handled, and in turn only one. *)
RequestsHandled == EveryRequestHandled /\ HandledOnceInTurn
=============================================================================
