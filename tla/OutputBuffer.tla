---------------------------- MODULE OutputBuffer ----------------------------
(***************************************************************************)
(* OutputBuffer of src/src/server/terminal_service.rs: the output of a     *)
(* terminal in lines, cut at its old end, and get_recent, the part of it   *)
(* that is replayed after a reconnection.                                  *)
(*                                                                         *)
(* A byte is its place in the output, so what is kept can be compared with *)
(* what was printed; `newlines' are the places of '\n'.  total_size is a   *)
(* usize, here of a width of Width bits, and wraps as in a release build.  *)
(***************************************************************************)
EXTENDS Integers, SequencesExt

CONSTANTS
  MAX_OUTPUT_BUFFER_SIZE,   (* in bytes: 1 MB in the code                      *)
  MAX_BUFFER_LINES,         (* 10000 in the code                               *)
  MaxChunk,                 (* what the reader thread reads at once: 4096      *)
  Width,                    (* bits of a usize                                 *)
  MaxBytes                  (* bound: bytes that are printed                   *)

(* Assumed of the constants by every module that gives them values. *)
OutputBufferAssumption ==
  /\ MAX_OUTPUT_BUFFER_SIZE \in Nat /\ MAX_BUFFER_LINES \in Nat \ {0}
  /\ MaxChunk \in 1 .. MAX_OUTPUT_BUFFER_SIZE
  /\ Width \in Nat /\ 2 ^ Width > MAX_OUTPUT_BUFFER_SIZE + MaxChunk
  /\ MaxBytes \in Nat

VARIABLES
  lines,                  (* the lines, each a sequence of bytes               *)
  total_size,
  last_line_incomplete,
  hung,                   (* the loop that trims the buffer never ends         *)
  printed,                (* history: bytes printed                            *)
  newlines                (* history: the bytes that are '\n'                  *)

vars == <<lines, total_size, last_line_incomplete, hung, printed, newlines>>

Contents == FlattenSeq(lines)

TypeOK ==
  /\ total_size \in 0 .. 2 ^ Width - 1
  /\ last_line_incomplete \in BOOLEAN /\ hung \in BOOLEAN
  /\ printed \in 0 .. MaxBytes
  /\ newlines \subseteq 1 .. MaxBytes
  (* a line ends at its first newline *)
  /\ \A i \in DOMAIN lines :
       /\ lines[i] # <<>>
       /\ \A j \in 1 .. Len(lines[i]) - 1 : lines[i][j] \notin newlines
       /\ i < Len(lines) => Last(lines[i]) \in newlines
  /\ lines # <<>> => (last_line_incomplete <=> Last(Last(lines)) \notin newlines)

-----------------------------------------------------------------------------
(* the places after which `data' is split into lines, 0 and its end included *)
Cuts(data, nls) == SetToSortSeq({i \in 1 .. Len(data) : data[i] \in nls} \cup {0, Len(data)}, <)

Split(data, nls) ==
  LET cuts == Cuts(data, nls)
  IN [i \in 1 .. Len(cuts) - 1 |-> SubSeq(data, cuts[i] + 1, cuts[i + 1])]

Size(ls) == Len(FlattenSeq(ls))

(* total_size after k lines were taken off *)
After(k, ls, total) == (total - Size(SubSeq(ls, 1, k))) % (2 ^ Width)

(* Mutant: lines are taken from the end that is new. *)
trimmed_at_the_end(ls, total, inc) ==
  LET fits(k) == After(k, ls, total) <= MAX_OUTPUT_BUFFER_SIZE /\ Len(ls) - k <= MAX_BUFFER_LINES
      fit == {k \in 0 .. Len(ls) : fits(k)}
      k == CHOOSE n \in fit : \A m \in fit : n <= m
  IN IF fit # {}
     THEN [lines |-> SubSeq(ls, 1, Len(ls) - k), total |-> After(k, ls, total), inc |-> inc, hung |-> FALSE]
     ELSE [lines |-> <<>>, total |-> After(Len(ls), ls, total), inc |-> inc, hung |-> TRUE]

(* while total_size is too large, or there are too many lines, the oldest is
   taken off; of an empty queue for ever *)
trimmed(ls, total, inc) ==
  LET fits(k) == After(k, ls, total) <= MAX_OUTPUT_BUFFER_SIZE /\ Len(ls) - k <= MAX_BUFFER_LINES
      fit == {k \in 0 .. Len(ls) : fits(k)}
      k == CHOOSE n \in fit : \A m \in fit : n <= m
  IN IF fit # {}
     THEN [lines |-> SubSeq(ls, k + 1, Len(ls)), total |-> After(k, ls, total), inc |-> inc, hung |-> FALSE]
     ELSE [lines |-> <<>>, total |-> After(Len(ls), ls, total), inc |-> inc, hung |-> TRUE]

(* Mutant: a line that is completed stays incomplete. *)
appended_flag_kept(data, nls) ==
  LET pieces == Split(data, nls)
      joins == last_line_incomplete /\ lines # <<>>
      first == Append(Front(lines), Last(lines) \o Head(pieces))
      open == Last(data) \notin nls
  IN IF joins /\ \A i \in DOMAIN data : data[i] \notin nls
     THEN [lines |-> first, total |-> total_size + Len(data), inc |-> TRUE, hung |-> FALSE]
     ELSE IF joins
     THEN trimmed(first \o Tail(pieces), total_size + Size(Tail(pieces)), TRUE)
     ELSE trimmed(lines \o pieces, total_size + Size(pieces), open \/ last_line_incomplete)

(* append: the first piece goes to the last line if that is incomplete.  A
   piece that does not complete it is counted, and nothing is trimmed; one
   that does is not counted. *)
appended(data, nls) ==
  LET pieces == Split(data, nls)
      joins == last_line_incomplete /\ lines # <<>>
      first == Append(Front(lines), Last(lines) \o Head(pieces))
      open == Last(data) \notin nls
  IN IF joins /\ \A i \in DOMAIN data : data[i] \notin nls
     THEN [lines |-> first, total |-> total_size + Len(data), inc |-> TRUE, hung |-> FALSE]
     ELSE IF joins
     THEN trimmed(first \o Tail(pieces), total_size + Size(Tail(pieces)), open)
     ELSE trimmed(lines \o pieces, total_size + Size(pieces), open \/ last_line_incomplete)

(* Mutant: the newest line is left out when it does not fit. *)
get_recent_older(max) ==
  LET fits(k) == Size(SubSeq(lines, Len(lines) - k + 1, Len(lines))) <= max
      k == CHOOSE n \in 0 .. Len(lines) : fits(n) /\ (n < Len(lines) => ~fits(n + 1))
  IN IF k = 0 /\ Len(lines) > 1
     THEN {SubSeq(lines[Len(lines) - 1], 1, max)}
     ELSE {FlattenSeq(SubSeq(lines, Len(lines) - k + 1, Len(lines)))}

(* get_recent: as many whole lines as fit; if not even the newest does, the
   tail of it, from the next character on, which may be up to 3 bytes away *)
get_recent(max) ==
  LET fits(k) == Size(SubSeq(lines, Len(lines) - k + 1, Len(lines))) <= max
      k == CHOOSE n \in 0 .. Len(lines) : fits(n) /\ (n < Len(lines) => ~fits(n + 1))
      newest == Last(lines)
      from == Len(newest) - max + 1
  IN IF k = 0 /\ lines # <<>>
     THEN {SubSeq(newest, from + skipped, Len(newest)) : skipped \in 0 .. 3}
     ELSE {FlattenSeq(SubSeq(lines, Len(lines) - k + 1, Len(lines)))}

-----------------------------------------------------------------------------
Init ==
  /\ lines = <<>> /\ total_size = 0 /\ last_line_incomplete = FALSE
  /\ hung = FALSE
  /\ printed = 0 /\ newlines = {}

append ==
  /\ ~hung
  /\ \E n \in 1 .. MaxChunk : \E nls \in SUBSET (printed + 1 .. printed + n) :
       LET data == [i \in 1 .. n |-> printed + i]
           b == appended(data, newlines \cup nls)
       IN /\ printed + n <= MaxBytes
          /\ printed' = printed + n
          /\ newlines' = newlines \cup nls
          /\ lines' = b.lines /\ total_size' = b.total
          /\ last_line_incomplete' = b.inc /\ hung' = b.hung

Next == append

Spec == Init /\ [][Next]_vars

-----------------------------------------------------------------------------
IsRecent(s) == s = [i \in 1 .. Len(s) |-> printed - Len(s) + i]

(* What is kept is the end of what was printed: nothing is missing in it and
   nothing comes twice, however the output was cut into chunks. *)
KeepsTheEnd == ~hung => IsRecent(Contents)

(* What is replayed is the end of what was printed, "preserving chronological
   continuity", not more than was asked for, and nothing only if next to
   nothing fits. *)
RecentIsTheEnd ==
  ~hung => \A max \in 1 .. MaxBytes : \A r \in get_recent(max) :
    /\ IsRecent(r) /\ Len(r) <= max
    /\ max > 3 /\ printed > 0 => r # <<>>

(* MAX_OUTPUT_BUFFER_SIZE is "1MB per terminal". *)
Bounded == Size(lines) <= MAX_OUTPUT_BUFFER_SIZE

(* "Trim old data if buffer is too large": that comes to an end. *)
TrimEnds == ~hung

=============================================================================
