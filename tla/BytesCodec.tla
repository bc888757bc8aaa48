----------------------------- MODULE BytesCodec ------------------------------
(***************************************************************************)
(* The framing of every stream (src/libs/hbb_common/src/bytes_codec.rs): a *)
(* head of one to four bytes with the length, then the body; or, once both *)
(* ends are raw, bytes as they come.  What a sender encodes comes to the   *)
(* reader in pieces that have nothing to do with its messages.             *)
(***************************************************************************)
EXTENDS Integers, Sequences

CONSTANTS
  B,          (* values of a byte, 256                                      *)
  Lengths,    (* lengths of messages                                        *)
  Frames,     (* messages sent before both ends are raw                     *)
  Raws,       (* bound: messages sent after                                 *)
  max_packet_length

(* Assumed of the constants by every module that gives them values. *)
ByteAssumption == B \in Nat /\ B > 4 /\ B % 4 = 0
MessagesAssumption ==
  /\ Lengths \subseteq Nat /\ Frames \in Nat /\ Raws \in Nat /\ max_packet_length \in Nat

VARIABLES
  sent,     (* the messages                                                 *)
  net,      (* bytes under way                                              *)
  src,      (* bytes in the reader's buffer                                 *)
  state,    (* Head, or the length of the body that is awaited              *)
  out,      (* the messages read                                            *)
  raws,     (* the bytes read since the reader is raw                       *)
  failed    (* "Too big packet"                                             *)

vars == <<sent, net, src, state, out, raws, failed>>

Head_ == -1

Init ==
  /\ sent = <<>> /\ net = <<>> /\ src = <<>> /\ state = Head_
  /\ out = <<>> /\ raws = <<>> /\ failed = FALSE

(* A message of n bytes, the k-th.                                          *)
Body(k, n) == [j \in 1..n |-> (k + j) % B]

-----------------------------------------------------------------------------
(* encode: 0x3F, 0x3FFF, 0x3FFFFF and 0x3FFFFFFF for bytes of 256 values.   *)

Most(k) == CASE k = 1 -> B \div 4 - 1
             [] k = 2 -> (B * B) \div 4 - 1
             [] k = 3 -> (B * B * B) \div 4 - 1
             [] k = 4 -> (B * B * B * B) \div 4 - 1

encode_head(n) ==
  CASE n <= Most(1) -> <<4 * n>>
    [] n > Most(1) /\ n <= Most(2) -> <<(4 * n + 1) % B, (4 * n + 1) \div B>>
    [] n > Most(2) /\ n <= Most(3) ->
         <<(4 * n + 2) % B, ((4 * n + 2) \div B) % B, (4 * n + 2) \div (B * B)>>
    [] n > Most(3) ->
         <<(4 * n + 3) % B, ((4 * n + 3) \div B) % B,
           ((4 * n + 3) \div (B * B)) % B, (4 * n + 3) \div (B * B * B)>>

encode(n) ==
  /\ Len(sent) < Frames + Raws /\ n <= Most(4)
  /\ sent' = Append(sent, Body(Len(sent) + 1, n))
  /\ net' = net \o (IF Len(sent) < Frames THEN encode_head(n) ELSE <<>>) \o Body(Len(sent) + 1, n)
  /\ UNCHANGED <<src, state, out, raws, failed>>

(* A byte comes; more may come before the decoder looks.                    *)
arrive ==
  /\ net # <<>> /\ net' = Tail(net) /\ src' = Append(src, Head(net))
  /\ UNCHANGED <<sent, state, out, raws, failed>>

-----------------------------------------------------------------------------
(* decode.                                                                  *)

head_len(s) == (s[1] % 4) + 1

(* The length in a complete head.                                           *)
length(s) ==
  (CASE head_len(s) = 1 -> s[1]
     [] head_len(s) = 2 -> s[1] + B * s[2]
     [] head_len(s) = 3 -> s[1] + B * s[2] + B * B * s[3]
     [] head_len(s) = 4 -> s[1] + B * s[2] + B * B * s[3] + B * B * B * s[4]) \div 4

raw == Len(out) >= Frames

(* Mutant: the head is looked at once more when the body was not complete.  *)
decode_head_again ==
  /\ ~raw /\ ~failed /\ src # <<>> /\ Len(src) >= head_len(src)
  /\ IF length(src) > max_packet_length
     THEN failed' = TRUE /\ UNCHANGED <<src, state>>
     ELSE /\ state' = length(src) /\ src' = SubSeq(src, head_len(src) + 1, Len(src))
          /\ UNCHANGED failed
  /\ UNCHANGED <<sent, net, out, raws>>

(* Mutant: the length is not checked.                                       *)
decode_head_unchecked ==
  /\ ~raw /\ ~failed /\ state = Head_ /\ src # <<>> /\ Len(src) >= head_len(src)
  /\ state' = length(src) /\ src' = SubSeq(src, head_len(src) + 1, Len(src))
  /\ UNCHANGED <<sent, net, out, raws, failed>>

decode_head ==
  /\ ~raw /\ ~failed /\ state = Head_ /\ src # <<>> /\ Len(src) >= head_len(src)
  /\ IF length(src) > max_packet_length
     THEN failed' = TRUE /\ UNCHANGED <<src, state>>
     ELSE /\ state' = length(src) /\ src' = SubSeq(src, head_len(src) + 1, Len(src))
          /\ UNCHANGED failed
  /\ UNCHANGED <<sent, net, out, raws>>

decode_data ==
  /\ ~raw /\ ~failed /\ state # Head_ /\ Len(src) >= state
  /\ out' = Append(out, SubSeq(src, 1, state))
  /\ src' = SubSeq(src, state + 1, Len(src)) /\ state' = Head_
  /\ UNCHANGED <<sent, net, raws, failed>>

(* Mutant: what was in the buffer when the reader became raw is dropped.    *)
decode_raw_dropped ==
  /\ raw /\ src # <<>> /\ src' = <<>>
  /\ raws' = IF raws = <<>> THEN SubSeq(src, 2, Len(src)) ELSE raws \o src
  /\ UNCHANGED <<sent, net, state, out, failed>>

decode_raw ==
  /\ raw /\ src # <<>> /\ src' = <<>> /\ raws' = raws \o src
  /\ UNCHANGED <<sent, net, state, out, failed>>

Next ==
  \/ \E n \in Lengths : encode(n)
  \/ arrive \/ decode_head \/ decode_data \/ decode_raw

Spec == Init /\ [][Next]_vars

-----------------------------------------------------------------------------
Bytes == 0..(B - 1)

(* Everything on the way is a byte, and what was awaited fits.              *)
TypeOK ==
  /\ \A i \in DOMAIN net : net[i] \in Bytes
  /\ \A i \in DOMAIN src : src[i] \in Bytes
  /\ state = Head_ \/ state \in 0..max_packet_length

(* The messages come out as they were put in, however they were cut up.     *)
Faithful ==
  /\ Len(out) <= Len(sent) /\ \A i \in DOMAIN out : out[i] = sent[i]
  /\ failed => Len(sent[Len(out) + 1]) > max_packet_length

waiting ==
  IF raw THEN src = <<>>
  ELSE IF state = Head_ THEN src = <<>> \/ Len(src) < head_len(src)
  ELSE Len(src) < state

FramedOut == Len(out) >= IF Len(sent) < Frames THEN Len(sent) ELSE Frames

(* The messages after the framed ones, one behind the other: the i-th ends  *)
(* with the byte at[i].                                                     *)
RawOut ==
  Len(sent) >= Frames =>
    \E at \in [Frames .. Len(sent) -> 0 .. Len(raws)] :
      /\ at[Frames] = 0 /\ at[Len(sent)] = Len(raws)
      /\ \A i \in Frames + 1 .. Len(sent) :
           /\ at[i] = at[i - 1] + Len(sent[i])
           /\ \A j \in 1 .. Len(sent[i]) : raws[at[i - 1] + j] = sent[i][j]

(* Nothing is left behind: when all bytes have come and the decoder has no  *)
(* more to say, all messages are out, and the raw bytes after them.         *)
Complete == net = <<>> /\ ~failed /\ waiting => FramedOut /\ RawOut
=============================================================================
