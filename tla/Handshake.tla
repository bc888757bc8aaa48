----------------------------- MODULE Handshake ------------------------------
(***************************************************************************)
(* How a client and a host agree on the encryption of their stream         *)
(* (secure_connection of src/src/client.rs, create_tcp_connection of       *)
(* src/src/server.rs), with what keeps the key of the host known to the    *)
(* rendezvous server that vouches for it: register_pk, the key that the    *)
(* sync of the configuration replaces (CheckIfResendPk), and the client    *)
(* that finds the key of the server outdated.                              *)
(*                                                                         *)
(* Keys are version numbers.  A client connects again and again, to a      *)
(* stream that PeerConnect provides.                                       *)
(***************************************************************************)
EXTENDS Naturals

CONSTANTS
  MaxKeys,      (* bound: replaced keys                                     *)
  MaxConns,     (* bound: connections made before the key is confirmed ...  *)
  Connecting,   (* clients do connect                                       *)
  NoKey

ASSUME HandshakeAssumption ==
  {MaxKeys, MaxConns} \subseteq Nat /\ Connecting \in BOOLEAN /\ NoKey \notin Nat

Keys == 0 .. MaxKeys

VARIABLES
  pk,           (* the host's key pair                                      *)
  key_confirmed,
  SENT_REGISTER_PK,
  registered,   (* the key that the server has                              *)
  requests, oks,    (* RegisterPk and its answers, under way                *)
  conns,        (* connections made so far                                  *)
  client,       (* pc, the key that the server vouches for, and the result  *)
  host,         (* pc, the key it signs with, and the result                *)
  wire          (* the messages of the stream, one each way                 *)

registration == <<pk, key_confirmed, SENT_REGISTER_PK, registered, requests, oks>>
stream == <<client, host, wire>>
vars == <<registration, conns, stream>>

Idle == [pc |-> "none", key |-> NoKey, enc |-> FALSE]
Nothing == [type |-> "none", key |-> NoKey]
Msg(t, k) == [type |-> t, key |-> k]

Init ==
  /\ pk = 0 /\ key_confirmed \in BOOLEAN /\ SENT_REGISTER_PK = FALSE
  /\ registered = IF key_confirmed THEN 0 ELSE NoKey
  /\ requests = {} /\ oks = FALSE
  /\ conns = 0
  /\ client = Idle /\ host = Idle
  /\ wire = [client |-> Nothing, host |-> Nothing]

-----------------------------------------------------------------------------
(* The registration of the key.                                             *)

register_pk ==
  /\ ~key_confirmed
  /\ requests' = requests \cup {pk} /\ SENT_REGISTER_PK' = TRUE
  /\ UNCHANGED <<pk, key_confirmed, registered, oks, conns, stream>>

(* External: the server.                                                    *)
serve_pk ==
  /\ \E k \in requests : registered' = k /\ requests' = requests \ {k}
  /\ oks' = TRUE
  /\ UNCHANGED <<pk, key_confirmed, SENT_REGISTER_PK, conns, stream>>

RegisterPkResponse_OK ==
  /\ oks /\ oks' = FALSE
  /\ key_confirmed' = TRUE
  /\ UNCHANGED <<pk, SENT_REGISTER_PK, registered, requests, conns, stream>>

(* Another key comes with the configuration.                                *)
CheckIfResendPk ==
  /\ pk < MaxKeys /\ pk' = pk + 1
  /\ key_confirmed' = (key_confirmed /\ ~SENT_REGISTER_PK)
  /\ UNCHANGED <<SENT_REGISTER_PK, registered, requests, oks, conns, stream>>

-----------------------------------------------------------------------------
(* A new stream, after the one before has ended.  What the server vouches   *)
(* for may be of use for the client or not (it has another server's key).   *)

(* Mutant: a host that a relay is asked for does not sign.                  *)
secure_punch_only(kind, signed) == kind = "punch"

secure(kind, signed) == kind = "punch" \/ signed # NoKey

start ==
  /\ Connecting
  /\ conns < MaxConns \/ key_confirmed
  /\ client.pc \in {"none", "done", "failed"} /\ host.pc \in {"none", "done", "failed"}
  /\ conns' = IF conns < MaxConns THEN conns + 1 ELSE conns
  /\ \E verifies \in IF conns < MaxConns THEN BOOLEAN ELSE {TRUE} :
       client' = [pc |-> "secure", enc |-> FALSE,
                  key |-> IF verifies THEN registered ELSE NoKey]
  /\ \E kind \in {"punch", "relay"} :
       host' = [pc |-> IF secure(kind, registered) THEN "sign" ELSE "done",
                key |-> pk, enc |-> FALSE]
  /\ wire' = [client |-> Nothing, host |-> Nothing]
  /\ UNCHANGED registration

(* secure_connection: without a key to check against, an empty message in   *)
(* case the host waits for one.                                             *)
no_key ==
  /\ client.pc = "secure" /\ client.key = NoKey
  /\ client' = [client EXCEPT !.pc = "done"]
  /\ wire' = [wire EXCEPT !.client = Msg("empty", NoKey)]
  /\ UNCHANGED <<registration, conns, host>>

(* Mutant: the client encrypts whatever key the host signs with.            *)
SignedId_unchecked ==
  /\ client.pc = "secure" /\ client.key # NoKey
  /\ wire.host.type = "SignedId"
  /\ client' = [client EXCEPT !.pc = "done", !.enc = TRUE]
  /\ wire' = [client |-> Msg("PublicKey", NoKey), host |-> Nothing]
  /\ UNCHANGED <<registration, conns, host>>

(* SignedId: answered with a key for the stream, or none on a mismatch.     *)
SignedId ==
  /\ client.pc = "secure" /\ client.key # NoKey
  /\ wire.host.type = "SignedId"
  /\ client' = [client EXCEPT !.pc = "done", !.enc = wire.host.key = client.key]
  /\ wire' = [client |-> Msg("PublicKey", IF wire.host.key = client.key THEN wire.host.key
                                                                       ELSE NoKey),
              host |-> Nothing]
  /\ UNCHANGED <<registration, conns, host>>

read_timeout ==
  /\ client.pc = "secure" /\ client.key # NoKey
  /\ host.pc \in {"done", "failed"} /\ wire.host = Nothing
  /\ client' = [client EXCEPT !.pc = "failed"]
  /\ UNCHANGED <<registration, conns, host, wire>>

-----------------------------------------------------------------------------
(* create_tcp_connection.                                                   *)

sign ==
  /\ host.pc = "sign"
  /\ host' = [host EXCEPT !.pc = "wait"]
  /\ wire' = [wire EXCEPT !.host = Msg("SignedId", host.key)]
  /\ UNCHANGED <<registration, conns, client>>

(* Mutant: the client's mismatch has no consequence.                        *)
force_update_ignored == UNCHANGED key_confirmed

(* "Force to update pk".                                                    *)
force_update == key_confirmed' = FALSE

PublicKey ==
  /\ host.pc = "wait" /\ wire.client # Nothing
  /\ host' = [host EXCEPT !.pc = "done", !.enc = wire.client.key # NoKey]
  /\ IF wire.client = Msg("PublicKey", NoKey)
     THEN force_update ELSE UNCHANGED key_confirmed
  /\ wire' = [wire EXCEPT !.client = Nothing]
  /\ UNCHANGED <<pk, SENT_REGISTER_PK, registered, requests, oks, conns, client>>

-----------------------------------------------------------------------------
Register == register_pk \/ serve_pk \/ RegisterPkResponse_OK
Connect == start \/ no_key \/ SignedId \/ read_timeout \/ sign \/ PublicKey

Next == Register \/ CheckIfResendPk \/ Connect

Spec ==
  /\ Init /\ [][Next]_vars
  /\ WF_vars(register_pk) /\ SF_vars(serve_pk) /\ SF_vars(RegisterPkResponse_OK)
  /\ WF_vars(Connect)

-----------------------------------------------------------------------------
TypeOK ==
  /\ pk \in Keys /\ registered \in Keys \cup {NoKey} /\ requests \subseteq 0 .. pk
  /\ client.key \in Keys \cup {NoKey} /\ host.key \in Keys \cup {NoKey}
  /\ client.enc => client.key = host.key

(* The two ends never disagree about the encryption.                        *)
Ended == client.pc = "done" /\ host.pc = "done"
Agree == Ended => client.enc = host.enc

(* A client never waits for a SignedId that no host is going to send.       *)
NeverWaitsInVain == client.pc # "failed"

(* Both: the two ends are at the same point of the same handshake.         *)
InStep == Agree /\ NeverWaitsInVain

(* A client that can verify the server's word ends up with encrypted        *)
(* streams: the server's knowledge of the key is repaired by the client     *)
(* that finds it outdated.                                                  *)
Encrypted == <>[](Ended => client.enc)

(* "This struct detects pk changes and triggers a re-registration by        *)
(* setting key_confirmed to false."                                         *)
Reregistered == <>[](SENT_REGISTER_PK => registered = pk)
=============================================================================
