---------------------------- MODULE Login_proofs ----------------------------
(***************************************************************************)
(* Who gets in without a click has proved itself, and a window that may    *)
(* get in does, for any number of passwords and of broken links, closed    *)
(* windows and lapsed sessions, and under every configuration.             *)
(***************************************************************************)
EXTENDS Login, TLAPS

CodeKinds == {"code", "code_and_trust", "wrong_code"}

Ups == [kind : {"login"} \cup CodeKinds, pw : Nat]
Downs == [kind : {"peer_info", "require_2fa", "wrong", "no_password_access", "closed"}, pw : {0}]

Has(s, kinds) == \E i \in DOMAIN s : s[i].kind \in kinds

(* What a message adds to a channel, and what taking one leaves.           *)
LEMMA Channels ==
  ASSUME NEW M, NEW s \in Seq(M), NEW kinds
  PROVE  /\ \A m \in M : /\ Append(s, m) \in Seq(M)
                         /\ s \o <<m>> \in Seq(M)
                         /\ Has(Append(s, m), kinds) => Has(s, kinds) \/ m.kind \in kinds
                         /\ Has(s \o <<m>>, kinds) => Has(s, kinds) \/ m.kind \in kinds
         /\ s \o <<>> = s
         /\ ~Has(<<>>, kinds)
         /\ s # <<>> => /\ Tail(s) \in Seq(M) /\ Head(s) \in M
                        /\ Has(Tail(s), kinds) => Has(s, kinds)
                        /\ Head(s).kind \in kinds => Has(s, kinds)
BY DEF Has

Typed ==
  /\ temp \in Nat \ {0} /\ ids \in Nat
  /\ session \in [random_password : Nat, tfa : BOOLEAN, id : Nat]
  /\ srv \in [Windows -> {"none", "open", "authorized"}]
  /\ require_2fa \in [Windows -> BOOLEAN] /\ vouched \in [Windows -> BOOLEAN]
  /\ trusted \in BOOLEAN /\ coded \in BOOLEAN /\ shown \in Nat
  /\ cli \in [Windows -> {"off", "wait", "password", "2fa", "on", "broken", "closed"}]
  /\ password \in [Windows -> Nat] /\ saved \in Nat
  /\ up \in [Windows -> Seq(Ups)] /\ down \in [Windows -> Seq(Downs)]

(* An entry has the proofs of its session and no others.                   *)
Entry ==
  /\ session.random_password # 0 => shown # 0
  /\ session.tfa => coded

(* A code is asked for, typed or given only by one that has shown a        *)
(* password.                                                               *)
CodeAfterPassword ==
  \A w \in Windows :
    srv[w] # "none" /\ (cli[w] = "2fa" \/ Has(up[w], CodeKinds) \/ Has(down[w], {"require_2fa"}))
      => vouched[w]

(* The requirement of a code is dropped for a trusted device only.         *)
CodeRequired == \A w \in Windows : TwoFactor /\ srv[w] = "open" => require_2fa[w] \/ trusted

IInv == Typed /\ Entry /\ CodeAfterPassword /\ CodeRequired

(* No window is connected to begin with.                                     *)
LEMMA InitInv == Init => IInv
<1> SUFFICES ASSUME Init PROVE IInv
  OBVIOUS
<1> USE DEF Init
<1>1. Typed
  <2>1. saved \in Nat
    BY LoginAssumption DEF Permanent
  <2>2. /\ up \in [Windows -> Seq(Ups)] /\ down \in [Windows -> Seq(Downs)]
        /\ session \in [random_password : Nat, tfa : BOOLEAN, id : Nat]
    BY DEF NoSession
  <2>3. require_2fa \in [Windows -> BOOLEAN] /\ vouched \in [Windows -> BOOLEAN]
    BY Zenon
  <2>4. srv \in [Windows -> {"none", "open", "authorized"}] /\ password \in [Windows -> Nat]
    OBVIOUS
  <2>6. cli \in [Windows -> {"off", "wait", "password", "2fa", "on", "broken", "closed"}]
    OBVIOUS
  <2>5. shown \in Nat /\ temp \in Nat \ {0}
    OBVIOUS
  <2>7. trusted \in BOOLEAN /\ coded \in BOOLEAN
    BY Zenon
  <2> QED BY <2>1, <2>2, <2>3, <2>4, <2>5, <2>6, <2>7 DEF Typed
<1>2. Entry /\ CodeAfterPassword /\ CodeRequired
  BY DEF Entry, CodeAfterPassword, CodeRequired, NoSession
<1> QED BY <1>1, <1>2 DEF IInv

(* Steps that leave the connections and the channels alone.                *)
LEMMA QuietInv ==
  ASSUME IInv, ghost_ends \/ update_temporary_password \/ session_lapses \/ UNCHANGED vars
  PROVE  IInv'
<1> USE DEF IInv, Typed, Entry, CodeAfterPassword, CodeRequired
<1>1. CASE ghost_ends \/ update_temporary_password
  <2>1. temp' \in Nat \ {0}
    BY <1>1, LoginAssumption DEF ghost_ends, update_temporary_password
  <2>2. UNCHANGED <<session, ids, srv, require_2fa, vouched, trusted, coded, shown, cli, password, saved, up, down>>
    BY <1>1 DEF ghost_ends, update_temporary_password, history, client
  <2> QED BY <2>1, <2>2
<1>2. CASE session_lapses
  <2>1. session' = [random_password |-> 0, tfa |-> FALSE, id |-> 0] /\ shown' = 0 /\ coded' = FALSE
    BY <1>2 DEF session_lapses, NoSession
  <2>2. UNCHANGED <<temp, ids, srv, require_2fa, vouched, trusted, cli, password, saved, up, down>>
    BY <1>2 DEF session_lapses, client
  <2> QED BY <2>1, <2>2
<1>3. CASE UNCHANGED vars
  BY <1>3 DEF vars, server, client, history
<1> QED BY <1>1, <1>2, <1>3

-----------------------------------------------------------------------------
(* The client's steps.                                                     *)

LEMMA ConnectInv ==
  ASSUME IInv, NEW w \in Windows, connect(w)
  PROVE  IInv'
<1> USE DEF IInv, Typed, Entry, CodeAfterPassword, CodeRequired
<1>1. PICK pw \in Nat :
        /\ password' = [password EXCEPT ![w] = pw]
        /\ cli' = [cli EXCEPT ![w] = IF pw = 0 THEN "password" ELSE "wait"]
        /\ up' = [up EXCEPT ![w] = <<Login(pw)>>]
  BY DEF connect, Windows
<1>2. /\ down' = [down EXCEPT ![w] = <<>>] /\ srv[w] = "none"
      /\ srv' = [srv EXCEPT ![w] = "open"]
      /\ require_2fa' = [require_2fa EXCEPT ![w] = TwoFactor]
      /\ UNCHANGED <<temp, session, ids, trusted, saved, shown, coded, vouched>>
  BY DEF connect, history
<1>3. Login(pw) \in Ups /\ Login(pw).kind \notin CodeKinds
  BY DEF Login, Ups, CodeKinds
<1>4. <<Login(pw)>> \in Seq(Ups) /\ ~Has(<<Login(pw)>>, CodeKinds) /\ ~Has(<<>>, {"require_2fa"})
  BY <1>3 DEF Has
<1>5. Typed'
  BY <1>1, <1>2, <1>4, LoginAssumption
<1>6. Entry' /\ CodeRequired'
  BY <1>2, LoginAssumption
<1>7. CodeAfterPassword'
  BY <1>1, <1>2, <1>4
<1> QED BY <1>5, <1>6, <1>7

(* What the user sends is a password that was typed, or a code after one.    *)
LEMMA SendInv ==
  ASSUME IInv, NEW w \in Windows, login_from_ui(w) \/ send2fa(w)
  PROVE  IInv'
<1> USE DEF IInv, Typed, Entry, CodeAfterPassword, CodeRequired
<1>1. PICK m \in Ups : /\ up' = Sent(w, m) /\ cli' = [cli EXCEPT ![w] = "wait"]
                       /\ m.kind \in CodeKinds => cli[w] = "2fa"
  <2>1. CASE login_from_ui(w)
    <3>1. PICK pw \in {temp, Permanent} : up' = Sent(w, Login(pw))
      BY <2>1 DEF login_from_ui
    <3>2. Login(pw) \in Ups /\ Login(pw).kind \notin CodeKinds
      BY LoginAssumption DEF Login, Ups, CodeKinds, Permanent
    <3> QED BY <2>1, <3>1, <3>2 DEF login_from_ui
  <2>2. CASE send2fa(w)
    <3>1. PICK kind \in CodeKinds : up' = Sent(w, [kind |-> kind, pw |-> password[w]])
      BY <2>2 DEF send2fa, CodeKinds
    <3>2. [kind |-> kind, pw |-> password[w]] \in Ups
      BY DEF Ups
    <3> QED BY <2>2, <3>1, <3>2 DEF send2fa
  <2> QED BY <2>1, <2>2
<1>2. UNCHANGED <<temp, session, ids, srv, require_2fa, vouched, trusted, coded, shown, saved, down>>
  BY DEF login_from_ui, send2fa, server, history
<1>3. password' \in [Windows -> Nat]
  <2>1. CASE login_from_ui(w)
    BY <2>1, LoginAssumption DEF login_from_ui, Permanent
  <2>2. CASE send2fa(w)
    BY <2>2 DEF send2fa
  <2> QED BY <2>1, <2>2
<1>4. \/ up' = up /\ srv[w] = "none"
      \/ up' = [up EXCEPT ![w] = Append(@, m)]
  BY <1>1 DEF Sent
<1>5. Append(up[w], m) \in Seq(Ups)
      /\ (Has(Append(up[w], m), CodeKinds) => Has(up[w], CodeKinds) \/ m.kind \in CodeKinds)
  BY Channels
<1>6. Typed'
  <2>1. up' \in [Windows -> Seq(Ups)]
    BY <1>4, <1>5
  <2>2. cli' \in [Windows -> {"off", "wait", "password", "2fa", "on", "broken", "closed"}]
    BY <1>1
  <2> QED BY <1>2, <1>3, <2>1, <2>2
<1>7. CodeAfterPassword'
  BY <1>1, <1>2, <1>4, <1>5
<1> QED BY <1>2, <1>6, <1>7

(* What the client receives changes nothing at the host.                     *)
LEMMA ReceiveInv ==
  ASSUME IInv, NEW w \in Windows, receive(w)
  PROVE  IInv'
<1> USE DEF IInv, Typed, Entry, CodeAfterPassword, CodeRequired
<1> DEFINE m == Head(down[w])
<1>1. /\ down[w] # <<>> /\ down' = [down EXCEPT ![w] = Tail(down[w])]
      /\ UNCHANGED <<temp, session, ids, srv, require_2fa, trusted, up, shown, coded, vouched>>
  BY DEF receive, server, history
<1>2. /\ Tail(down[w]) \in Seq(Downs) /\ m \in Downs
      /\ Has(Tail(down[w]), {"require_2fa"}) => Has(down[w], {"require_2fa"})
      /\ m.kind \in {"require_2fa"} => Has(down[w], {"require_2fa"})
  BY <1>1, Channels
<1>3. /\ saved' \in Nat
      /\ password' = password \/ password' = [password EXCEPT ![w] = 0]
      /\ \/ cli' = cli
         \/ \E c \in {"on", "password", "broken"} : cli' = [cli EXCEPT ![w] = c]
         \/ cli' = [cli EXCEPT ![w] = "2fa"] /\ m.kind = "require_2fa"
  <2>1. CASE m.kind = "peer_info"
    BY <2>1 DEF receive
  <2>2. CASE m.kind # "peer_info"
    <3>1. handle_login_error(w, m) /\ saved' = saved
      BY <2>2 DEF receive
    <3> QED BY <1>2, <2>2, <3>1 DEF handle_login_error, Downs
  <2> QED BY <2>1, <2>2
<1>4. Typed'
  <2>1. cli' \in [Windows -> {"off", "wait", "password", "2fa", "on", "broken", "closed"}]
    BY <1>3
  <2>5. password' = password => password' \in [Windows -> Nat]
    OBVIOUS
  <2>6. password' = [password EXCEPT ![w] = 0] => password' \in [Windows -> Nat]
    OBVIOUS
  <2>7. password' \in [Windows -> Nat]
    BY <1>3, <2>5, <2>6
  <2>2. down' \in [Windows -> Seq(Downs)]
    BY <1>1, <1>2
  <2>3. /\ temp' \in Nat \ {0} /\ ids' \in Nat /\ shown' \in Nat
        /\ session' \in [random_password : Nat, tfa : BOOLEAN, id : Nat]
        /\ srv' \in [Windows -> {"none", "open", "authorized"}]
        /\ up' \in [Windows -> Seq(Ups)]
    BY <1>1
  <2>4. /\ require_2fa' \in [Windows -> BOOLEAN] /\ vouched' \in [Windows -> BOOLEAN]
        /\ trusted' \in BOOLEAN /\ coded' \in BOOLEAN
    BY <1>1
  <2> QED BY <1>3, <2>1, <2>2, <2>3, <2>4, <2>7
<1>5. CodeAfterPassword'
  BY <1>1, <1>2, <1>3
<1> QED BY <1>1, <1>4, <1>5

-----------------------------------------------------------------------------
(* The ends of a connection.                                               *)

(* What a removed session leaves: no entry without its proofs.             *)
LEMMA RemovedEntry ==
  ASSUME IInv, NEW w \in Windows, removed(w)
  PROVE  /\ session' \in [random_password : Nat, tfa : BOOLEAN, id : Nat]
         /\ shown' \in Nat /\ coded' \in BOOLEAN
         /\ Entry'
<1> USE DEF IInv, Typed, Entry
<1> DEFINE void == (w = "main" /\ srv[w] = "authorized") \/ (srv["main"] # "authorized" /\ ~ghost)
<1>1. /\ session' = IF check_remove_session(w)
                    THEN [random_password |-> 0, tfa |-> FALSE, id |-> 0] ELSE session
      /\ shown' = IF void THEN 0 ELSE shown
      /\ coded' = (coded /\ ~void)
  BY DEF removed, NoSession
<1>2. void => check_remove_session(w)
  BY DEF check_remove_session
<1>3. CASE void
  BY <1>1, <1>2, <1>3
<1>4. CASE ~void
  BY <1>1, <1>4
<1> QED BY <1>3, <1>4

(* An end of a connection takes its authorization with it.                   *)
LEMMA EndInv ==
  ASSUME IInv, NEW w \in Windows, close_by_cm(w) \/ close(w) \/ link_breaks(w)
  PROVE  IInv'
<1> USE DEF IInv, Typed
<1>1. /\ session' \in [random_password : Nat, tfa : BOOLEAN, id : Nat]
      /\ shown' \in Nat /\ coded' \in BOOLEAN
      /\ Entry'
  <2>1. CASE close_by_cm(w) \/ close(w)
    BY <2>1, RemovedEntry DEF close_by_cm, close
  <2>2. CASE link_breaks(w)
    BY <2>2 DEF link_breaks, Entry
  <2> QED BY <2>1, <2>2
<1>2. /\ srv' = [srv EXCEPT ![w] = "none"]
      /\ require_2fa' = [require_2fa EXCEPT ![w] = FALSE]
      /\ vouched' = [vouched EXCEPT ![w] = FALSE]
      /\ up' = [up EXCEPT ![w] = <<>>]
      /\ UNCHANGED <<ids, trusted, saved>>
      /\ temp' \in Nat \ {0}
  BY LoginAssumption DEF close_by_cm, close, link_breaks, ended, client
<1>3. /\ password' = password \/ password' = [password EXCEPT ![w] = 0]
      /\ cli' = cli \/ \E c \in {"closed", "off", "broken"} : cli' = [cli EXCEPT ![w] = c]
  BY DEF close_by_cm, close, link_breaks, client
<1>4. \E s \in Seq(Downs) : down' = [down EXCEPT ![w] = s]
  <2>1. CASE close_by_cm(w)
    <3>1. Error("closed") \in Downs
      BY DEF Error, Downs
    <3>2. Append(down[w], Error("closed")) \in Seq(Downs)
      BY <3>1, Channels
    <3> QED BY <2>1, <3>2 DEF close_by_cm
  <2>2. CASE close(w) \/ link_breaks(w)
    <3>1. <<>> \in Seq(Downs)
      OBVIOUS
    <3> QED BY <2>2, <3>1 DEF close, link_breaks
  <2> QED BY <2>1, <2>2
<1>5. Typed'
  <2>1. cli' \in [Windows -> {"off", "wait", "password", "2fa", "on", "broken", "closed"}]
    BY <1>3
  <2>2. down' \in [Windows -> Seq(Downs)]
    BY <1>4
  <2>6. password' = password => password' \in [Windows -> Nat]
    OBVIOUS
  <2>7. password' = [password EXCEPT ![w] = 0] => password' \in [Windows -> Nat]
    OBVIOUS
  <2>3. password' \in [Windows -> Nat]
    BY <1>3, <2>6, <2>7
  <2>5. /\ up' \in [Windows -> Seq(Ups)]
        /\ srv' \in [Windows -> {"none", "open", "authorized"}]
    BY <1>2
  <2>4. require_2fa' \in [Windows -> BOOLEAN] /\ vouched' \in [Windows -> BOOLEAN]
    BY <1>2
  <2> QED BY <1>1, <1>2, <2>1, <2>2, <2>3, <2>4, <2>5
<1>6. CodeAfterPassword' /\ CodeRequired'
  BY <1>2, <1>3, <1>4 DEF CodeAfterPassword, CodeRequired
<1> QED BY <1>1, <1>5, <1>6

-----------------------------------------------------------------------------
(* The answers of a connection that has taken a message from its window.   *)

(* A window is let in, with or without a code, or told that it needs one.  *)
LEMMA Answered ==
  ASSUME IInv, NEW w \in Windows, NEW pw, NEW needs, NEW s,
         send_logon_response(w, pw, needs, s)
  PROVE  \E m \in Downs :
           /\ down' = [down EXCEPT ![w] = Append(@, m)]
           /\ \/ /\ m.kind = "require_2fa" /\ srv' = srv
              \/ /\ m.kind = "peer_info" /\ srv' = [srv EXCEPT ![w] = "authorized"]
                 /\ needs => s.tfa
<1>1. Error("require_2fa") \in Downs /\ Error("require_2fa").kind = "require_2fa"
  BY DEF Error, Downs
<1>2. Accepted(w) \in Downs /\ Accepted(w).kind = "peer_info"
  BY DEF Accepted, Downs
<1>3. CASE needs /\ ~(s.tfa /\ pw # 0)
  BY <1>1, <1>3 DEF send_logon_response
<1>4. CASE ~(needs /\ ~(s.tfa /\ pw # 0))
  BY <1>2, <1>4 DEF send_logon_response
<1> QED BY <1>3, <1>4

(* A click authorizes without a password, and is remembered as such.         *)
LEMMA AuthorizeInv ==
  ASSUME IInv, NEW w \in Windows, authorize(w)
  PROVE  IInv' /\ up' = up
<1> USE DEF IInv, Typed
<1>1. PICK m \in Downs : /\ down' = [down EXCEPT ![w] = Append(@, m)] /\ m.kind = "peer_info"
                         /\ srv' = [srv EXCEPT ![w] = "authorized"]
  BY DEF authorize, send_logon_response, Accepted, Downs
<1>2. /\ require_2fa' = [require_2fa EXCEPT ![w] = FALSE]
      /\ UNCHANGED <<temp, session, ids, trusted, cli, password, saved, up, shown, coded, vouched>>
      /\ srv[w] = "open"
  BY DEF authorize, client
<1>3. /\ Append(down[w], m) \in Seq(Downs)
      /\ Has(Append(down[w], m), {"require_2fa"}) => Has(down[w], {"require_2fa"})
  BY <1>1, Channels
<1>4. Typed'
  <2>1. down' \in [Windows -> Seq(Downs)]
    BY <1>1, <1>3
  <2>2. srv' \in [Windows -> {"none", "open", "authorized"}]
    BY <1>1
  <2>3. require_2fa' \in [Windows -> BOOLEAN]
    BY <1>2
  <2> QED BY <1>2, <2>1, <2>2, <2>3
<1>5. CodeAfterPassword'
  BY <1>1, <1>2, <1>3 DEF CodeAfterPassword
<1>6. Entry' /\ CodeRequired'
  BY <1>1, <1>2 DEF Entry, CodeRequired
<1> QED BY <1>2, <1>4, <1>5, <1>6

(* What a window has shown by the time that it is let in.                  *)
Proved(w) ==
  srv[w] = "open" /\ srv'[w] = "authorized" => vouched'[w] /\ (TwoFactor => coded' \/ trusted')

(* Whoever is authorized by a code has shown a password before.              *)
LEMMA Auth2faInv ==
  ASSUME IInv, NEW w \in Windows, auth_2fa(w)
  PROVE  IInv' /\ \A v \in Windows : Proved(v)
<1> USE DEF IInv, Typed
<1> DEFINE m == Head(up[w])
<1>1. /\ up[w] # <<>> /\ up' = [up EXCEPT ![w] = Tail(up[w])] /\ m.kind \in CodeKinds
      /\ UNCHANGED <<temp, cli, password, saved, shown, vouched>>
  BY DEF auth_2fa, Popped, client, CodeKinds
<1>2. /\ Tail(up[w]) \in Seq(Ups) /\ m \in Ups /\ Has(up[w], CodeKinds)
      /\ Has(Tail(up[w]), CodeKinds) => Has(up[w], CodeKinds)
  BY <1>1, Channels
<1>3. srv[w] # "none" => vouched[w]
  BY <1>2 DEF CodeAfterPassword
<1>4. CASE srv[w] = "open" /\ require_2fa[w] /\ m.kind # "wrong_code"
  <2>1. /\ require_2fa' = [require_2fa EXCEPT ![w] = FALSE]
        /\ session' = set_session_2fa
        /\ allocated(session')
        /\ send_logon_response(w, m.pw, FALSE, session')
        /\ trusted' = (trusted \/ m.kind = "code_and_trust")
        /\ coded' = TRUE
    BY <1>4 DEF auth_2fa
  <2>2. PICK a \in Downs : /\ down' = [down EXCEPT ![w] = Append(@, a)] /\ a.kind = "peer_info"
                           /\ srv' = [srv EXCEPT ![w] = "authorized"]
    BY <2>1 DEF send_logon_response, Accepted, Downs
  <2>3. /\ Append(down[w], a) \in Seq(Downs)
        /\ Has(Append(down[w], a), {"require_2fa"}) => Has(down[w], {"require_2fa"})
    BY <2>2, Channels
  <2>4. /\ session' \in [random_password : Nat, tfa : BOOLEAN, id : Nat]
        /\ ids' \in Nat
        /\ session'.random_password # 0 => session.random_password # 0
    <3>1. ids + 1 \in Nat
      OBVIOUS
    <3> QED BY <2>1, <3>1 DEF set_session_2fa, allocated
  <2>5. Typed'
    <3>1. down' \in [Windows -> Seq(Downs)] /\ up' \in [Windows -> Seq(Ups)]
      BY <1>1, <1>2, <2>2, <2>3
    <3>2. srv' \in [Windows -> {"none", "open", "authorized"}]
      BY <2>2
    <3>3. require_2fa' \in [Windows -> BOOLEAN] /\ vouched' \in [Windows -> BOOLEAN]
      BY <1>1, <2>1
    <3>4. trusted' \in BOOLEAN /\ coded' \in BOOLEAN
      BY <2>1, Zenon
    <3> QED BY <1>1, <2>4, <3>1, <3>2, <3>3, <3>4
  <2>6. CodeAfterPassword'
    BY <1>1, <1>2, <1>3, <1>4, <2>2, <2>3 DEF CodeAfterPassword
  <2>7. Entry' /\ CodeRequired'
    BY <1>1, <2>1, <2>2, <2>4 DEF Entry, CodeRequired
  <2>8. \A v \in Windows : Proved(v)
    BY <1>1, <1>3, <1>4, <2>1, <2>2 DEF Proved
  <2> QED BY <2>5, <2>6, <2>7, <2>8
<1>5. CASE ~(srv[w] = "open" /\ require_2fa[w] /\ m.kind # "wrong_code")
  <2>1. /\ UNCHANGED <<require_2fa, session, ids, srv, trusted, coded>>
        /\ down' = down \/ (down' = [down EXCEPT ![w] = Append(@, Error("require_2fa"))]
                           /\ srv[w] = "open")
    BY <1>5 DEF auth_2fa
  <2>2. \E s \in Seq(Downs) : /\ down' = [down EXCEPT ![w] = s]
                              /\ srv[w] # "none" /\ Has(s, {"require_2fa"}) => vouched[w]
    <3>1. Error("require_2fa") \in Downs
      BY DEF Error, Downs
    <3>2. Append(down[w], Error("require_2fa")) \in Seq(Downs)
      BY <3>1, Channels
    <3>3. down = [down EXCEPT ![w] = down[w]]
      OBVIOUS
    <3> QED BY <1>3, <2>1, <3>2, <3>3
  <2>3. Typed'
    <3>1. down' \in [Windows -> Seq(Downs)]
      BY <2>2
    <3>2. up' \in [Windows -> Seq(Ups)]
      BY <1>1, <1>2
    <3>3. /\ require_2fa' \in [Windows -> BOOLEAN] /\ vouched' \in [Windows -> BOOLEAN]
          /\ trusted' \in BOOLEAN /\ coded' \in BOOLEAN
      BY <1>1, <2>1
    <3>4. /\ ids' \in Nat /\ srv' \in [Windows -> {"none", "open", "authorized"}]
          /\ session' \in [random_password : Nat, tfa : BOOLEAN, id : Nat]
      BY <2>1
    <3> QED BY <1>1, <3>1, <3>2, <3>3, <3>4
  <2>4. CodeAfterPassword'
    BY <1>1, <1>2, <1>3, <2>1, <2>2 DEF CodeAfterPassword
  <2>5. Entry' /\ CodeRequired' /\ \A v \in Windows : Proved(v)
    BY <1>1, <2>1 DEF Entry, CodeRequired, Proved
  <2> QED BY <2>3, <2>4, <2>5
<1> QED BY <1>4, <1>5

(* What a request to log in may do to the session and to its window.       *)
Served(w) ==
  /\ \E s \in Seq(Downs) : /\ down' = [down EXCEPT ![w] = s]
                           /\ Has(s, {"require_2fa"}) => Has(down[w], {"require_2fa"}) \/ vouched'[w]
  /\ \/ srv' = srv
     \/ srv' = [srv EXCEPT ![w] = "authorized"] /\ vouched'[w] /\ Proved(w)
  /\ vouched' = vouched \/ vouched' = [vouched EXCEPT ![w] = TRUE]
  /\ session' \in [random_password : Nat, tfa : BOOLEAN, id : Nat] /\ ids' \in Nat
  /\ shown' \in Nat /\ coded' \in BOOLEAN
  /\ Entry'

(* Asking the user at the host, or for a password, authorizes nobody.        *)
LEMMA AskServes ==
  ASSUME IInv, NEW w \in Windows, NEW answer \in {<<>>, <<Error("wrong")>>, <<Error("no_password_access")>>},
         ask(w, answer)
  PROVE  Served(w)
<1> USE DEF IInv, Typed
<1>1. /\ down' = [down EXCEPT ![w] = @ \o answer]
      /\ UNCHANGED <<srv, session, ids, shown, coded, vouched>>
  BY DEF ask, history
<1>2. /\ down[w] \o answer \in Seq(Downs)
      /\ Has(down[w] \o answer, {"require_2fa"}) => Has(down[w], {"require_2fa"})
  <2>1. CASE answer = <<>>
    BY <2>1, Channels
  <2>2. CASE answer # <<>>
    <3>1. PICK m \in Downs : answer = <<m>> /\ m.kind # "require_2fa"
      <4>1. /\ Error("wrong") \in Downs /\ Error("wrong").kind # "require_2fa"
            /\ Error("no_password_access") \in Downs
            /\ Error("no_password_access").kind # "require_2fa"
        BY DEF Error, Downs
      <4> QED BY <2>2, <4>1
    <3> QED BY <3>1, Channels
  <2> QED BY <2>1, <2>2
<1>3. Entry'
  BY <1>1 DEF Entry
<1> QED BY <1>1, <1>2, <1>3 DEF Served

(* A password that is valid authorizes, or asks for the second factor where  *)
(* one is required.                                                          *)
LEMMA ValidateServes ==
  ASSUME IInv, NEW w \in Windows, NEW pw \in Nat \ {0}, validate(w, pw),
         require_2fa' = [require_2fa EXCEPT ![w] = @ /\ ~trusted], trusted' = trusted
  PROVE  Served(w)
<1> USE DEF IInv, Typed
<1>1. CASE ask(w, <<Error("wrong")>>)
  BY <1>1, AskServes
<1>2. CASE ~ask(w, <<Error("wrong")>>)
  <2>1. /\ vouched' = [vouched EXCEPT ![w] = TRUE]
        /\ session' \in [random_password : Nat, tfa : BOOLEAN, id : Nat] /\ ids' \in Nat
        /\ shown' \in Nat /\ coded' \in BOOLEAN
        /\ Entry'
        /\ send_logon_response(w, pw, require_2fa'[w], session')
    <3>1. CASE /\ is_recent_session(pw)
               /\ send_logon_response(w, pw, require_2fa'[w], session)
               /\ vouched' = [vouched EXCEPT ![w] = shown # 0]
               /\ UNCHANGED <<session, ids, asked, shown, coded>>
      <4>1. shown # 0
        BY <3>1 DEF is_recent_session, Entry
      <4> QED BY <3>1, <4>1 DEF Entry
    <3>2. CASE /\ session' = update_or_insert_session(pw)
               /\ allocated(session')
               /\ send_logon_response(w, pw, require_2fa'[w], session')
               /\ shown' = pw
               /\ coded' = FALSE
               /\ vouched' = [vouched EXCEPT ![w] = TRUE]
      <4>1. session' \in [random_password : Nat, tfa : BOOLEAN, id : Nat] /\ ids' \in Nat
        BY <3>2 DEF update_or_insert_session, allocated
      <4>2. Entry'
        BY <3>2 DEF update_or_insert_session, Entry
      <4> QED BY <3>2, <4>1, <4>2
    <3>3. CASE /\ send_logon_response(w, pw, require_2fa'[w], session)
               /\ shown' = pw
               /\ vouched' = [vouched EXCEPT ![w] = TRUE]
               /\ UNCHANGED <<session, ids, asked, coded>>
      BY <3>3 DEF Entry
    <3> QED BY <1>2, <3>1, <3>2, <3>3 DEF validate
  <2>2. require_2fa'[w] \in BOOLEAN /\ require_2fa'[w] = (require_2fa[w] /\ ~trusted)
    BY Zenon
  <2>3. PICK m \in Downs :
          /\ down' = [down EXCEPT ![w] = Append(@, m)]
          /\ \/ /\ m.kind = "require_2fa" /\ srv' = srv
             \/ /\ m.kind = "peer_info" /\ srv' = [srv EXCEPT ![w] = "authorized"]
                /\ require_2fa'[w] => session'.tfa
    <3>1. send_logon_response(w, pw, require_2fa'[w], session')
      BY <2>1
    <3> HIDE DEF IInv, Typed
    <3> QED BY <3>1, Answered, Zenon
  <2>4. Append(down[w], m) \in Seq(Downs) /\ vouched'[w]
    BY <2>1, Channels
  <2>5. srv' # srv => Proved(w)
    BY <2>1, <2>2, <2>3, <2>4 DEF Proved, Entry, CodeRequired
  <2>6. \E s \in Seq(Downs) : /\ down' = [down EXCEPT ![w] = s]
                              /\ Has(s, {"require_2fa"}) => Has(down[w], {"require_2fa"}) \/ vouched'[w]
    BY <2>3, <2>4
  <2> QED BY <2>1, <2>3, <2>5, <2>6 DEF Served
<1> QED BY <1>1, <1>2

(* A login request authorizes only after one of the two.                     *)
LEMMA LoginRequestInv ==
  ASSUME IInv, NEW w \in Windows, login_request(w)
  PROVE  IInv' /\ \A v \in Windows : Proved(v)
<1> USE DEF IInv, Typed
<1> DEFINE m == Head(up[w])
<1>1. /\ up[w] # <<>> /\ up' = [up EXCEPT ![w] = Tail(up[w])]
      /\ UNCHANGED <<temp, cli, password, saved, trusted>>
  BY DEF login_request, Popped, client
<1>2. /\ Tail(up[w]) \in Seq(Ups) /\ m \in Ups
      /\ Has(Tail(up[w]), CodeKinds) => Has(up[w], CodeKinds)
  BY <1>1, Channels
<1>3. /\ Served(w)
      /\ \/ require_2fa' = require_2fa
         \/ require_2fa' = [require_2fa EXCEPT ![w] = @ /\ ~trusted]
  <2>1. CASE srv[w] = "authorized"
    <3>1. UNCHANGED <<srv, session, ids, down, shown, coded, vouched, require_2fa>>
      BY <2>1 DEF login_request, history
    <3>2. down' = [down EXCEPT ![w] = down[w]]
      BY <3>1
    <3>3. Entry'
      BY <3>1 DEF Entry
    <3>4. \E s \in Seq(Downs) : /\ down' = [down EXCEPT ![w] = s]
                                /\ Has(s, {"require_2fa"}) => Has(down[w], {"require_2fa"}) \/ vouched'[w]
      BY <3>2
    <3>5. coded' \in BOOLEAN
      BY <3>1
    <3> QED BY <3>1, <3>3, <3>4, <3>5 DEF Served
  <2>2. CASE srv[w] # "authorized"
    <3>1. require_2fa' = [require_2fa EXCEPT ![w] = @ /\ ~trusted]
      BY <2>2 DEF login_request
    <3>2. \/ ask(w, <<Error("no_password_access")>>)
          \/ ask(w, <<>>)
          \/ m.pw # 0 /\ validate(w, m.pw)
      BY <2>2 DEF login_request
    <3>3. m.pw \in Nat
      BY <1>2 DEF Ups
    <3> QED BY <1>1, <3>1, <3>2, <3>3, AskServes, ValidateServes
  <2> QED BY <2>1, <2>2
<1>4. Typed'
  <2>1. up' \in [Windows -> Seq(Ups)]
    BY <1>1, <1>2
  <2>2. down' \in [Windows -> Seq(Downs)]
    BY <1>3 DEF Served
  <2>3. srv' \in [Windows -> {"none", "open", "authorized"}]
    BY <1>3 DEF Served
  <2>4. require_2fa' \in [Windows -> BOOLEAN] /\ vouched' \in [Windows -> BOOLEAN]
    BY <1>3 DEF Served
  <2>5. /\ session' \in [random_password : Nat, tfa : BOOLEAN, id : Nat] /\ ids' \in Nat
        /\ shown' \in Nat /\ coded' \in BOOLEAN
    BY <1>3 DEF Served
  <2> QED BY <1>1, <2>1, <2>2, <2>3, <2>4, <2>5
<1>5. CodeAfterPassword'
  BY <1>1, <1>2, <1>3 DEF Served, CodeAfterPassword
<1>6. Entry' /\ CodeRequired'
  BY <1>1, <1>3 DEF Served, CodeRequired
<1>7. \A v \in Windows : Proved(v)
  BY <1>3 DEF Served, Proved
<1> QED BY <1>4, <1>5, <1>6, <1>7

-----------------------------------------------------------------------------
(* A step lets nobody in without a message of the window, a click aside.   *)
LEMMA StepInv == IInv /\ [Next]_vars => IInv' /\ \A w \in Windows : up'[w] # up[w] => Proved(w)
<1> SUFFICES ASSUME IInv, [Next]_vars
             PROVE  IInv' /\ \A w \in Windows : up'[w] # up[w] => Proved(w)
  OBVIOUS
<1>1. CASE ghost_ends \/ update_temporary_password \/ session_lapses \/ UNCHANGED vars
  <2>1. srv' = srv
    BY <1>1 DEF ghost_ends, update_temporary_password, session_lapses, vars, server
  <2> QED BY <1>1, <2>1, QuietInv DEF Proved
<1>2. ASSUME NEW w \in Windows, login_request(w) \/ auth_2fa(w)
      PROVE  IInv' /\ \A v \in Windows : up'[v] # up[v] => Proved(v)
  BY <1>2, LoginRequestInv, Auth2faInv
<1>3. ASSUME NEW w \in Windows, authorize(w)
      PROVE  IInv' /\ \A v \in Windows : up'[v] # up[v] => Proved(v)
  BY <1>3, AuthorizeInv
<1>4. ASSUME NEW w \in Windows, \/ close_by_cm(w) \/ connect(w) \/ login_from_ui(w) \/ send2fa(w)
                               \/ receive(w) \/ close(w) \/ link_breaks(w)
      PROVE  IInv' /\ \A v \in Windows : up'[v] # up[v] => Proved(v)
  <2>1. srv' = srv \/ srv' = [srv EXCEPT ![w] = "none"] \/ srv' = [srv EXCEPT ![w] = "open"]
    BY <1>4 DEF close_by_cm, connect, login_from_ui, send2fa, receive, close, link_breaks, ended, server
  <2>2. \A v \in Windows : Proved(v)
    BY <2>1 DEF Proved, IInv, Typed
  <2> QED BY <1>4, <2>2, EndInv, ConnectInv, SendInv, ReceiveInv
<1> QED BY <1>1, <1>2, <1>3, <1>4 DEF Next

(* The inductive invariant holds of every behaviour of the login.            *)
THEOREM Invariance == Spec => []IInv
<1>1. IInv /\ [Next]_vars => IInv'
  BY StepInv
<1> QED BY InitInv, <1>1, PTL DEF Spec

(* Whoever gets in without a click has shown a password that was valid in  *)
(* the session and, if one is required, has given a code after that or has *)
(* a trusted device: Connection::on_message, LoginRequest and Auth2fa.     *)
THEOREM EntryIsProved == Spec => AuthorizedIsProved
<1>1. IInv /\ [Next]_vars =>
        [\A w \in Windows :
           srv[w] = "open" /\ srv'[w] = "authorized" /\ up'[w] # up[w] =>
             /\ vouched'[w]
             /\ TwoFactor => coded' \/ trusted']_vars
  BY StepInv DEF Proved
<1> QED BY Invariance, <1>1, PTL DEF Spec, AuthorizedIsProved

-----------------------------------------------------------------------------
(* Whose turn it is.                                                       *)

(* A request that is answered by more than asking the user of the host.    *)
Real(m) == m.kind # "login" \/ m.pw # 0
Asks(s) == \E i \in DOMAIN s : Real(s[i])
AllReal(s) == \A i \in DOMAIN s : Real(s[i])
From(s, p) == \A i \in DOMAIN s : Real(s[i]) => s[i].pw = p

(* A window sends one such request at a time, at most behind the first one *)
(* that had no password.                                                   *)
InTurn(s) == Len(s) < 2 \/ (Len(s) = 2 /\ ~Real(s[1]) /\ Real(s[2]))

(* The answers after which the window asks its user.                       *)
Answers == {"wrong", "require_2fa"}
Typing == {"password", "2fa"}
Once(s) == \A i, j \in DOMAIN s : s[i].kind \in Answers /\ s[j].kind \in Answers => i = j

(* The last message is the one that the window is in.                      *)
Welcome(s) == s # <<>> /\ s[Len(s)].kind = "peer_info"

(* A code was asked for and has not been taken.                            *)
Due(u, d, c) == c = "2fa" \/ Has(u, CodeKinds) \/ Has(d, {"require_2fa"})

(* A window in state c, with password p, its connection in state s, which  *)
(* the host was asked about (a) and which requires a code (r), and the     *)
(* messages u and d between them.                                          *)
Fit(u, d, c, p, s, a, r) ==
  /\ InTurn(u) /\ Once(d) /\ From(u, p)
  /\ Asks(u) => ~Has(d, Answers) /\ c \notin Typing
  /\ Has(d, Answers) => c \notin Typing
  /\ s = "authorized" => (c = "on" /\ d = <<>>) \/ Welcome(d)
  /\ Due(u, d, c) => /\ s = "open" => r
                     /\ p # 0 /\ ~only_click /\ (p = Permanent => PermanentEnabled)
                     /\ AllReal(u)
  /\ r => TwoFactor
  /\ s = "open" /\ Has(d, {"no_password_access"}) => a
  /\ s # "none" /\ c = "wait" => u # <<>> \/ d # <<>> \/ a
  /\ s = "none" => u = <<>>

(* What taking the first request, and sending one, do to what is awaited.  *)
LEMMA FirstRequest ==
  ASSUME NEW u \in Seq(Ups), u # <<>>
  PROVE  /\ Tail(u) \in Seq(Ups) /\ Head(u) \in Ups
         /\ InTurn(u) => InTurn(Tail(u))
         /\ InTurn(u) /\ Real(Head(u)) => Tail(u) = <<>>
         /\ Real(Head(u)) => Asks(u)
         /\ ~Real(Head(u)) => ~AllReal(u)
         /\ Head(u).kind \in CodeKinds => Has(u, CodeKinds)
         /\ Has(Tail(u), CodeKinds) => Has(u, CodeKinds)
         /\ Asks(Tail(u)) => Asks(u)
         /\ AllReal(u) => AllReal(Tail(u))
         /\ \A p : From(u, p) => From(Tail(u), p) /\ (Real(Head(u)) => Head(u).pw = p)
<1>1. /\ Tail(u) \in Seq(Ups) /\ Head(u) \in Ups /\ Head(u) = u[1] /\ 1 \in DOMAIN u
      /\ Len(Tail(u)) = Len(u) - 1 /\ Len(u) \in Nat
      /\ \A i \in DOMAIN Tail(u) : i + 1 \in DOMAIN u /\ Tail(u)[i] = u[i + 1]
  OBVIOUS
<1>2. InTurn(u) => InTurn(Tail(u)) /\ (Real(Head(u)) => Tail(u) = <<>>)
  <2> SUFFICES ASSUME InTurn(u) PROVE InTurn(Tail(u)) /\ (Real(Head(u)) => Tail(u) = <<>>)
    OBVIOUS
  <2>1. Len(u) < 2 \/ (Len(u) = 2 /\ ~Real(Head(u)))
    BY <1>1 DEF InTurn
  <2>2. Len(Tail(u)) < 2
    BY <1>1, <2>1
  <2>3. Len(u) < 2 => Tail(u) = <<>>
    BY <1>1
  <2> QED BY <2>1, <2>2, <2>3 DEF InTurn
<1> QED BY <1>1, <1>2, Zenon DEF Asks, AllReal, From, Has

LEMMA OneMoreRequest ==
  ASSUME NEW u \in Seq(Ups), NEW m \in Ups, Real(m), InTurn(u), ~Asks(u)
  PROVE  /\ Append(u, m) \in Seq(Ups) /\ InTurn(Append(u, m)) /\ Append(u, m) # <<>>
         /\ From(Append(u, m), m.pw)
         /\ AllReal(u) => AllReal(Append(u, m))
         /\ Has(Append(u, m), CodeKinds) => m.kind \in CodeKinds
<1>1. /\ Append(u, m) \in Seq(Ups) /\ Len(Append(u, m)) = Len(u) + 1 /\ Len(u) \in Nat
      /\ Append(u, m)[Len(u) + 1] = m /\ Append(u, m) # <<>>
      /\ \A i \in DOMAIN u : Append(u, m)[i] = u[i]
      /\ \A i \in DOMAIN Append(u, m) : i \in DOMAIN u \/ i = Len(u) + 1
  OBVIOUS
<1>2. \A i \in DOMAIN u : ~Real(u[i])
  BY DEF Asks
<1>3. InTurn(Append(u, m))
  <2>1. Len(u) < 2
    <3>1. Len(u) = 2 => 2 \in DOMAIN u
      BY <1>1
    <3> QED BY <1>1, <1>2, <3>1 DEF InTurn
  <2>2. Len(u) = 1 => ~Real(Append(u, m)[1])
    <3>1. Len(u) = 1 => 1 \in DOMAIN u
      BY <1>1
    <3> QED BY <1>1, <1>2, <3>1
  <2>3. Len(u) = 1 => Real(Append(u, m)[2])
    BY <1>1
  <2>4. Len(Append(u, m)) < 2 \/ (Len(u) = 1 /\ Len(Append(u, m)) = 2)
    <3>1. PICK n \in Nat, k \in Nat : n = Len(u) /\ k = Len(Append(u, m)) /\ k = n + 1 /\ n < 2
      BY <1>1, <2>1
    <3> QED BY <3>1
  <2> QED BY <2>2, <2>3, <2>4 DEF InTurn
<1>4. AllReal(u) => AllReal(Append(u, m))
  BY <1>1 DEF AllReal
<1>5. From(Append(u, m), m.pw)
  BY <1>1, <1>2 DEF From
<1>6. Has(Append(u, m), CodeKinds) => m.kind \in CodeKinds
  BY <1>1, <1>2 DEF Has, Real, CodeKinds
<1> QED BY <1>1, <1>3, <1>4, <1>5, <1>6

(* The same for what comes down.                                           *)
LEMMA FirstAnswer ==
  ASSUME NEW d \in Seq(Downs), d # <<>>
  PROVE  /\ Tail(d) \in Seq(Downs) /\ Head(d) \in Downs
         /\ Once(d) => Once(Tail(d)) /\ (Head(d).kind \in Answers => ~Has(Tail(d), Answers))
         /\ Welcome(d) => (Head(d).kind = "peer_info" /\ Tail(d) = <<>>) \/ Welcome(Tail(d))
         /\ \A K : /\ Head(d).kind \in K => Has(d, K)
                   /\ Has(Tail(d), K) => Has(d, K)
<1>1. /\ Tail(d) \in Seq(Downs) /\ Head(d) \in Downs /\ Head(d) = d[1] /\ 1 \in DOMAIN d
      /\ Len(Tail(d)) = Len(d) - 1 /\ Len(d) \in Nat
      /\ \A i \in DOMAIN Tail(d) : i \in Nat /\ i >= 1 /\ i + 1 \in DOMAIN d /\ Tail(d)[i] = d[i + 1]
  OBVIOUS
<1>2. Once(d) => Once(Tail(d))
  <2> SUFFICES ASSUME Once(d), NEW i \in DOMAIN Tail(d), NEW j \in DOMAIN Tail(d),
                      Tail(d)[i].kind \in Answers, Tail(d)[j].kind \in Answers
               PROVE  i = j
    BY DEF Once
  <2>1. i + 1 = j + 1
    BY <1>1 DEF Once
  <2> QED BY <1>1, <2>1
<1>3. Once(d) /\ Head(d).kind \in Answers => ~Has(Tail(d), Answers)
  <2> SUFFICES ASSUME Once(d), Head(d).kind \in Answers, NEW i \in DOMAIN Tail(d),
                      Tail(d)[i].kind \in Answers
               PROVE  FALSE
    BY DEF Has
  <2>1. i + 1 = 1
    BY <1>1 DEF Once
  <2> QED BY <1>1, <2>1
<1>4. Welcome(d) => (Head(d).kind = "peer_info" /\ Tail(d) = <<>>) \/ Welcome(Tail(d))
  <2> SUFFICES ASSUME Welcome(d)
               PROVE  (Head(d).kind = "peer_info" /\ Tail(d) = <<>>) \/ Welcome(Tail(d))
    OBVIOUS
  <2>1. CASE Len(d) = 1
    BY <1>1, <2>1 DEF Welcome
  <2>2. CASE Len(d) # 1
    <3>1. Len(Tail(d)) \in DOMAIN Tail(d) /\ Tail(d) # <<>> /\ Len(Tail(d)) + 1 = Len(d)
      <4>1. Len(d) > 1
        BY <1>1, <2>2
      <4>2. Len(Tail(d)) \in 1 .. Len(Tail(d)) /\ Len(Tail(d)) + 1 = Len(d)
        BY <1>1, <4>1
      <4>3. PICK t \in Seq(Downs) : t = Tail(d)
        BY <1>1
      <4>4. DOMAIN t = 1 .. Len(t) /\ (t = <<>> => Len(t) = 0)
        OBVIOUS
      <4>5. Len(t) > 0
        BY <1>1, <4>1, <4>3
      <4> QED BY <4>2, <4>3, <4>4, <4>5
    <3> QED BY <1>1, <3>1 DEF Welcome
  <2> QED BY <2>1, <2>2
<1> QED BY <1>1, <1>2, <1>3, <1>4, Zenon DEF Has

LEMMA OneMoreAnswer ==
  ASSUME NEW d \in Seq(Downs), NEW m \in Downs
  PROVE  /\ Append(d, m) \in Seq(Downs) /\ Append(d, m) # <<>> /\ d \o <<m>> = Append(d, m)
         /\ m.kind \notin Answers /\ Once(d) => Once(Append(d, m))
         /\ ~Has(d, Answers) => Once(Append(d, m))
         /\ m.kind = "peer_info" => Welcome(Append(d, m))
         /\ \A K : Has(Append(d, m), K) => Has(d, K) \/ m.kind \in K
<1>1. /\ Append(d, m) \in Seq(Downs) /\ Len(Append(d, m)) = Len(d) + 1 /\ Len(d) \in Nat
      /\ Append(d, m)[Len(d) + 1] = m /\ Append(d, m) # <<>> /\ d \o <<m>> = Append(d, m)
      /\ \A i \in DOMAIN d : Append(d, m)[i] = d[i]
      /\ \A i \in DOMAIN Append(d, m) : i \in DOMAIN d \/ i = Len(d) + 1
  OBVIOUS
<1>2. m.kind \notin Answers /\ Once(d) => Once(Append(d, m))
  BY <1>1, Zenon DEF Once
<1>3. ~Has(d, Answers) => Once(Append(d, m))
  BY <1>1, Zenon DEF Once, Has
<1>4. \A K : Has(Append(d, m), K) => Has(d, K) \/ m.kind \in K
  BY <1>1, Zenon DEF Has
<1>5. m.kind = "peer_info" => Welcome(Append(d, m))
  BY <1>1, Zenon DEF Welcome
<1> QED BY <1>1, <1>2, <1>3, <1>4, <1>5

(* Nothing under way: nothing awaited.                                     *)
LEMMA Silence ==
  /\ InTurn(<<>>) /\ Once(<<>>) /\ AllReal(<<>>) /\ ~Asks(<<>>)
  /\ \A p : From(<<>>, p)
  /\ \A K : ~Has(<<>>, K)
BY DEF InTurn, Once, AllReal, Asks, From, Has

-----------------------------------------------------------------------------
(* What the steps do to a window that fits its connection.  The client's:   *)
(* it connects, sends what its user typed, and hears an answer.             *)
LEMMA FitConnect ==
  ASSUME NEW p \in Nat, NEW a
  PROVE  Fit(<<Login(p)>>, <<>>, IF p = 0 THEN "password" ELSE "wait", p, "open", a, TwoFactor)
<1> DEFINE u == <<Login(p)>>
<1>1. /\ Len(u) = 1 /\ DOMAIN u = {1} /\ u[1] = Login(p) /\ u # <<>>
      /\ Login(p).kind = "login" /\ Login(p).pw = p
  BY DEF Login
<1> HIDE DEF u
<1>2. InTurn(u) /\ From(u, p) /\ (Asks(u) <=> p # 0) /\ ~Has(u, CodeKinds)
  BY <1>1 DEF InTurn, From, Asks, Real, Has, CodeKinds
<1> QED BY <1>1, <1>2, Silence DEF Fit, Due, Typing, u

LEMMA FitSend ==
  ASSUME NEW u \in Seq(Ups), NEW m \in Ups, Real(m), NEW d, NEW c \in Typing, NEW p, NEW s, NEW a, NEW r,
         Fit(u, d, c, p, s, a, r),
         m.kind \in CodeKinds => c = "2fa" /\ m.pw = p
  PROVE  /\ s # "none" => Fit(Append(u, m), d, "wait", m.pw, s, a, r)
         /\ s = "none" => Fit(u, d, "wait", m.pw, s, a, r)
<1>1. ~Asks(u) /\ ~Has(d, Answers) /\ InTurn(u)
  BY DEF Fit
<1>2. ~Has(d, {"require_2fa"}) /\ ~Has(u, CodeKinds)
  BY <1>1 DEF Has, Answers, Asks, Real, CodeKinds
<1>3. From(u, m.pw)
  BY <1>1 DEF From, Asks
<1>4. s # "none" => Fit(Append(u, m), d, "wait", m.pw, s, a, r)
  <2>1. Due(Append(u, m), d, "wait") => m.kind \in CodeKinds
    BY <1>1, <1>2, OneMoreRequest DEF Due
  <2>2. m.kind \in CodeKinds => Due(u, d, c)
    BY DEF Due
  <2> QED BY <1>1, <1>2, <2>1, <2>2, OneMoreRequest DEF Fit, Typing
<1>5. s = "none" => Fit(u, d, "wait", m.pw, s, a, r)
  BY <1>1, <1>2, <1>3 DEF Fit, Due
<1> QED BY <1>4, <1>5

LEMMA FitHear ==
  ASSUME NEW u, NEW d \in Seq(Downs), d # <<>>, NEW c, NEW p,
         NEW s \in {"none", "open", "authorized"}, NEW a, NEW r,
         Fit(u, d, c, p, s, a, r), NEW k, k = Head(d).kind
  PROVE  /\ k = "peer_info" => Fit(u, Tail(d), "on", p, s, a, r)
         /\ k = "wrong" => Fit(u, Tail(d), "password", 0, s, a, r) /\ ~Asks(u)
         /\ k = "require_2fa" => Fit(u, Tail(d), "2fa", p, s, a, r) /\ ~Asks(u)
         /\ k = "no_password_access" => Fit(u, Tail(d), c, p, s, a, r)
         /\ k = "closed" => Fit(u, Tail(d), "broken", p, s, a, r)
<1>1. /\ Once(Tail(d)) /\ (k \in Answers => ~Has(Tail(d), Answers) /\ Has(d, Answers))
      /\ \A K : (k \in K => Has(d, K)) /\ (Has(Tail(d), K) => Has(d, K))
      /\ Welcome(d) => (k = "peer_info" /\ Tail(d) = <<>>) \/ Welcome(Tail(d))
  BY FirstAnswer DEF Fit
<1>2. Welcome(Tail(d)) => Tail(d) # <<>>
  BY DEF Welcome
<1>3. k = "peer_info" => Fit(u, Tail(d), "on", p, s, a, r)
  <2> SUFFICES ASSUME k = "peer_info" PROVE Fit(u, Tail(d), "on", p, s, a, r)
    OBVIOUS
  <2>1. Due(u, Tail(d), "on") => Due(u, d, c)
    BY <1>1 DEF Due
  <2> QED BY <1>1, <1>2, <2>1 DEF Fit, Typing
<1>4. k \in Answers => ~Asks(u) /\ ~Has(u, CodeKinds) /\ \A q : From(u, q)
  <2>1. k \in Answers => ~Asks(u)
    BY <1>1 DEF Fit
  <2> QED BY <2>1 DEF Asks, Has, From, Real, CodeKinds
<1>5. k = "wrong" => Fit(u, Tail(d), "password", 0, s, a, r) /\ ~Asks(u)
  <2> SUFFICES ASSUME k = "wrong" PROVE Fit(u, Tail(d), "password", 0, s, a, r) /\ ~Asks(u)
    OBVIOUS
  <2>1. k \in Answers /\ ~Has(Tail(d), {"require_2fa"})
    BY <1>1 DEF Answers, Has
  <2>2. ~Due(u, Tail(d), "password")
    BY <1>4, <2>1 DEF Due
  <2> QED BY <1>1, <1>2, <1>4, <2>1, <2>2 DEF Fit
<1>6. k = "require_2fa" => Fit(u, Tail(d), "2fa", p, s, a, r) /\ ~Asks(u)
  <2> SUFFICES ASSUME k = "require_2fa" PROVE Fit(u, Tail(d), "2fa", p, s, a, r) /\ ~Asks(u)
    OBVIOUS
  <2>1. k \in Answers /\ Due(u, d, c)
    BY <1>1 DEF Answers, Due
  <2> QED BY <1>1, <1>2, <1>4, <2>1 DEF Fit
<1>7. k = "no_password_access" => Fit(u, Tail(d), c, p, s, a, r)
  <2> SUFFICES ASSUME k = "no_password_access" PROVE Fit(u, Tail(d), c, p, s, a, r)
    OBVIOUS
  <2>1. Due(u, Tail(d), c) => Due(u, d, c)
    BY <1>1 DEF Due
  <2>2. Has(d, {"no_password_access"})
    BY <1>1
  <2>3. d # <<>>
    OBVIOUS
  <2>4. s = "authorized" => (c = "on" /\ Tail(d) = <<>>) \/ Welcome(Tail(d))
    BY <1>1, <2>3 DEF Fit
  <2> QED BY <1>1, <1>2, <2>1, <2>2, <2>4 DEF Fit
<1>8. k = "closed" => Fit(u, Tail(d), "broken", p, s, a, r)
  <2> SUFFICES ASSUME k = "closed" PROVE Fit(u, Tail(d), "broken", p, s, a, r)
    OBVIOUS
  <2>1. Due(u, Tail(d), "broken") => Due(u, d, c)
    BY <1>1 DEF Due
  <2>2. d # <<>>
    OBVIOUS
  <2> QED BY <1>1, <1>2, <2>1, <2>2 DEF Fit, Typing
<1> QED BY <1>3, <1>5, <1>6, <1>7, <1>8

(* The connection ends, or is told so.                                      *)
LEMMA FitEnd ==
  ASSUME NEW u, NEW d \in Seq(Downs), NEW c, NEW p, NEW s, NEW a, NEW r,
         Fit(u, d, c, p, s, a, r)
  PROVE  /\ Fit(<<>>, Append(d, Error("closed")), c, p, "none", FALSE, FALSE)
         /\ \A b \in {"off", "closed"} : Fit(<<>>, <<>>, b, 0, "none", FALSE, FALSE)
         /\ Fit(<<>>, <<>>, "broken", p, "none", FALSE, FALSE)
<1>1. Error("closed") \in Downs /\ Error("closed").kind = "closed"
  BY DEF Error, Downs
<1>2. /\ Once(Append(d, Error("closed")))
      /\ Has(Append(d, Error("closed")), Answers) => Has(d, Answers)
      /\ Has(Append(d, Error("closed")), {"require_2fa"}) => Has(d, {"require_2fa"})
  BY <1>1, OneMoreAnswer DEF Fit, Answers
<1> QED BY <1>2, Silence DEF Fit, Due, Typing

(* What a connection does with a request.  It does not look at it...        *)
LEMMA FitIgnore ==
  ASSUME NEW u \in Seq(Ups), u # <<>>, NEW d, NEW c, NEW p,
         NEW s \in {"none", "open", "authorized"}, NEW a, NEW r,
         Fit(u, d, c, p, s, a, r), s # "open"
  PROVE  Fit(Tail(u), d, c, p, s, a, r)
<1>1. Welcome(d) => d # <<>>
  BY DEF Welcome
<1> QED BY <1>1, FirstRequest DEF Fit, Due

(* ... or asks the user of the host, with no answer or one that may come    *)
(* more than once...                                                        *)
LEMMA FitAsk ==
  ASSUME NEW u \in Seq(Ups), u # <<>>, NEW d \in Seq(Downs), NEW c, NEW p, NEW a, NEW r, NEW q,
         Fit(u, d, c, p, "open", a, r), only_click \/ ~Real(Head(u)), q => r
  PROVE  /\ Fit(Tail(u), d, c, p, "open", TRUE, q)
         /\ Fit(Tail(u), Append(d, Error("no_password_access")), c, p, "open", TRUE, q)
<1>1. ~Due(u, d, c)
  BY FirstRequest DEF Fit
<1>2. ~Due(Tail(u), d, c)
  BY <1>1, FirstRequest DEF Due
<1>3. Error("no_password_access") \in Downs /\ Error("no_password_access").kind = "no_password_access"
  BY DEF Error, Downs
<1> DEFINE e == Append(d, Error("no_password_access"))
<1>4. /\ Once(e) /\ (Has(e, Answers) => Has(d, Answers))
      /\ Has(e, {"require_2fa"}) => Has(d, {"require_2fa"})
      /\ e # <<>>
  BY <1>3, OneMoreAnswer DEF Fit, Answers
<1> HIDE DEF e
<1>5. ~Due(Tail(u), e, c)
  BY <1>2, <1>4 DEF Due
<1>6. Fit(Tail(u), d, c, p, "open", TRUE, q)
  BY <1>2, FirstRequest DEF Fit
<1>7. Fit(Tail(u), e, c, p, "open", TRUE, q)
  BY <1>4, <1>5, FirstRequest DEF Fit
<1> QED BY <1>6, <1>7 DEF e

(* ... or answers it, and lets the window in or has it ask its user.        *)
LEMMA FitAnswer ==
  ASSUME NEW u \in Seq(Ups), u # <<>>, NEW d \in Seq(Downs), NEW c, NEW p, NEW a, NEW r, NEW q,
         Fit(u, d, c, p, "open", a, r), Real(Head(u)), q => TwoFactor
  PROVE  /\ Fit(Tail(u), Append(d, Error("wrong")), c, p, "open", TRUE, q)
         /\ q /\ p # 0 /\ ~only_click /\ (p = Permanent => PermanentEnabled)
              => Fit(Tail(u), Append(d, Error("require_2fa")), c, p, "open", a, q)
         /\ \A w : Fit(Tail(u), Append(d, Accepted(w)), c, p, "authorized", a, q)
<1>1. Tail(u) = <<>> /\ ~Has(d, Answers) /\ c \notin Typing
  BY FirstRequest DEF Fit
<1>2. ~Has(d, {"require_2fa"})
  BY <1>1 DEF Has, Answers
<1>3. ASSUME NEW m \in Downs
      PROVE  /\ Once(Append(d, m)) /\ Append(d, m) # <<>>
             /\ m.kind = "peer_info" => Welcome(Append(d, m))
             /\ Has(Append(d, m), {"require_2fa"}) => m.kind = "require_2fa"
             /\ Has(Append(d, m), {"no_password_access"})
                  => Has(d, {"no_password_access"}) \/ m.kind = "no_password_access"
  BY <1>1, <1>2, OneMoreAnswer
<1>4. /\ Error("wrong") \in Downs /\ Error("wrong").kind = "wrong"
      /\ Error("require_2fa") \in Downs /\ Error("require_2fa").kind = "require_2fa"
      /\ \A w : Accepted(w) \in Downs /\ Accepted(w).kind = "peer_info"
  BY DEF Error, Accepted, Downs
<1>5. Fit(Tail(u), Append(d, Error("wrong")), c, p, "open", TRUE, q)
  BY <1>1, <1>3, <1>4, Silence DEF Fit, Due, Typing
<1>6. q /\ p # 0 /\ ~only_click /\ (p = Permanent => PermanentEnabled)
        => Fit(Tail(u), Append(d, Error("require_2fa")), c, p, "open", a, q)
  BY <1>1, <1>3, <1>4, Silence DEF Fit
<1>7. ASSUME NEW w PROVE Fit(Tail(u), Append(d, Accepted(w)), c, p, "authorized", a, q)
  BY <1>1, <1>3, <1>4, Silence DEF Fit, Due, Typing
<1> QED BY <1>5, <1>6, <1>7

(* The user of the host lets the window in.                                 *)
LEMMA FitAuthorize ==
  ASSUME NEW u, NEW d \in Seq(Downs), NEW c, NEW p, NEW a, NEW r, NEW w,
         Fit(u, d, c, p, "open", a, r)
  PROVE  Fit(u, Append(d, Accepted(w)), c, p, "authorized", a, FALSE)
<1>1. Accepted(w) \in Downs /\ Accepted(w).kind = "peer_info"
  BY DEF Accepted, Downs
<1> DEFINE e == Append(d, Accepted(w))
<1>2. /\ Once(e) /\ Welcome(e) /\ e # <<>> /\ (Has(e, Answers) => Has(d, Answers))
      /\ Has(e, {"require_2fa"}) => Has(d, {"require_2fa"})
  BY <1>1, OneMoreAnswer DEF Fit, Answers
<1> HIDE DEF e
<1> QED BY <1>2 DEF Fit, Due, e

-----------------------------------------------------------------------------
InWindow(w) == Fit(up[w], down[w], cli[w], password[w], srv[w], asked[w], require_2fa[w])

(* With a password p that is in the entry, or is the permanent one, and a   *)
(* code if one is required, a window is let in.                             *)
Known(p, entry, device) ==
  /\ p # 0 /\ ~only_click
  /\ p \in {Permanent, entry.random_password} /\ (p = Permanent => PermanentEnabled)
  /\ TwoFactor => device \/ entry.tfa

(* As long as what lets main in again is kept, main has it, and none of its *)
(* requests is refused.                                                     *)
Keeps ==
  kept /\ cli["main"] # "closed" =>
    /\ Known(password["main"], session, trusted)
    /\ cli["main"] \notin Typing
    /\ ~Has(down["main"], Answers) /\ ~Has(up["main"], CodeKinds)

Ranges ==
  /\ temp <= MaxTemp /\ session.random_password <= MaxTemp
  /\ session.id = 0 => session.random_password = 0
  /\ asked \in [Windows -> BOOLEAN] /\ kept \in BOOLEAN

(* The inductive invariant of what a window waits for.                      *)
WInv == Ranges /\ (\A w \in Windows : InWindow(w)) /\ Keeps

(* A step of one window leaves the other as it is.                          *)
Alone(w) ==
  \A v \in Windows \ {w} :
    /\ up'[v] = up[v] /\ down'[v] = down[v] /\ cli'[v] = cli[v] /\ password'[v] = password[v]
    /\ srv'[v] = srv[v] /\ asked'[v] = asked[v] /\ require_2fa'[v] = require_2fa[v]

LEMMA Others ==
  ASSUME WInv, NEW w \in Windows, Alone(w), InWindow(w)'
  PROVE  \A v \in Windows : InWindow(v)'
<1> SUFFICES ASSUME NEW v \in Windows, v # w PROVE InWindow(v)'
  OBVIOUS
<1>1. InWindow(v)
  BY DEF WInv
<1> QED BY <1>1 DEF Alone, InWindow

(* The password of main stays known if the entry keeps it and its code.     *)
LEMMA MainKeeps ==
  ASSUME WInv, NEW w \in Windows, w # "main", Alone(w), kept' => kept,
         kept' => session'.random_password = session.random_password
                  /\ (session.tfa => session'.tfa) /\ (trusted => trusted')
  PROVE  Keeps'
<1>1. "main" \in Windows \ {w}
  BY DEF Windows
<1>2. /\ up'["main"] = up["main"] /\ down'["main"] = down["main"]
      /\ cli'["main"] = cli["main"] /\ password'["main"] = password["main"]
  BY <1>1 DEF Alone
<1> QED BY <1>2 DEF WInv, Keeps, Known

LEMMA InitW == Init => WInv
<1> SUFFICES ASSUME Init PROVE WInv
  OBVIOUS
<1>1. Ranges
  <2>1. temp <= MaxTemp /\ session.random_password <= MaxTemp /\ session.random_password = 0
    BY LoginAssumption DEF Init, NoSession
  <2>2. asked \in [Windows -> BOOLEAN] /\ kept \in BOOLEAN
    BY Zenon DEF Init
  <2> QED BY <2>1, <2>2 DEF Ranges
<1>2. ASSUME NEW w \in Windows PROVE InWindow(w)
  <2>1. /\ up[w] = <<>> /\ down[w] = <<>> /\ cli[w] = "off" /\ password[w] = 0
        /\ srv[w] = "none" /\ asked[w] = FALSE /\ require_2fa[w] = FALSE
    BY DEF Init
  <2> QED BY <2>1, Silence DEF InWindow, Fit, Due, Typing
<1>3. Keeps
  BY DEF Init, Keeps
<1> QED BY <1>1, <1>2, <1>3 DEF WInv

LEMMA QuietW ==
  ASSUME IInv, WInv, ghost_ends \/ update_temporary_password \/ session_lapses \/ UNCHANGED vars
  PROVE  WInv'
<1>1. UNCHANGED <<up, down, cli, password, srv, asked, require_2fa, trusted>>
  BY DEF ghost_ends, update_temporary_password, session_lapses, vars, server, client
<1>2. \A w \in Windows : InWindow(w)'
  BY <1>1 DEF WInv, InWindow
<1>3. temp' <= MaxTemp
  BY LoginAssumption DEF ghost_ends, update_temporary_password, session_lapses, vars, server,
                         WInv, Ranges, IInv, Typed
<1>4. /\ (kept' = kept /\ session' = session) \/ (kept' = FALSE /\ session' = NoSession)
  BY DEF ghost_ends, update_temporary_password, session_lapses, vars, server, history
<1>5. Ranges'
  <2>1. session'.random_password <= MaxTemp /\ (session'.id = 0 => session'.random_password = 0)
    BY <1>4, LoginAssumption DEF WInv, Ranges, NoSession
  <2>2. asked' \in [Windows -> BOOLEAN] /\ kept' \in BOOLEAN
    BY <1>1, <1>4, Zenon DEF WInv, Ranges
  <2> QED BY <1>3, <2>1, <2>2 DEF Ranges
<1>6. Keeps'
  BY <1>1, <1>4 DEF WInv, Keeps
<1> QED BY <1>2, <1>5, <1>6 DEF WInv

LEMMA ConnectW ==
  ASSUME IInv, WInv, NEW w \in Windows, connect(w) PROVE WInv'
<1> USE DEF IInv, Typed
<1>1. PICK pw \in Nat :
        /\ password' = [password EXCEPT ![w] = pw]
        /\ cli' = [cli EXCEPT ![w] = IF pw = 0 THEN "password" ELSE "wait"]
        /\ up' = [up EXCEPT ![w] = <<Login(pw)>>]
        /\ w = "main" /\ password[w] # 0 => pw = password[w]
  BY DEF connect, Windows
<1>2. /\ cli[w] \in {"off", "broken"} /\ srv[w] = "none"
      /\ down' = [down EXCEPT ![w] = <<>>]
      /\ srv' = [srv EXCEPT ![w] = "open"]
      /\ require_2fa' = [require_2fa EXCEPT ![w] = TwoFactor]
      /\ UNCHANGED <<temp, session, ids, trusted, asked, kept>>
  BY DEF connect, history
<1>3. Alone(w)
  BY <1>1, <1>2 DEF Alone
<1>4. InWindow(w)'
  <2>1. /\ up'[w] = <<Login(pw)>> /\ down'[w] = <<>> /\ password'[w] = pw
        /\ cli'[w] = IF pw = 0 THEN "password" ELSE "wait"
        /\ srv'[w] = "open" /\ require_2fa'[w] = TwoFactor
    BY <1>1, <1>2
  <2> QED BY <2>1, FitConnect DEF InWindow
<1>5. Keeps'
  <2>1. CASE w = "main"
    <3> SUFFICES ASSUME kept
                 PROVE  /\ Known(password'["main"], session', trusted')
                        /\ cli'["main"] \notin Typing
                        /\ ~Has(down'["main"], Answers) /\ ~Has(up'["main"], CodeKinds)
      BY <1>2 DEF Keeps
    <3>1. Known(password["main"], session, trusted)
      BY <1>2, <2>1 DEF WInv, Keeps
    <3>2. /\ pw = password["main"] /\ pw # 0
          /\ password'["main"] = pw /\ cli'["main"] = "wait" /\ down'["main"] = <<>>
          /\ up'["main"] = <<Login(pw)>>
      BY <1>1, <1>2, <2>1, <3>1 DEF Known
    <3>3. ~Has(<<Login(pw)>>, CodeKinds)
      BY DEF Has, Login, CodeKinds
    <3> QED BY <1>2, <3>1, <3>2, <3>3, Silence DEF Typing
  <2> QED BY <1>2, <1>3, <2>1, MainKeeps
<1> QED BY <1>2, <1>3, <1>4, <1>5, Others DEF WInv, Ranges

LEMMA SendW ==
  ASSUME IInv, WInv, NEW w \in Windows, login_from_ui(w) \/ send2fa(w) PROVE WInv'
<1> USE DEF IInv, Typed
<1>1. PICK m \in Ups : /\ Real(m) /\ up' = Sent(w, m) /\ cli' = [cli EXCEPT ![w] = "wait"]
                       /\ cli[w] \in Typing
                       /\ m.kind \in CodeKinds => cli[w] = "2fa" /\ m.pw = password[w]
                       /\ password' = [password EXCEPT ![w] = m.pw]
  <2>1. CASE login_from_ui(w)
    <3>1. PICK pw \in {temp, Permanent} : /\ password' = [password EXCEPT ![w] = pw]
                                          /\ up' = Sent(w, Login(pw))
      BY <2>1 DEF login_from_ui
    <3>2. /\ Login(pw) \in Ups /\ Login(pw).kind \notin CodeKinds /\ Login(pw).pw = pw
          /\ Real(Login(pw))
      BY LoginAssumption DEF Login, Ups, CodeKinds, Permanent, Real
    <3> QED BY <2>1, <3>1, <3>2 DEF login_from_ui, Typing
  <2>2. CASE send2fa(w)
    <3>1. PICK kind \in CodeKinds : up' = Sent(w, [kind |-> kind, pw |-> password[w]])
      BY <2>2 DEF send2fa, CodeKinds
    <3>2. [kind |-> kind, pw |-> password[w]] \in Ups /\ Real([kind |-> kind, pw |-> password[w]])
      BY DEF Ups, Real, CodeKinds
    <3>3. password' = [password EXCEPT ![w] = password[w]]
      BY <2>2 DEF send2fa
    <3> QED BY <2>2, <3>1, <3>2, <3>3 DEF send2fa, Typing
  <2> QED BY <2>1, <2>2
<1>2. UNCHANGED <<temp, session, ids, srv, require_2fa, trusted, asked, kept, down>>
  BY DEF login_from_ui, send2fa, server, history
<1>3. /\ srv[w] = "none" => up' = up
      /\ srv[w] # "none" => up' = [up EXCEPT ![w] = Append(up[w], m)]
  BY <1>1 DEF Sent
<1>4. Alone(w)
  BY <1>1, <1>2, <1>3 DEF Alone
<1>5. InWindow(w)'
  <2>1. Fit(up[w], down[w], cli[w], password[w], srv[w], asked[w], require_2fa[w])
    BY DEF WInv, InWindow
  <2>2. /\ srv[w] # "none" => Fit(Append(up[w], m), down[w], "wait", m.pw, srv[w], asked[w], require_2fa[w])
        /\ srv[w] = "none" => Fit(up[w], down[w], "wait", m.pw, srv[w], asked[w], require_2fa[w])
    BY <1>1, <2>1, FitSend
  <2>3. cli'[w] = "wait" /\ password'[w] = m.pw
    BY <1>1
  <2>4. srv[w] # "none" => up'[w] = Append(up[w], m)
    BY <1>3
  <2> QED BY <1>2, <1>3, <2>2, <2>3, <2>4 DEF InWindow
<1>6. Keeps'
  <2>1. CASE w = "main"
    <3>1. ~kept \/ cli["main"] = "closed"
      BY <1>1, <2>1 DEF WInv, Keeps
    <3>2. ~kept
      BY <1>1, <2>1, <3>1 DEF Typing
    <3> QED BY <1>2, <3>2 DEF Keeps
  <2> QED BY <1>2, <1>4, <2>1, MainKeeps
<1> QED BY <1>2, <1>4, <1>5, <1>6, Others DEF WInv, Ranges

LEMMA HearW ==
  ASSUME IInv, WInv, NEW w \in Windows, receive(w) PROVE WInv'
<1> USE DEF IInv, Typed
<1>1. /\ down[w] # <<>> /\ down' = [down EXCEPT ![w] = Tail(down[w])]
      /\ cli[w] \notin {"off", "broken", "closed"}
      /\ UNCHANGED <<temp, session, ids, srv, require_2fa, trusted, asked, up, kept>>
  BY DEF receive, server, history
<1> DEFINE k == Head(down[w]).kind
<1>2. PICK c \in {"off", "wait", "password", "2fa", "on", "broken", "closed"}, p \in Nat :
        /\ cli' = [cli EXCEPT ![w] = c] /\ password' = [password EXCEPT ![w] = p]
        /\ \/ k = "peer_info" /\ c = "on" /\ p = password[w]
           \/ k = "wrong" /\ c = "password" /\ p = 0
           \/ k = "require_2fa" /\ c = "2fa" /\ p = password[w]
           \/ k = "no_password_access" /\ c = cli[w] /\ p = password[w]
           \/ k = "closed" /\ c = "broken" /\ p = password[w]
  <2>1. /\ cli = [cli EXCEPT ![w] = cli[w]] /\ password = [password EXCEPT ![w] = password[w]]
        /\ cli[w] \in {"off", "wait", "password", "2fa", "on", "broken", "closed"}
        /\ password[w] \in Nat
    OBVIOUS
  <2>2. CASE k = "peer_info"
    BY <2>1, <2>2 DEF receive
  <2>3. CASE k # "peer_info"
    <3>1. handle_login_error(w, Head(down[w]))
      BY <2>3 DEF receive
    <3>2. k \in {"require_2fa", "wrong", "no_password_access", "closed"}
      BY <1>1, <2>3, FirstAnswer DEF Downs
    <3> QED BY <2>1, <3>1, <3>2 DEF handle_login_error
  <2> QED BY <2>2, <2>3
<1>3. Alone(w)
  BY <1>1, <1>2 DEF Alone
<1>4. Fit(up[w], down[w], cli[w], password[w], srv[w], asked[w], require_2fa[w])
  BY DEF WInv, InWindow
<1>5. Fit(up[w], Tail(down[w]), c, p, srv[w], asked[w], require_2fa[w])
  <2>1. srv[w] \in {"none", "open", "authorized"} /\ down[w] \in Seq(Downs)
    OBVIOUS
  <2>2. PICK u, d, q, s, a, r : /\ u = up[w] /\ d = down[w] /\ q = password[w] /\ s = srv[w]
                                /\ a = asked[w] /\ r = require_2fa[w]
    OBVIOUS
  <2>h. PICK h : h = Head(d).kind
    OBVIOUS
  <2>3. /\ h = "peer_info" => Fit(u, Tail(d), "on", q, s, a, r)
        /\ h = "wrong" => Fit(u, Tail(d), "password", 0, s, a, r)
        /\ h = "require_2fa" => Fit(u, Tail(d), "2fa", q, s, a, r)
        /\ h = "no_password_access" => Fit(u, Tail(d), cli[w], q, s, a, r)
        /\ h = "closed" => Fit(u, Tail(d), "broken", q, s, a, r)
    <3>1. d \in Seq(Downs) /\ d # <<>> /\ s \in {"none", "open", "authorized"}
          /\ Fit(u, d, cli[w], q, s, a, r)
      BY <1>1, <1>4, <2>1, <2>2
    <3> HIDE DEF IInv, Typed
    <3> QED BY <2>h, <3>1, FitHear, ZenonT(30)
  <2> QED BY <1>2, <2>2, <2>h, <2>3
<1>6. /\ down'[w] = Tail(down[w]) /\ cli'[w] = c /\ password'[w] = p
  BY <1>1, <1>2
<1>7. InWindow(w)'
  BY <1>1, <1>5, <1>6 DEF InWindow
<1>8. Keeps'
  <2>1. CASE w = "main"
    <3> SUFFICES ASSUME kept
                 PROVE  /\ Known(password'["main"], session', trusted')
                        /\ cli'["main"] \notin Typing
                        /\ ~Has(down'["main"], Answers) /\ ~Has(up'["main"], CodeKinds)
      BY <1>1 DEF Keeps
    <3>1. /\ Known(password["main"], session, trusted)
          /\ cli["main"] \notin Typing
          /\ ~Has(down["main"], Answers) /\ ~Has(up["main"], CodeKinds)
      BY <1>1, <2>1 DEF WInv, Keeps
    <3>2. ~Has(Tail(down[w]), Answers) /\ k \notin Answers
      BY <1>1, <2>1, <3>1, FirstAnswer
    <3>3. c \notin Typing /\ p = password[w]
      BY <1>2, <2>1, <3>1, <3>2 DEF Answers, Typing
    <3> QED BY <1>1, <1>6, <2>1, <3>1, <3>2, <3>3
  <2> QED BY <1>1, <1>3, <2>1, MainKeeps
<1> QED BY <1>1, <1>3, <1>7, <1>8, Others DEF WInv, Ranges

(* Where the session is removed, nothing is kept.                           *)
LEMMA RemovedKeeps ==
  ASSUME NEW w \in Windows, kept \in BOOLEAN, removed(w)
  PROVE  /\ kept' \in BOOLEAN /\ (kept' => kept /\ session' = session)
         /\ session' = session \/ session' = NoSession
<1> DEFINE void == (w = "main" /\ srv[w] = "authorized") \/ (srv["main"] # "authorized" /\ ~ghost)
<1>1. /\ session' = IF check_remove_session(w) THEN NoSession ELSE session
      /\ kept' = (kept /\ ~void)
  BY DEF removed
<1>2. check_remove_session(w) => void
  BY DEF check_remove_session
<1>3. kept' \in BOOLEAN
  BY <1>1, Zenon
<1> QED BY <1>1, <1>2, <1>3

LEMMA EndW ==
  ASSUME IInv, WInv, NEW w \in Windows, close_by_cm(w) \/ close(w) \/ link_breaks(w) PROVE WInv'
<1> USE DEF IInv, Typed
<1>1. /\ srv' = [srv EXCEPT ![w] = "none"]
      /\ require_2fa' = [require_2fa EXCEPT ![w] = FALSE]
      /\ asked' = [asked EXCEPT ![w] = FALSE]
      /\ up' = [up EXCEPT ![w] = <<>>]
      /\ trusted' = trusted
  BY DEF close_by_cm, close, link_breaks, ended, client
<1>2. temp' <= MaxTemp
  BY LoginAssumption DEF close_by_cm, close, link_breaks, ended, WInv, Ranges
<1>3. /\ kept' \in BOOLEAN /\ (kept' => kept /\ session' = session)
      /\ session' = session \/ session' = NoSession
  <2>1. kept \in BOOLEAN
    BY DEF WInv, Ranges
  <2>2. CASE link_breaks(w)
    BY <2>1, <2>2 DEF link_breaks
  <2>3. CASE close_by_cm(w) \/ close(w)
    BY <2>1, <2>3, RemovedKeeps DEF close_by_cm, close
  <2> QED BY <2>2, <2>3
<1>4. PICK d \in Seq(Downs), c \in {"off", "wait", "password", "2fa", "on", "broken", "closed"}, p \in Nat :
        /\ down' = [down EXCEPT ![w] = d] /\ cli' = [cli EXCEPT ![w] = c]
        /\ password' = [password EXCEPT ![w] = p]
        /\ \/ d = Append(down[w], Error("closed")) /\ c = cli[w] /\ p = password[w]
           \/ d = <<>> /\ c = (IF w = "main" THEN "closed" ELSE "off") /\ p = 0
           \/ d = <<>> /\ c = "broken" /\ p = password[w] /\ cli[w] # "closed"
  <2>1. /\ cli = [cli EXCEPT ![w] = cli[w]] /\ password = [password EXCEPT ![w] = password[w]]
        /\ cli[w] \in {"off", "wait", "password", "2fa", "on", "broken", "closed"}
        /\ password[w] \in Nat
    OBVIOUS
  <2>2. Append(down[w], Error("closed")) \in Seq(Downs)
    <3>1. Error("closed") \in Downs
      BY DEF Error, Downs
    <3> QED BY <3>1, OneMoreAnswer
  <2>3. CASE close_by_cm(w)
    BY <2>1, <2>2, <2>3 DEF close_by_cm, client
  <2>4. <<>> \in Seq(Downs)
    OBVIOUS
  <2>5. CASE close(w)
    BY <2>4, <2>5 DEF close
  <2>6. CASE link_breaks(w)
    BY <2>1, <2>4, <2>6 DEF link_breaks
  <2> QED BY <2>3, <2>5, <2>6
<1>5. Alone(w)
  BY <1>1, <1>4 DEF Alone
<1>6. Fit(up[w], down[w], cli[w], password[w], srv[w], asked[w], require_2fa[w])
  BY DEF WInv, InWindow
<1>7. Fit(<<>>, d, c, p, "none", FALSE, FALSE)
  <2>1. down[w] \in Seq(Downs)
    OBVIOUS
  <2> HIDE DEF IInv, Typed
  <2>2. /\ Fit(<<>>, Append(down[w], Error("closed")), cli[w], password[w], "none", FALSE, FALSE)
        /\ \A b \in {"off", "closed"} : Fit(<<>>, <<>>, b, 0, "none", FALSE, FALSE)
        /\ Fit(<<>>, <<>>, "broken", password[w], "none", FALSE, FALSE)
    BY <1>6, <2>1, FitEnd
  <2> QED BY <1>4, <2>2
<1>8. InWindow(w)'
  <2>1. /\ up'[w] = <<>> /\ down'[w] = d /\ cli'[w] = c /\ password'[w] = p /\ srv'[w] = "none"
        /\ asked'[w] = FALSE /\ require_2fa'[w] = FALSE
    BY <1>1, <1>4 DEF WInv, Ranges
  <2> QED BY <1>7, <2>1 DEF InWindow
<1>9. Keeps'
  <2>1. CASE w = "main"
    <3> SUFFICES ASSUME kept', c # "closed"
                 PROVE  /\ Known(password'["main"], session', trusted')
                        /\ cli'["main"] \notin Typing
                        /\ ~Has(down'["main"], Answers) /\ ~Has(up'["main"], CodeKinds)
      BY <1>4, <2>1 DEF Keeps
    <3>1. /\ p = password["main"] /\ cli["main"] # "closed"
          /\ (d = <<>> /\ c = "broken") \/ (d = Append(down[w], Error("closed")) /\ c = cli[w])
      <4>1. CASE d = Append(down[w], Error("closed")) /\ c = cli[w] /\ p = password[w]
        BY <2>1, <4>1
      <4>2. CASE d = <<>> /\ c = (IF w = "main" THEN "closed" ELSE "off") /\ p = 0
        BY <2>1, <4>2
      <4>3. CASE d = <<>> /\ c = "broken" /\ p = password[w] /\ cli[w] # "closed"
        BY <2>1, <4>3
      <4> QED BY <1>4, <4>1, <4>2, <4>3
    <3>2. /\ Known(password["main"], session, trusted)
          /\ cli["main"] \notin Typing /\ ~Has(down["main"], Answers)
      BY <1>3, <3>1 DEF WInv, Keeps
    <3>3. ~Has(Append(down[w], Error("closed")), Answers)
      <4>1. Error("closed") \in Downs /\ Error("closed").kind \notin Answers
        BY DEF Error, Downs, Answers
      <4> QED BY <2>1, <3>2, <4>1, OneMoreAnswer
    <3>4. ~Has(d, Answers) /\ c \notin Typing
      <4>1. CASE d = <<>> /\ c = "broken"
        BY <4>1, Silence DEF Typing
      <4>2. CASE d = Append(down[w], Error("closed")) /\ c = cli[w]
        BY <2>1, <3>2, <3>3, <4>2
      <4> QED BY <3>1, <4>1, <4>2
    <3>5. /\ cli'["main"] = c /\ password'["main"] = p /\ down'["main"] = d /\ up'["main"] = <<>>
      BY <1>1, <1>4, <2>1
    <3> QED BY <1>1, <1>3, <3>1, <3>2, <3>4, <3>5, Silence
  <2> QED BY <1>1, <1>3, <1>5, <2>1, MainKeeps
<1>10. Ranges'
  <2>1. session'.random_password <= MaxTemp /\ (session'.id = 0 => session'.random_password = 0)
    BY <1>3, LoginAssumption DEF WInv, Ranges, NoSession
  <2>2. asked' \in [Windows -> BOOLEAN]
    BY <1>1, Zenon DEF WInv, Ranges
  <2> QED BY <1>2, <1>3, <2>1, <2>2 DEF Ranges
<1> QED BY <1>5, <1>8, <1>9, <1>10, Others DEF WInv

LEMMA AuthorizeW ==
  ASSUME IInv, WInv, NEW w \in Windows, authorize(w) PROVE WInv'
<1> USE DEF IInv, Typed
<1>1. /\ srv[w] = "open" /\ srv' = [srv EXCEPT ![w] = "authorized"]
      /\ require_2fa' = [require_2fa EXCEPT ![w] = FALSE]
      /\ down' = [down EXCEPT ![w] = Append(down[w], Accepted(w))]
      /\ UNCHANGED <<temp, session, trusted, asked, cli, password, up>>
      /\ kept' = (kept /\ w # "main")
  BY DEF authorize, send_logon_response, client
<1>2. Alone(w)
  BY <1>1 DEF Alone
<1>3. InWindow(w)'
  <2>1. Fit(up[w], down[w], cli[w], password[w], "open", asked[w], require_2fa[w])
    BY <1>1 DEF WInv, InWindow
  <2>2. down[w] \in Seq(Downs)
    OBVIOUS
  <2>3. /\ down'[w] = Append(down[w], Accepted(w)) /\ srv'[w] = "authorized"
        /\ require_2fa'[w] = FALSE
    BY <1>1
  <2> HIDE DEF IInv, Typed
  <2>4. Fit(up[w], Append(down[w], Accepted(w)), cli[w], password[w], "authorized", asked[w], FALSE)
    BY <2>1, <2>2, FitAuthorize
  <2> QED BY <1>1, <2>3, <2>4 DEF InWindow
<1>4. Keeps'
  <2>1. CASE w = "main"
    BY <1>1, <2>1 DEF Keeps
  <2>2. CASE w # "main"
    BY <1>1, <1>2, <2>2, MainKeeps
  <2> QED BY <2>1, <2>2
<1>5. Ranges'
  <2>1. kept' \in BOOLEAN
    BY <1>1, Zenon
  <2> QED BY <1>1, <2>1 DEF WInv, Ranges
<1> QED BY <1>2, <1>3, <1>4, <1>5, Others DEF WInv

-----------------------------------------------------------------------------
(* The connection has taken a request of its window, and q is what it still *)
(* requires of it.                                                          *)
Taken(w, q) ==
  /\ up[w] # <<>> /\ up' = [up EXCEPT ![w] = Tail(up[w])]
  /\ require_2fa' = [require_2fa EXCEPT ![w] = q]
  /\ UNCHANGED <<temp, cli, password>>

(* A window whose password is right is let in, unless a code is required    *)
(* and the entry s has none.                                                *)
LEMMA LetIn ==
  ASSUME IInv, WInv, NEW w \in Windows, NEW q \in BOOLEAN, NEW s,
         Taken(w, q), srv[w] = "open", Real(Head(up[w])), q => require_2fa[w],
         send_logon_response(w, password[w], q, s), asked' = asked,
         password[w] # 0, ~only_click, password[w] = Permanent => PermanentEnabled
  PROVE  /\ InWindow(w)' /\ Alone(w)
         /\ \/ q /\ ~s.tfa /\ srv'[w] = "open"
            \/ (q => s.tfa) /\ srv'[w] = "authorized" /\ ~Has(down'[w], Answers)
         /\ cli'[w] \notin Typing /\ ~Has(up'[w], CodeKinds)
<1> USE DEF IInv, Typed
<1>1. Fit(up[w], down[w], cli[w], password[w], "open", asked[w], require_2fa[w])
  BY DEF WInv, InWindow
<1>2. /\ up[w] \in Seq(Ups) /\ up[w] # <<>> /\ down[w] \in Seq(Downs)
      /\ up'[w] = Tail(up[w]) /\ cli'[w] = cli[w] /\ password'[w] = password[w]
      /\ asked'[w] = asked[w]
  BY DEF Taken
<1>3. require_2fa'[w] = q
  BY DEF Taken
<1>4. /\ Tail(up[w]) = <<>> /\ ~Has(down[w], Answers) /\ cli[w] \notin Typing
      /\ q => TwoFactor
  BY <1>1, <1>2, FirstRequest DEF Fit
<1>5. cli'[w] \notin Typing /\ ~Has(up'[w], CodeKinds)
  BY <1>2, <1>4, Silence
<1>6. CASE q /\ ~(s.tfa /\ password[w] # 0)
  <2>1. /\ down' = [down EXCEPT ![w] = Append(down[w], Error("require_2fa"))] /\ srv' = srv
    BY <1>6 DEF send_logon_response
  <2>2. Alone(w)
    BY <2>1 DEF Alone, Taken
  <2>3. down'[w] = Append(down[w], Error("require_2fa")) /\ srv'[w] = "open"
    BY <2>1
  <2> HIDE DEF IInv, Typed
  <2>4. Fit(Tail(up[w]), Append(down[w], Error("require_2fa")), cli[w], password[w], "open", asked[w], q)
    BY <1>1, <1>2, <1>4, <1>6, FitAnswer
  <2> QED BY <1>2, <1>3, <1>5, <1>6, <2>2, <2>3, <2>4 DEF InWindow
<1>7. CASE ~(q /\ ~(s.tfa /\ password[w] # 0))
  <2>1. /\ down' = [down EXCEPT ![w] = Append(down[w], Accepted(w))]
        /\ srv' = [srv EXCEPT ![w] = "authorized"]
    BY <1>7 DEF send_logon_response
  <2>2. Alone(w)
    BY <2>1 DEF Alone, Taken
  <2>3. down'[w] = Append(down[w], Accepted(w)) /\ srv'[w] = "authorized"
    BY <2>1
  <2> HIDE DEF IInv, Typed
  <2>4. Fit(Tail(up[w]), Append(down[w], Accepted(w)), cli[w], password[w], "authorized", asked[w], q)
    BY <1>1, <1>2, <1>4, FitAnswer
  <2>5. ~Has(Append(down[w], Accepted(w)), Answers)
    <3>1. Accepted(w) \in Downs /\ Accepted(w).kind \notin Answers
      BY DEF Accepted, Downs, Answers
    <3> QED BY <1>2, <1>4, <3>1, OneMoreAnswer
  <2> QED BY <1>2, <1>3, <1>5, <1>7, <2>2, <2>3, <2>4, <2>5 DEF InWindow
<1> QED BY <1>6, <1>7

LEMMA AuthW ==
  ASSUME IInv, WInv, NEW w \in Windows, auth_2fa(w) PROVE WInv'
<1> USE DEF IInv, Typed
<1> DEFINE u == up[w]
<1> DEFINE m == Head(u)
<1>1. /\ u # <<>> /\ up' = [up EXCEPT ![w] = Tail(u)] /\ m.kind \in CodeKinds
      /\ UNCHANGED <<temp, asked, cli, password>>
  BY DEF auth_2fa, Popped, client, CodeKinds
<1>2. /\ u \in Seq(Ups) /\ down[w] \in Seq(Downs) /\ Real(m) /\ Has(u, CodeKinds)
  BY <1>1, FirstRequest DEF Real, CodeKinds
<1>3. Fit(u, down[w], cli[w], password[w], srv[w], asked[w], require_2fa[w])
  BY DEF WInv, InWindow
<1>4. /\ m.pw = password[w] /\ (srv[w] = "open" => require_2fa[w])
      /\ password[w] # 0 /\ ~only_click /\ (password[w] = Permanent => PermanentEnabled)
      /\ srv[w] # "none"
  <2> HIDE DEF IInv, Typed
  <2>1. Due(u, down[w], cli[w])
    BY <1>2 DEF Due
  <2> QED BY <1>1, <1>2, <1>3, <2>1, FirstRequest DEF Fit
<1>5. CASE srv[w] = "open" /\ require_2fa[w] /\ m.kind # "wrong_code"
  <2>1. /\ require_2fa' = [require_2fa EXCEPT ![w] = FALSE]
        /\ session' = set_session_2fa
        /\ send_logon_response(w, m.pw, FALSE, session')
        /\ trusted' = (trusted \/ m.kind = "code_and_trust")
        /\ kept' = (kept \/ (w = "main" /\ m.pw \in {Permanent, session'.random_password}))
    BY <1>5 DEF auth_2fa
  <2>2. Taken(w, FALSE)
    BY <1>1, <2>1 DEF Taken
  <2>3. /\ InWindow(w)' /\ Alone(w)
        /\ srv'[w] = "authorized" /\ ~Has(down'[w], Answers)
        /\ cli'[w] \notin Typing /\ ~Has(up'[w], CodeKinds)
    BY <1>1, <1>2, <1>4, <1>5, <2>1, <2>2, LetIn, Zenon
  <2>4. /\ session'.random_password = session.random_password /\ session'.tfa
        /\ session'.id = 0 => session.id = 0
    <3>1. ids + 1 \in Nat /\ ids + 1 # 0
      OBVIOUS
    <3> QED BY <2>1, <3>1 DEF set_session_2fa, WInv, Ranges
  <2>5. trusted => trusted'
    BY <2>1
  <2>6. Keeps'
    <3>1. CASE w = "main"
      <4> SUFFICES ASSUME kept', cli'["main"] # "closed"
                   PROVE  Known(password'["main"], session', trusted')
        BY <2>3, <3>1 DEF Keeps
      <4>1. ~kept
        BY <1>1, <1>2, <3>1 DEF WInv, Keeps
      <4>2. password[w] \in {Permanent, session'.random_password}
        BY <1>4, <2>1, <4>1
      <4> QED BY <1>1, <1>4, <2>4, <3>1, <4>2 DEF Known
    <3>2. CASE w # "main"
      <4>1. kept' = kept
        BY <2>1, <3>2 DEF WInv, Ranges
      <4> QED BY <2>3, <2>4, <2>5, <3>2, <4>1, MainKeeps
    <3> QED BY <3>1, <3>2
  <2>7. Ranges'
    <3>1. kept' \in BOOLEAN
      BY <2>1, Zenon
    <3> QED BY <1>1, <2>4, <3>1 DEF WInv, Ranges
  <2> QED BY <2>3, <2>6, <2>7, Others DEF WInv
<1>6. CASE srv[w] = "open" /\ require_2fa[w] /\ m.kind = "wrong_code"
  <2>1. /\ down' = [down EXCEPT ![w] = Append(down[w], Error("require_2fa"))]
        /\ UNCHANGED <<require_2fa, session, srv, trusted, kept>>
    BY <1>6 DEF auth_2fa
  <2>2. Alone(w)
    BY <1>1, <2>1 DEF Alone
  <2>3. InWindow(w)'
    <3>1. up'[w] = Tail(u) /\ down'[w] = Append(down[w], Error("require_2fa"))
      BY <1>1, <2>1
    <3>2. require_2fa[w] => TwoFactor
      BY <1>3 DEF Fit
    <3> HIDE DEF IInv, Typed
    <3>3. Fit(Tail(u), Append(down[w], Error("require_2fa")), cli[w], password[w], "open", asked[w],
              require_2fa[w])
      BY <1>1, <1>2, <1>3, <1>4, <1>6, <3>2, FitAnswer
    <3> QED BY <1>1, <1>6, <2>1, <3>1, <3>3 DEF InWindow
  <2>4. Keeps'
    <3>1. CASE w = "main"
      BY <1>1, <1>2, <2>1, <3>1 DEF WInv, Keeps
    <3>2. CASE w # "main"
      BY <2>1, <2>2, <3>2, MainKeeps
    <3> QED BY <3>1, <3>2
  <2> QED BY <1>1, <2>1, <2>2, <2>3, <2>4, Others DEF WInv, Ranges
<1>7. CASE ~(srv[w] = "open" /\ require_2fa[w])
  <2>1. UNCHANGED <<require_2fa, session, srv, trusted, down, kept>>
    BY <1>7 DEF auth_2fa
  <2>2. srv[w] = "authorized"
    BY <1>4, <1>7
  <2>3. Alone(w)
    BY <1>1, <2>1 DEF Alone
  <2>4. InWindow(w)'
    <3>1. up'[w] = Tail(u)
      BY <1>1
    <3> HIDE DEF IInv, Typed
    <3>2. Fit(Tail(u), down[w], cli[w], password[w], srv[w], asked[w], require_2fa[w])
      BY <1>1, <1>2, <1>3, <2>2, FitIgnore
    <3> QED BY <1>1, <2>1, <3>1, <3>2 DEF InWindow
  <2>5. Keeps'
    <3>1. CASE w = "main"
      BY <1>1, <1>2, <2>1, <3>1 DEF WInv, Keeps
    <3>2. CASE w # "main"
      BY <2>1, <2>3, <3>2, MainKeeps
    <3> QED BY <3>1, <3>2
  <2> QED BY <1>1, <2>1, <2>3, <2>4, <2>5, Others DEF WInv, Ranges
<1> QED BY <1>5, <1>6, <1>7

(* The user of the host is asked: the request was not one to be answered, or *)
(* its password is wrong.                                                    *)
LEMMA AskW ==
  ASSUME IInv, WInv, NEW w \in Windows, NEW q \in BOOLEAN, Taken(w, q),
         srv[w] = "open", q => require_2fa[w],
         UNCHANGED <<session, trusted>>,
         \/ ask(w, <<Error("no_password_access")>>) /\ only_click
         \/ ask(w, <<>>) /\ ~Real(Head(up[w]))
         \/ ask(w, <<Error("wrong")>>) /\ Real(Head(up[w])) /\ ~Known(password[w], session, trusted)
                                       /\ (w = "main" /\ cli[w] # "closed" => ~kept)
  PROVE  WInv'
<1> USE DEF IInv, Typed
<1>1. Fit(up[w], down[w], cli[w], password[w], "open", asked[w], require_2fa[w])
  BY DEF WInv, InWindow
<1>2. PICK d : /\ down' = [down EXCEPT ![w] = d]
               /\ asked' = [asked EXCEPT ![w] = TRUE]
               /\ \/ d = down[w] \o <<Error("no_password_access")>> /\ only_click
                  \/ d = down[w] \o <<>> /\ ~Real(Head(up[w]))
                  \/ /\ d = down[w] \o <<Error("wrong")>> /\ Real(Head(up[w]))
                     /\ w = "main" /\ cli[w] # "closed" => ~kept
  BY DEF ask
<1>3. UNCHANGED <<srv, kept>>
  BY DEF ask, history
<1>4. /\ up[w] \in Seq(Ups) /\ up[w] # <<>> /\ down[w] \in Seq(Downs)
      /\ up'[w] = Tail(up[w]) /\ cli'[w] = cli[w] /\ password'[w] = password[w]
      /\ require_2fa'[w] = q /\ down'[w] = d /\ srv'[w] = "open"
  BY <1>2, <1>3 DEF Taken
<1>5. asked'[w] = TRUE /\ asked' \in [Windows -> BOOLEAN]
  BY <1>2, Zenon DEF WInv, Ranges
<1>6. Alone(w)
  BY <1>2, <1>3 DEF Alone, Taken, WInv, Ranges
<1>7. /\ Error("wrong") \in Downs /\ Error("no_password_access") \in Downs
      /\ Error("no_password_access").kind \notin Answers
  BY DEF Error, Downs, Answers
<1> HIDE DEF IInv, Typed
<1>8. /\ down[w] \o <<>> = down[w]
      /\ down[w] \o <<Error("wrong")>> = Append(down[w], Error("wrong"))
      /\ down[w] \o <<Error("no_password_access")>> = Append(down[w], Error("no_password_access"))
  BY <1>4, <1>7, OneMoreAnswer, Channels
<1>9. Fit(Tail(up[w]), d, cli[w], password[w], "open", TRUE, q)
  <2>1. PICK u, e, c, p, a, r : /\ u = up[w] /\ e = down[w] /\ c = cli[w] /\ p = password[w]
                                /\ a = asked[w] /\ r = require_2fa[w]
    OBVIOUS
  <2>2. /\ u \in Seq(Ups) /\ u # <<>> /\ e \in Seq(Downs) /\ Fit(u, e, c, p, "open", a, r)
        /\ q => r
    BY <1>1, <1>4, <2>1
  <2>3. q => TwoFactor
    BY <2>2 DEF Fit
  <2>4. only_click \/ ~Real(Head(u))
        => /\ Fit(Tail(u), e, c, p, "open", TRUE, q)
           /\ Fit(Tail(u), Append(e, Error("no_password_access")), c, p, "open", TRUE, q)
    BY <2>2, FitAsk
  <2>5. Real(Head(u)) => Fit(Tail(u), Append(e, Error("wrong")), c, p, "open", TRUE, q)
    BY <2>2, <2>3, FitAnswer
  <2> QED BY <1>2, <1>8, <2>1, <2>4, <2>5
<1>10. InWindow(w)'
  BY <1>4, <1>5, <1>9 DEF InWindow
<1>11. Keeps'
  <2>1. CASE w = "main"
    <3> SUFFICES ASSUME kept, cli[w] # "closed"
                 PROVE  /\ Known(password'["main"], session', trusted')
                        /\ cli'["main"] \notin Typing
                        /\ ~Has(down'["main"], Answers) /\ ~Has(up'["main"], CodeKinds)
      BY <1>3, <1>4, <2>1 DEF Keeps
    <3>1. /\ Known(password[w], session, trusted) /\ cli[w] \notin Typing
          /\ ~Has(down[w], Answers) /\ ~Has(up[w], CodeKinds)
      BY <2>1 DEF WInv, Keeps
    <3>2. \/ d = down[w] \o <<Error("no_password_access")>>
          \/ d = down[w] \o <<>>
      BY <1>2, <2>1
    <3>3. ~Has(d, Answers)
      <4>1. ~Has(Append(down[w], Error("no_password_access")), Answers)
        BY <1>4, <1>7, <3>1, OneMoreAnswer, Zenon
      <4> QED BY <1>8, <3>1, <3>2, <4>1
    <3>4. ~Has(Tail(up[w]), CodeKinds)
      BY <1>4, <3>1, FirstRequest
    <3> QED BY <1>4, <2>1, <3>1, <3>3, <3>4
  <2>2. CASE w # "main"
    BY <1>3, <1>6, <2>2, MainKeeps
  <2> QED BY <2>1, <2>2
<1>12. Ranges'
  BY <1>3, <1>5 DEF WInv, Ranges, Taken
<1> QED BY <1>6, <1>10, <1>11, <1>12, Others DEF WInv

(* A password that is valid: what the session has of it, and the answer.     *)
LEMMA ValidW ==
  ASSUME IInv, WInv, NEW w \in Windows, NEW q \in BOOLEAN, Taken(w, q), srv[w] = "open",
         Real(Head(up[w])), q => require_2fa[w] /\ ~trusted, TwoFactor => q \/ trusted,
         send_logon_response(w, password[w], q, session'), UNCHANGED <<asked, trusted>>,
         password[w] # 0, ~only_click, password[w] = Permanent => PermanentEnabled,
         \/ /\ session' = session /\ password[w] \in {Permanent, session.random_password}
            /\ kept' = in_with_password(w)
         \/ /\ session' = update_or_insert_session(password[w]) /\ password[w] = temp
            /\ kept' = (w = "main" /\ srv'[w] = "authorized")
  PROVE  WInv'
<1>1. /\ InWindow(w)' /\ Alone(w)
      /\ \/ q /\ ~session'.tfa /\ srv'[w] = "open"
         \/ (q => session'.tfa) /\ srv'[w] = "authorized" /\ ~Has(down'[w], Answers)
      /\ cli'[w] \notin Typing /\ ~Has(up'[w], CodeKinds)
  <2>1. PICK s : s = session'
    OBVIOUS
  <2>2. send_logon_response(w, password[w], q, s)
    BY <2>1
  <2>3. /\ InWindow(w)' /\ Alone(w)
        /\ \/ q /\ ~s.tfa /\ srv'[w] = "open"
           \/ (q => s.tfa) /\ srv'[w] = "authorized" /\ ~Has(down'[w], Answers)
        /\ cli'[w] \notin Typing /\ ~Has(up'[w], CodeKinds)
    BY <2>2, LetIn, Zenon
  <2> QED BY <2>1, <2>3
<1>2. /\ kept \in BOOLEAN /\ temp \in Nat \ {0} /\ session.random_password \in Nat /\ session.id \in Nat
      /\ ids \in Nat
  BY DEF WInv, Ranges, IInv, Typed
<1>3. /\ session'.random_password <= MaxTemp
      /\ session'.id = 0 => session'.random_password = 0
      /\ password[w] \in {Permanent, session'.random_password}
  <2>1. CASE session' = session /\ password[w] \in {Permanent, session.random_password}
    BY <2>1 DEF WInv, Ranges
  <2>2. CASE session' = update_or_insert_session(password[w]) /\ password[w] = temp
    <3>1. session'.random_password = temp /\ session'.id # 0
      BY <1>2, <2>2 DEF update_or_insert_session
    <3> QED BY <2>2, <3>1 DEF WInv, Ranges
  <2> QED BY <2>1, <2>2
<1>4. kept' \in BOOLEAN
  BY <1>2, Zenon DEF in_with_password
<1>5. Keeps'
  <2>1. CASE w = "main"
    <3> SUFFICES ASSUME kept', cli'["main"] # "closed"
                 PROVE  /\ Known(password'["main"], session', trusted')
                        /\ ~Has(down'["main"], Answers)
      BY <1>1, <2>1 DEF Keeps
    <3>1. password'["main"] = password["main"] /\ cli'["main"] = cli["main"]
      BY DEF Taken
    <3>2. CASE srv'[w] = "authorized"
      <4>1. (q => session'.tfa) /\ ~Has(down'[w], Answers)
        BY <1>1, <3>2
      <4> QED BY <1>3, <2>1, <3>1, <4>1 DEF Known
    <3>3. CASE srv'[w] # "authorized"
      <4>1. q /\ ~session'.tfa
        BY <1>1, <3>3
      <4>2. kept /\ session' = session
        BY <2>1, <3>3 DEF in_with_password
      <4>3. Known(password["main"], session, trusted)
        BY <3>1, <4>2 DEF WInv, Keeps
      <4>4. trusted
        <5>1. q => TwoFactor
          BY DEF WInv, InWindow, Fit
        <5> QED BY <4>1, <4>2, <4>3, <5>1 DEF Known
      <4> QED BY <4>1, <4>4
    <3> QED BY <3>2, <3>3
  <2>2. CASE w # "main"
    <3>1. kept' => kept /\ session' = session
      BY <1>2, <2>2 DEF in_with_password
    <3> QED BY <1>1, <2>2, <3>1, MainKeeps
  <2> QED BY <2>1, <2>2
<1>6. Ranges'
  BY <1>3, <1>4 DEF WInv, Ranges, Taken
<1> QED BY <1>1, <1>5, <1>6, Others DEF WInv

LEMMA RequestW ==
  ASSUME IInv, WInv, NEW w \in Windows, login_request(w) PROVE WInv'
<1> USE DEF IInv, Typed
<1> DEFINE u == up[w]
<1> DEFINE m == Head(u)
<1>1. /\ u # <<>> /\ up' = [up EXCEPT ![w] = Tail(u)] /\ m.kind = "login"
      /\ UNCHANGED <<temp, trusted, cli, password>>
  BY DEF login_request, Popped, client
<1>2. /\ u \in Seq(Ups) /\ down[w] \in Seq(Downs) /\ m \in Ups /\ (Real(m) <=> m.pw # 0)
  BY <1>1, FirstRequest DEF Real
<1>3. Fit(u, down[w], cli[w], password[w], srv[w], asked[w], require_2fa[w])
  BY DEF WInv, InWindow
<1>4. srv[w] # "none" /\ (Real(m) => m.pw = password[w])
  <2> HIDE DEF IInv, Typed
  <2> QED BY <1>1, <1>2, <1>3, FirstRequest DEF Fit
<1>5. CASE srv[w] = "authorized"
  <2>1. UNCHANGED <<require_2fa, session, srv, down, kept, asked>>
    BY <1>5 DEF login_request, history
  <2>2. Alone(w)
    BY <1>1, <2>1 DEF Alone
  <2>3. InWindow(w)'
    <3>1. up'[w] = Tail(u)
      BY <1>1
    <3> HIDE DEF IInv, Typed
    <3>2. Fit(Tail(u), down[w], cli[w], password[w], srv[w], asked[w], require_2fa[w])
      BY <1>1, <1>2, <1>3, <1>5, FitIgnore
    <3> QED BY <1>1, <2>1, <3>1, <3>2 DEF InWindow
  <2>4. Keeps'
    <3>1. CASE w = "main"
      <4>1. up'["main"] = Tail(u) /\ (Has(Tail(u), CodeKinds) => Has(u, CodeKinds))
        BY <1>1, <1>2, <3>1, FirstRequest
      <4> QED BY <1>1, <2>1, <3>1, <4>1 DEF WInv, Keeps
    <3>2. CASE w # "main"
      BY <1>1, <2>1, <2>2, <3>2, MainKeeps
    <3> QED BY <3>1, <3>2
  <2> QED BY <1>1, <2>1, <2>2, <2>3, <2>4, Others DEF WInv, Ranges
<1>6. CASE srv[w] = "open"
  <2>1. PICK q \in BOOLEAN : q = (require_2fa[w] /\ ~trusted)
    BY Zenon
  <2>2. require_2fa' = [require_2fa EXCEPT ![w] = q]
    BY <1>6, <2>1 DEF login_request
  <2>3. Taken(w, q) /\ (q => require_2fa[w] /\ ~trusted) /\ (TwoFactor => q \/ trusted)
    BY <1>1, <1>6, <2>1, <2>2 DEF Taken, CodeRequired
  <2>4. \/ only_click /\ ask(w, <<Error("no_password_access")>>)
        \/ ~only_click /\ m.pw = 0 /\ ask(w, <<>>)
        \/ ~only_click /\ m.pw # 0 /\ validate(w, m.pw)
    BY <1>6 DEF login_request
  <2>5. CASE only_click /\ ask(w, <<Error("no_password_access")>>)
    <3>1. session' = session
      BY <2>5 DEF ask
    <3> QED BY <1>1, <1>6, <2>3, <2>5, <3>1, AskW
  <2>6. CASE ~only_click /\ m.pw = 0 /\ ask(w, <<>>)
    <3>1. session' = session
      BY <2>6 DEF ask
    <3> QED BY <1>1, <1>2, <1>6, <2>3, <2>6, <3>1, AskW
  <2>7. CASE ~only_click /\ m.pw # 0 /\ validate(w, m.pw)
    <3>1. Real(m) /\ m.pw = password[w] /\ require_2fa'[w] = q /\ validate(w, password[w])
      BY <1>2, <1>4, <2>2, <2>7
    <3>2. /\ temp <= MaxTemp /\ session.random_password <= MaxTemp
          /\ temp \in Nat /\ session.random_password \in Nat /\ MaxTemp \in Nat
      BY LoginAssumption DEF WInv, Ranges
    <3>3. temp # Permanent /\ session.random_password # Permanent
      BY <3>2 DEF Permanent
    <3>4. CASE /\ is_recent_session(password[w])
               /\ send_logon_response(w, password[w], q, session)
               /\ kept' = in_with_password(w)
               /\ UNCHANGED <<session, asked>>
      <4>1. password[w] = session.random_password
        BY <3>4 DEF is_recent_session
      <4> QED BY <1>1, <1>6, <2>3, <2>7, <3>1, <3>3, <3>4, <4>1, ValidW
    <3>5. CASE /\ password[w] = temp
               /\ session' = update_or_insert_session(password[w])
               /\ send_logon_response(w, password[w], q, session')
               /\ kept' = (w = "main" /\ srv'[w] = "authorized")
               /\ UNCHANGED asked
      BY <1>1, <1>6, <2>3, <2>7, <3>1, <3>3, <3>5, ValidW
    <3>6. CASE /\ PermanentEnabled /\ password[w] = Permanent
               /\ send_logon_response(w, password[w], q, session)
               /\ kept' = in_with_password(w)
               /\ UNCHANGED <<session, asked>>
      BY <1>1, <1>6, <2>3, <2>7, <3>1, <3>6, ValidW
    <3>7. CASE /\ ~is_recent_session(password[w])
               /\ ~(TemporaryEnabled /\ password[w] = temp)
               /\ ~(PermanentEnabled /\ password[w] = Permanent)
               /\ ask(w, <<Error("wrong")>>)
      <4>1. session' = session
        BY <3>7 DEF ask
      <4>2. ~Known(password[w], session, trusted)
        BY <3>7 DEF Known, is_recent_session
      <4>3. w = "main" /\ cli[w] # "closed" => ~kept
        BY <4>2 DEF WInv, Keeps
      <4> QED BY <1>1, <1>6, <2>3, <3>1, <3>7, <4>1, <4>2, <4>3, AskW
    <3> QED BY <3>1, <3>4, <3>5, <3>6, <3>7 DEF validate
  <2> QED BY <2>4, <2>5, <2>6, <2>7
<1> QED BY <1>4, <1>5, <1>6

LEMMA StepW == IInv /\ WInv /\ [Next]_vars => WInv'
<1> SUFFICES ASSUME IInv, WInv, [Next]_vars PROVE WInv'
  OBVIOUS
<1>1. CASE ghost_ends \/ update_temporary_password \/ session_lapses \/ UNCHANGED vars
  BY <1>1, QuietW
<1>2. ASSUME NEW w \in Windows, login_request(w) \/ auth_2fa(w) \/ authorize(w) PROVE WInv'
  BY <1>2, RequestW, AuthW, AuthorizeW
<1>3. ASSUME NEW w \in Windows, connect(w) \/ login_from_ui(w) \/ send2fa(w) \/ receive(w) PROVE WInv'
  BY <1>3, ConnectW, SendW, HearW
<1>4. ASSUME NEW w \in Windows, close_by_cm(w) \/ close(w) \/ link_breaks(w) PROVE WInv'
  BY <1>4, EndW
<1> QED BY <1>1, <1>2, <1>3, <1>4 DEF Next

(* A window whose link broke gets in again with what it has, and none is   *)
(* left waiting for an answer that nobody will give, whatever the order in *)
(* which the two windows, the host's user and the lapse of the session     *)
(* come: handle_hash and handle_login_error in src/src/client.rs, and      *)
(* Connection::on_message with SESSIONS in src/src/server/connection.rs.   *)
THEOREM WindowsAlwaysGetIn == Spec => []WindowsGetIn
<1>1. IInv /\ WInv /\ [Next]_vars => WInv'
  BY StepW
<1>2. Spec => []WInv
  BY Invariance, InitW, <1>1, PTL DEF Spec
<1>3. WInv => WindowsGetIn
  <2> SUFFICES ASSUME WInv PROVE WindowsGetIn
    OBVIOUS
  <2>1. NobodyWaitsForNothing
    BY DEF WInv, InWindow, Fit, NobodyWaitsForNothing
  <2>2. ReconnectWorks
    BY DEF WInv, Keeps, Known, ReconnectWorks
  <2> QED BY <2>1, <2>2 DEF WindowsGetIn
<1> QED BY <1>2, <1>3, PTL

-----------------------------------------------------------------------------
(* The types.  Entries are numbered: each new one stands for an earlier one *)
(* that an event has removed, and an entry has a password or a code.        *)
Numbered ==
  /\ ids \in Nat /\ events \in 0 .. MaxEvents
  /\ session \in [random_password : Nat, tfa : BOOLEAN, id : Nat]
  /\ session.id <= ids
  /\ session.id = 0 => ids <= events /\ session = NoSession
  /\ session.id # 0 => ids <= events + 1 /\ (session.random_password # 0 \/ session.tfa)

(* Nobody but an authorized connection moves the clock of an entry.         *)
Clocks ==
  /\ clock \in [Windows -> Nat] /\ ghost \in BOOLEAN
  /\ \A w \in Windows : clock[w] <= ids /\ (srv[w] # "authorized" => clock[w] = 0)

(* Passwords are those that there have been.                                *)
Within == password \in [Windows -> Passwords] /\ saved \in Passwords /\ shown \in Passwords

(* What a step does with the entry: it leaves it, removes it at the cost of *)
(* an event, or puts a password or a code into it.                          *)
Left == UNCHANGED <<session, ids>> /\ events' \in {events, events + 1}
Gone == session' = NoSession /\ ids' = ids /\ events' = events + 1
Put(s) == session' = s /\ allocated(s) /\ events' = events

(* The steps that answer a request of a window.                             *)
LEMMA RequestPuts ==
  ASSUME NEW w \in Windows, login_request(w) \/ auth_2fa(w) \/ authorize(w)
  PROVE  Left \/ Put(update_or_insert_session(temp)) \/ Put(set_session_2fa)
<1>1. CASE login_request(w)
  BY <1>1 DEF login_request, validate, ask, history, Left, Put
<1>2. CASE auth_2fa(w)
  BY <1>2 DEF auth_2fa, Left, Put
<1>3. CASE authorize(w)
  BY <1>3 DEF authorize, Left
<1> QED BY <1>1, <1>2, <1>3

(* All steps.                                                               *)
LEMMA StepPuts ==
  ASSUME [Next]_vars, events \in 0 .. MaxEvents
  PROVE  /\ \/ Left \/ Gone
            \/ Put(update_or_insert_session(temp)) \/ Put(set_session_2fa)
         /\ events' \in 0 .. MaxEvents
<1> USE LoginAssumption
<1>1. ASSUME ghost_ends \/ update_temporary_password \/ UNCHANGED vars PROVE Left /\ events' = events
  BY <1>1 DEF ghost_ends, update_temporary_password, vars, server, Left
<1>2. ASSUME session_lapses PROVE Gone /\ events < MaxEvents
  BY <1>2 DEF session_lapses, Gone
<1>3. ASSUME NEW w \in Windows, login_request(w) \/ auth_2fa(w) \/ authorize(w)
      PROVE  events' = events
  BY <1>3 DEF login_request, auth_2fa, authorize
<1>4. ASSUME NEW w \in Windows, connect(w) \/ login_from_ui(w) \/ send2fa(w) \/ receive(w)
      PROVE  Left /\ events' = events
  BY <1>4 DEF connect, login_from_ui, send2fa, receive, server, Left
<1>5. ASSUME NEW w \in Windows, close_by_cm(w) \/ close(w) \/ link_breaks(w)
      PROVE  (Left \/ Gone) /\ events < MaxEvents /\ events' = events + 1
  BY <1>5 DEF close_by_cm, close, link_breaks, removed, Left, Gone
<1>6. events' \in {events, events + 1} /\ (events' # events => events < MaxEvents)
  BY <1>1, <1>2, <1>3, <1>4, <1>5 DEF Next, Gone
<1>7. events' \in 0 .. MaxEvents
  BY <1>6
<1>8. Left \/ Gone \/ Put(update_or_insert_session(temp)) \/ Put(set_session_2fa)
  BY <1>1, <1>2, <1>4, <1>5, RequestPuts, Zenon DEF Next
<1> QED BY <1>7, <1>8

(* So the entries stay numbered.                                            *)
LEMMA NumberedStep == IInv /\ Numbered /\ [Next]_vars => Numbered' /\ ids <= ids' /\ session'.id <= ids'
<1> SUFFICES ASSUME IInv, Numbered, [Next]_vars PROVE Numbered' /\ ids <= ids'
  BY DEF Numbered
<1> USE DEF Numbered
<1>0. temp \in Nat \ {0}
  BY DEF IInv, Typed
<1>1. events' \in 0 .. MaxEvents
  BY StepPuts
<1>2. CASE Left
  <2>1. session' = session /\ ids' = ids /\ events \in Nat /\ events' \in Nat /\ events <= events'
    BY <1>2, LoginAssumption DEF Left
  <2>2. /\ ids \in Nat /\ session.id <= ids
        /\ session \in [random_password : Nat, tfa : BOOLEAN, id : Nat]
        /\ session.id = 0 => ids <= events /\ session = NoSession
        /\ session.id # 0 => ids <= events + 1
        /\ session.id # 0 => session.random_password # 0 \/ session.tfa
    OBVIOUS
  <2> HIDE DEF Numbered
  <2>3. /\ ids <= events => ids <= events'
        /\ ids <= events + 1 => ids <= events' + 1
    <3>1. \A a, b, c \in Nat :
            b <= c => (a <= b => a <= c) /\ (a <= b + 1 => a <= c + 1)
      OBVIOUS
    <3>2. ids \in Nat
      BY <2>2
    <3>3. events \in Nat /\ events' \in Nat /\ events <= events'
      BY <2>1
    <3> QED BY <3>1, <3>2, <3>3
  <2>4. Numbered'
    BY <1>1, <2>1, <2>2, <2>3 DEF Numbered
  <2> QED BY <2>1, <2>2, <2>4
<1>3. CASE Gone
  BY <1>1, <1>3, LoginAssumption DEF Gone, NoSession
<1>4. CASE Put(update_or_insert_session(temp))
  BY <1>0, <1>1, <1>4, LoginAssumption DEF Put, update_or_insert_session, allocated
<1>5. CASE Put(set_session_2fa)
  <2>1. CASE session.id = 0
    BY <2>1, <1>1, <1>5, LoginAssumption DEF Put, set_session_2fa, allocated
  <2>2. CASE session.id # 0
    <3>1. session' = [session EXCEPT !.tfa = TRUE] /\ ids' = ids /\ events' = events
      BY <2>2, <1>5 DEF Put, set_session_2fa, allocated
    <3>2. /\ session' \in [random_password : Nat, tfa : BOOLEAN, id : Nat]
          /\ session'.id = session.id /\ session'.tfa
      BY <3>1
    <3> QED BY <1>1, <2>2, <3>1, <3>2
  <2> QED BY <2>1, <2>2
<1> QED BY <1>2, <1>3, <1>4, <1>5, StepPuts

(* An authorized connection has the clock of the entry there is.            *)
LEMMA ClocksStep == IInv /\ Numbered /\ Clocks /\ [Next]_vars => Clocks'
<1> SUFFICES ASSUME IInv, Numbered, Clocks, [Next]_vars PROVE Clocks'
  OBVIOUS
<1> USE DEF Clocks
<1>0. ids \in Nat /\ ids' \in Nat /\ ids <= ids' /\ session'.id \in Nat /\ session'.id <= ids'
  BY NumberedStep DEF Numbered
<1>t. srv \in [Windows -> {"none", "open", "authorized"}]
  BY DEF IInv, Typed
<1>1. ASSUME UNCHANGED <<srv, clock>>, ghost' \in {ghost, FALSE} PROVE Clocks'
  <2>1. ghost' \in BOOLEAN
    BY <1>1
  <2> QED BY <1>0, <1>1, <2>1
<1>2. ASSUME NEW w \in Windows, srv' = [srv EXCEPT ![w] = "none"], clock' = [clock EXCEPT ![w] = 0],
             ghost' \in {ghost, TRUE}
      PROVE  Clocks'
  <2>1. ghost' \in BOOLEAN
    BY <1>2
  <2> QED BY <1>0, <1>2, <1>t, <2>1
<1>3. ASSUME NEW w \in Windows, srv' = [srv EXCEPT ![w] = "authorized"],
             clock' = [clock EXCEPT ![w] = session'.id], ghost' = ghost
      PROVE  Clocks'
  BY <1>0, <1>3, <1>t
<1>4. ASSUME NEW w \in Windows, connect(w) PROVE Clocks'
  <2>1. srv' = [srv EXCEPT ![w] = "open"] /\ srv[w] = "none" /\ UNCHANGED <<clock, ghost>>
    BY <1>4 DEF connect
  <2> QED BY <1>0, <1>t, <2>1
<1>5. CASE ghost_ends \/ update_temporary_password \/ session_lapses \/ UNCHANGED vars
  BY <1>1, <1>5 DEF ghost_ends, update_temporary_password, session_lapses, vars, server
<1>6. ASSUME NEW w \in Windows, login_from_ui(w) \/ send2fa(w) \/ receive(w) PROVE Clocks'
  BY <1>1, <1>6 DEF login_from_ui, send2fa, receive, server
<1>7. ASSUME NEW w \in Windows, close_by_cm(w) \/ close(w) \/ link_breaks(w) PROVE Clocks'
  <2>1. srv' = [srv EXCEPT ![w] = "none"] /\ clock' = [clock EXCEPT ![w] = 0] /\ ghost' \in {ghost, TRUE}
    BY <1>7 DEF close_by_cm, close, link_breaks, ended
  <2> QED BY <1>2, <2>1
<1>8. ASSUME NEW w \in Windows, login_request(w) \/ auth_2fa(w) \/ authorize(w) PROVE Clocks'
  <2>1. ghost' = ghost
    BY <1>8 DEF login_request, auth_2fa, authorize
  <2>2. \/ UNCHANGED <<srv, clock>>
        \/ srv' = [srv EXCEPT ![w] = "authorized"] /\ clock' = [clock EXCEPT ![w] = session'.id]
    BY <1>8 DEF login_request, validate, ask, auth_2fa, authorize, send_logon_response
  <2> QED BY <1>1, <1>3, <2>1, <2>2
<1> QED BY <1>4, <1>5, <1>6, <1>7, <1>8 DEF Next

(* Passwords come from the user, the host or the file they are saved in.    *)
LEMMA WithinStep == WInv /\ IInv /\ Within /\ [Next]_vars => Within'
<1> SUFFICES ASSUME WInv, IInv, Within, [Next]_vars PROVE Within'
  OBVIOUS
<1>0. {0, temp, Permanent} \subseteq Passwords
  BY LoginAssumption DEF WInv, Ranges, IInv, Typed, Permanent, Passwords
<1> USE DEF Within
<1>1. CASE ghost_ends \/ update_temporary_password \/ session_lapses \/ UNCHANGED vars
  BY <1>0, <1>1 DEF ghost_ends, update_temporary_password, session_lapses, vars, client, history
<1>2. ASSUME NEW w \in Windows, login_request(w) \/ auth_2fa(w) \/ authorize(w) PROVE Within'
  <2>1. UNCHANGED <<password, saved>>
    BY <1>2 DEF login_request, auth_2fa, authorize, client
  <2>2. shown' \in {shown, temp, Permanent}
    BY <1>2 DEF login_request, validate, ask, auth_2fa, authorize, history
  <2> QED BY <1>0, <2>1, <2>2
<1>3. ASSUME NEW w \in Windows, connect(w) PROVE Within'
  <2>1. \E pw \in Passwords : password' = [password EXCEPT ![w] = pw]
    BY <1>3 DEF connect, Windows
  <2>2. UNCHANGED <<saved, shown>>
    BY <1>3 DEF connect, history
  <2> QED BY <2>1, <2>2
<1>4. ASSUME NEW w \in Windows, login_from_ui(w) \/ send2fa(w) PROVE Within'
  <2>1. UNCHANGED <<saved, shown>>
    BY <1>4 DEF login_from_ui, send2fa, history
  <2>2. password' = password \/ \E pw \in {temp, Permanent} : password' = [password EXCEPT ![w] = pw]
    BY <1>4 DEF login_from_ui, send2fa
  <2> QED BY <1>0, <2>1, <2>2
<1>5. ASSUME NEW w \in Windows, receive(w) PROVE Within'
  <2>1. shown' = shown /\ saved' \in {saved, password[w], 0}
    BY <1>5 DEF receive, history
  <2>2. down[w] \in Seq(Downs) /\ down[w] # <<>>
    BY <1>5 DEF receive, IInv, Typed
  <2>3. Head(down[w]) \in Downs
    BY <2>2
  <2>4. password' \in {password, [password EXCEPT ![w] = 0]}
    BY <1>5, <2>3 DEF receive, handle_login_error, Downs
  <2> QED BY <1>0, <2>1, <2>4
<1>6. ASSUME NEW w \in Windows, close_by_cm(w) \/ close(w) \/ link_breaks(w) PROVE Within'
  <2>1. saved' = saved /\ shown' \in {0, shown}
    BY <1>6 DEF close_by_cm, close, link_breaks, removed, client
  <2>2. password' \in {password, [password EXCEPT ![w] = 0]}
    BY <1>6 DEF close_by_cm, close, link_breaks, client
  <2> QED BY <1>0, <2>1, <2>2
<1> QED BY <1>1, <1>2, <1>3, <1>4, <1>5, <1>6 DEF Next

(* Type correctness of the login, and with it: there are never more entries *)
(* than events allow, an entry has a proof in it, and only an authorized   *)
(* connection keeps the clock of one.                                      *)
THEOREM TypeCorrect == Spec => []TypeOK
<1>1. Init => Numbered /\ Clocks /\ Within
  <2> SUFFICES ASSUME Init PROVE Numbered /\ Clocks /\ Within
    OBVIOUS
  <2>1. Numbered
    BY LoginAssumption DEF Init, Numbered, NoSession
  <2>2. ghost \in BOOLEAN
    BY Zenon DEF Init
  <2>3. clock \in [Windows -> Nat] /\ ids = 0 /\ \A w \in Windows : clock[w] = 0
    BY DEF Init
  <2>4. Within
    BY LoginAssumption DEF Init, Within, Passwords, Permanent
  <2> QED BY <2>1, <2>2, <2>3, <2>4 DEF Clocks
<1>2. Spec => []WInv
  BY Invariance, InitW, StepW, PTL DEF Spec
<1>3. IInv /\ WInv /\ Numbered /\ Clocks /\ Within => TypeOK
  <2> SUFFICES ASSUME IInv, WInv, Numbered, Clocks, Within PROVE TypeOK
    OBVIOUS
  <2>1. temp \in 1 .. MaxTemp /\ session.random_password \in Passwords
    BY LoginAssumption DEF IInv, Typed, WInv, Ranges, Numbered, Passwords, Permanent
  <2>2. ids \in 0 .. MaxIds /\ session.id \in 0 .. MaxIds /\ events \in 0 .. MaxEvents
    BY LoginAssumption DEF Numbered, MaxIds
  <2>3. session \in [random_password : Passwords, tfa : BOOLEAN, id : 0 .. MaxIds]
    BY <2>1, <2>2 DEF Numbered
  <2>4. clock \in [Windows -> 0 .. MaxIds]
    <3>1. MaxIds \in Nat /\ ids \in Nat /\ ids <= MaxIds
      BY <2>2, LoginAssumption DEF MaxIds
    <3>2. \A w \in Windows : clock[w] \in Nat /\ clock[w] <= ids
      BY DEF Clocks
    <3>3. \A w \in Windows : clock[w] \in 0 .. MaxIds
      BY <3>1, <3>2
    <3> QED BY <3>3 DEF Clocks
  <2>5. trusted \in BOOLEAN /\ coded \in BOOLEAN /\ kept \in BOOLEAN /\ ghost \in BOOLEAN
    BY Zenon DEF IInv, Typed, WInv, Ranges, Clocks
  <2>6. /\ srv \in [Windows -> {"none", "open", "authorized"}]
        /\ cli \in [Windows -> {"off", "wait", "password", "2fa", "on", "broken", "closed"}]
        /\ password \in [Windows -> Passwords] /\ saved \in Passwords /\ shown \in Passwords
    BY DEF IInv, Typed, Within
  <2>7. /\ require_2fa \in [Windows -> BOOLEAN] /\ asked \in [Windows -> BOOLEAN]
        /\ vouched \in [Windows -> BOOLEAN]
    BY Zenon DEF IInv, Typed, WInv, Ranges
  <2>8. /\ session.id = 0 <=> session = NoSession
        /\ session.id # 0 => session.random_password # 0 \/ session.tfa
        /\ \A w \in Windows : srv[w] # "authorized" => clock[w] = 0
    BY DEF Numbered, Clocks, NoSession
  <2> QED BY <2>1, <2>2, <2>3, <2>4, <2>5, <2>6, <2>7, <2>8 DEF TypeOK
<1> QED BY Invariance, <1>1, <1>2, <1>3, NumberedStep, ClocksStep, WithinStep, PTL DEF Spec

=============================================================================
