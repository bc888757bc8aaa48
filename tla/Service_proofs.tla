--------------------------- MODULE Service_proofs ---------------------------
(***************************************************************************)
(* Proofs about Service, for any set of connections and any kind of        *)
(* service: the type invariant, the two safety invariants and the effect   *)
(* of Server::subscribe.                                                   *)
(***************************************************************************)
EXTENDS Service, TLAPS

(* A service without a snapshot never has new subscribers.                 *)
NobodyNew == ~NeedSnapshot => new_subscribes = {}

(* A call is under way for a connection that was not removed.              *)
LiveCall == call.at # "none" => call.conn \in Conns \ removed

IInv ==
  /\ TypeOK
  /\ Disjoint
  /\ RemovedNotSubscribed
  /\ NobodyNew
  /\ LiveCall

(* What the invariant says of the maps, as one predicate of the two of     *)
(* them, so that the lemmas below can be about the operations alone.       *)
Maps(s, n) ==
  /\ s \subseteq Conns
  /\ n \subseteq Conns
  /\ s \cap n = {}
  /\ ~NeedSnapshot => n = {}

(* on_subscribe keeps the maps apart and adds its connection only.         *)
LEMMA OnSubscribe ==
  ASSUME NEW c \in Conns, Maps(subscribes, new_subscribes), on_subscribe(c)
  PROVE  /\ Maps(subscribes', new_subscribes')
         /\ Members' = Members \cup {c}
BY DEF Maps, on_subscribe, Members

(* on_unsubscribe leaves its connection in neither map, because it was in  *)
(* one of them at most.                                                    *)
LEMMA OnUnsubscribe ==
  ASSUME NEW c, Maps(subscribes, new_subscribes), on_unsubscribe(c)
  PROVE  /\ Maps(subscribes', new_subscribes')
         /\ Members' = Members \ {c}
BY DEF Maps, on_unsubscribe, Members

(* The swap moves subscribers and neither adds nor drops one.              *)
LEMMA Swap ==
  ASSUME Maps(subscribes, new_subscribes), swap_new_subscribes
  PROVE  /\ Maps(subscribes', new_subscribes')
         /\ Members' = Members
BY DEF Maps, swap_new_subscribes, Members

(* The invariant gives what the lemmas about the operations ask for.       *)
LEMMA InvMaps == IInv => Maps(subscribes, new_subscribes)
BY DEF IInv, Maps, TypeOK, Disjoint, NobodyNew

(* A step that gives the maps their properties, adds no member that was    *)
(* removed, and types the rest keeps the invariant.                        *)
LEMMA Rebuild ==
  ASSUME Maps(subscribes, new_subscribes)',
         Members' \cap removed' = {},
         LiveCall',
         TypeOK'
  PROVE  IInv'
BY DEF Maps, IInv, Disjoint, RemovedNotSubscribed, NobodyNew

(* A new service has no subscribers and no call is under way.             *)
LEMMA InitInv == Init => IInv
BY ServiceAssumption
   DEF Init, IInv, TypeOK, ThreadStates, NoCall, Disjoint, RemovedNotSubscribed,
       Members, NobodyNew, LiveCall

(* The calls into Server, by connections and by its Drop, keep the         *)
(* invariant.                                                              *)
LEMMA ServerCallsInv == IInv /\ ServerCalls => IInv'
<1> SUFFICES ASSUME IInv, ServerCalls PROVE IInv'
  OBVIOUS
<1>m. Maps(subscribes, new_subscribes)
  BY InvMaps
<1>t. TypeOK /\ Members \cap removed = {} /\ LiveCall
  BY DEF IInv, RemovedNotSubscribed
<1>1. ASSUME NEW c \in Conns, add_connection(c) PROVE IInv'
  <2>1. Maps(subscribes', new_subscribes') /\ Members' \subseteq Members \cup {c}
    <3>1. CASE on_subscribe(c)
      BY <3>1, <1>m, OnSubscribe
    <3>2. CASE UNCHANGED <<subscribes, new_subscribes>>
      BY <3>2, <1>m DEF Members
    <3> QED BY <1>1, <3>1, <3>2 DEF add_connection
  <2>2. c \notin removed /\ UNCHANGED <<removed, call>>
    BY <1>1 DEF add_connection
  <2>3. TypeOK'
    BY <1>1, <1>t, <2>1 DEF add_connection, TypeOK, Maps
  <2>4. LiveCall'
    BY <1>t, <2>2 DEF LiveCall
  <2> QED BY <1>t, <2>1, <2>2, <2>3, <2>4, Rebuild DEF Maps
<1>2. ASSUME NEW c \in Conns, remove_connection(c) PROVE IInv'
  <2>1. Maps(subscribes', new_subscribes') /\ Members' = Members \ {c}
    BY <1>2, <1>m, OnUnsubscribe DEF remove_connection
  <2>2. removed' = removed \cup {c} /\ call = NoCall /\ call' = NoCall
    BY <1>2 DEF remove_connection, ServerFree
  <2>3. TypeOK'
    BY <1>2, <1>t, <2>1 DEF remove_connection, TypeOK, Maps
  <2>4. LiveCall'
    BY <2>2 DEF LiveCall, NoCall
  <2> QED BY <1>t, <2>1, <2>2, <2>3, <2>4, Rebuild DEF Maps
<1>3. ASSUME NEW c \in Conns, NEW sub \in BOOLEAN, subscribe(c, sub) PROVE IInv'
  <2>1. /\ UNCHANGED <<subscribes, new_subscribes, removed>>
        /\ c \notin removed
        /\ call' \in {NoCall, [conn |-> c, sub |-> FALSE, at |-> "act"],
                      [conn |-> c, sub |-> sub, at |-> "new"]}
    BY <1>3 DEF subscribe
  <2>2. TypeOK'
    BY <1>3, <1>t, <2>1 DEF subscribe, TypeOK, NoCall
  <2>3. LiveCall'
    BY <2>1 DEF NoCall, LiveCall
  <2> QED BY <1>m, <1>t, <2>1, <2>2, <2>3, Rebuild DEF Members
<1>4. ASSUME is_subed_new PROVE IInv'
  <2>1. /\ UNCHANGED <<subscribes, new_subscribes, removed>>
        /\ call.at = "new"
        /\ \/ call' = NoCall
           \/ call' = [call EXCEPT !.at = "act"]
    BY <1>4 DEF is_subed_new
  <2>2. TypeOK'
    BY <1>4, <1>t, <2>1 DEF is_subed_new, TypeOK, NoCall
  <2>3. LiveCall'
    BY <1>t, <2>1 DEF NoCall, TypeOK, LiveCall
  <2> QED BY <1>m, <1>t, <2>1, <2>2, <2>3, Rebuild DEF Members
<1>5. ASSUME subscribe_act PROVE IInv'
  <2>1. call.conn \in Conns \ removed /\ call' = NoCall /\ UNCHANGED removed
    BY <1>5, <1>t DEF subscribe_act, LiveCall
  <2>2. Maps(subscribes', new_subscribes') /\ Members' \subseteq Members \cup {call.conn}
    BY <1>5, <1>m, <2>1, OnSubscribe, OnUnsubscribe DEF subscribe_act
  <2>3. TypeOK'
    BY <1>5, <1>t, <2>1, <2>2 DEF subscribe_act, TypeOK, Maps, NoCall
  <2>4. LiveCall'
    BY <2>1 DEF LiveCall, NoCall
  <2> QED BY <1>t, <2>1, <2>2, <2>3, <2>4, Rebuild
<1>6. ASSUME join \/ joined PROVE IInv'
  <2>1. UNCHANGED <<subscribes, new_subscribes, serverVars>>
    BY <1>6 DEF join, joined
  <2>2. TypeOK'
    BY <1>6, <1>t DEF join, joined, TypeOK, serverVars
  <2>3. LiveCall'
    BY <1>t, <2>1 DEF LiveCall, serverVars
  <2> QED BY <1>m, <1>t, <2>1, <2>2, <2>3, Rebuild DEF Members, serverVars
<1> QED BY <1>1, <1>2, <1>3, <1>4, <1>5, <1>6 DEF ServerCalls

(* The service thread: only the drop of a ServiceSwap touches the maps,    *)
(* and it keeps their members.                                             *)
LEMMA ThreadInv == IInv /\ Thread => IInv'
<1> SUFFICES ASSUME IInv, Thread PROVE IInv'
  OBVIOUS
<1>m. Maps(subscribes, new_subscribes)
  BY InvMaps
<1>t. TypeOK /\ Members \cap removed = {} /\ LiveCall
  BY DEF IInv, RemovedNotSubscribed
<1>1. CASE drop_swap
  <2>1. Maps(subscribes', new_subscribes') /\ Members' = Members
    BY <1>1, <1>m, Swap DEF drop_swap
  <2>2. UNCHANGED serverVars
    BY <1>1 DEF drop_swap
  <2>3. TypeOK'
    BY <1>1, <1>t, <2>1 DEF drop_swap, TypeOK, Maps, serverVars, ThreadStates
  <2>4. LiveCall'
    BY <1>t, <2>2 DEF LiveCall, serverVars
  <2> QED BY <1>t, <2>1, <2>2, <2>3, <2>4, Rebuild DEF serverVars
<1>2. CASE ~drop_swap
  <2>1. UNCHANGED membership /\ pc' \in ThreadStates
    BY <1>2 DEF Thread, check_active, check_subscribes, check_ok, begin_work, no_work,
                snapshot, send_new_subscribes, snapshot_fails, send_shared,
                callback_fails, after_error, Goto, ThreadStates, NextRound
  <2>2. TypeOK'
    BY <1>t, <2>1 DEF TypeOK, membership, serverVars
  <2>3. LiveCall'
    BY <1>t, <2>1 DEF LiveCall, membership, serverVars
  <2> QED BY <1>m, <1>t, <2>1, <2>2, <2>3, Rebuild
          DEF Members, membership, serverVars
<1> QED BY <1>1, <1>2

(* Nothing changes.                                                        *)
LEMMA StutterInv == IInv /\ UNCHANGED vars => IInv'
BY DEF IInv, TypeOK, Disjoint, RemovedNotSubscribed, NobodyNew, LiveCall, Members,
       vars, serverVars

(* The specification without its fairness, which is all that safety needs  *)
(* and all that a service built on this one shows of itself.               *)
Safety == Init /\ [][Next]_vars

(* Each step keeps the inductive invariant, fair or not.                    *)
LEMMA Preserved == Safety => []IInv
<1>1. IInv /\ [Next]_vars => IInv'
  BY ServerCallsInv, ThreadInv, StutterInv DEF Next
<1> QED BY InitInv, <1>1, PTL DEF Safety

(* The inductive invariant holds in every reachable state.                 *)
THEOREM Invariance == Spec => []IInv
BY Preserved, PTL DEF Spec, Safety

(* Type correctness, for any set of connections.                           *)
THEOREM TypeCorrect == Spec => []TypeOK
<1>1. IInv => TypeOK
  BY DEF IInv
<1> QED BY Invariance, <1>1, PTL

(* No connection is ever in both maps, and one that was removed is never   *)
(* subscribed again, whatever call or step of the thread comes after.      *)
THEOREM Subscribed == Spec => []Subscriptions
<1>1. IInv => Subscriptions
  BY DEF IInv, Subscriptions
<1> QED BY Invariance, <1>1, PTL

(* A call to Server::subscribe that returns has done what it was asked,    *)
(* unless the swap came between its two reads.                             *)
LEMMA CallsTakeEffect == Safety => SubscribeTakesEffect
<1> DEFINE Effect == \/ (call.conn \in Members') = call.sub
                     \/ /\ call.at = "new"
                        /\ ~call.sub
                        /\ call.conn \in subscribes
<1>1. ASSUME IInv, [Next]_vars, call.at # "none", call'.at = "none" PROVE Effect
  <2>m. Maps(subscribes, new_subscribes) /\ TypeOK /\ LiveCall
    BY <1>1, InvMaps DEF IInv
  <2>1. CASE is_subed_new
    <3>1. call.at = "new" /\ UNCHANGED <<subscribes, new_subscribes>>
      BY <2>1 DEF is_subed_new
    <3>2. call' # [call EXCEPT !.at = "act"]
      BY <1>1, <2>m DEF TypeOK
    <3>3. (call.conn \in new_subscribes) = call.sub
      BY <2>1, <3>2 DEF is_subed_new
    <3>4. Members' = subscribes \cup new_subscribes
      BY <3>1 DEF Members
    <3>5. call.sub \in BOOLEAN
      BY <2>m DEF TypeOK
    <3> QED BY <3>1, <3>3, <3>4, <3>5
  <2>2. CASE subscribe_act
    <3>1. call.conn \in Conns /\ call.sub \in BOOLEAN
      BY <2>2, <2>m DEF subscribe_act, LiveCall, TypeOK
    <3>2. CASE call.sub
      <4>1. Members' = Members \cup {call.conn}
        BY <2>2, <2>m, <3>1, <3>2, OnSubscribe DEF subscribe_act
      <4> QED BY <3>1, <3>2, <4>1
    <3>3. CASE ~call.sub
      <4>1. Members' = Members \ {call.conn}
        BY <2>2, <2>m, <3>1, <3>3, OnUnsubscribe DEF subscribe_act
      <4> QED BY <3>1, <3>3, <4>1
    <3> QED BY <3>2, <3>3
  <2>3. CASE ~(is_subed_new \/ subscribe_act)
    <3>1. call # NoCall
      BY <1>1 DEF NoCall
    <3>2. call' = call
      BY <1>1, <2>3, <3>1
         DEF Next, ServerCalls, add_connection, remove_connection, subscribe, ServerFree,
             join, joined, Thread, check_active, check_subscribes, check_ok, begin_work,
             no_work, snapshot, send_new_subscribes, snapshot_fails, drop_swap,
             send_shared, callback_fails, after_error, membership, vars, serverVars
    <3> QED BY <1>1, <3>2
  <2> QED BY <2>1, <2>2, <2>3
<1>2. IInv /\ [Next]_vars
        => [(call.at # "none" /\ call'.at = "none") => Effect]_vars
  BY <1>1
<1> QED BY Preserved, <1>2, PTL DEF Safety, SubscribeTakesEffect

(* Server::subscribe does what it is asked, but for the one race of its    *)
(* two reads.                                                              *)
THEOREM SubscribeEffect == Spec => SubscribeTakesEffect
BY CallsTakeEffect, PTL DEF Spec, Safety

=============================================================================
