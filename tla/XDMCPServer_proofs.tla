------------------------- MODULE XDMCPServer_proofs -------------------------
(***************************************************************************)
(* Proofs about XDMCPServer, for any displays, ids and bound on requests.  *)
(***************************************************************************)
EXTENDS XDMCPServer, TLAPS

(* What the entry of an id can be.  It is all that OneSeatPerSession needs *)
(* of the types: packets only ever carry ids that were accepted.           *)
TableOK ==
  /\ sessions \in [Ids -> Session \union {NoSession}]
  /\ accepted \subseteq Displays \X Ids \X Numbers

XDMCPIInv == TableOK /\ OneSeatPerSession

(* The table is empty at first, and nothing has been accepted.             *)
LEMMA XDMCPInitIInv == XDMCPInit => XDMCPIInv
BY DEF XDMCPInit, XDMCPIInv, TableOK, OneSeatPerSession

(* A Request adds an entry that has a timer and no seat.                   *)
LEMMA RequestIInv ==
  ASSUME NEW r \in Request, NEW id \in Ids, add_session(id, r), XDMCPIInv,
         accepted' = accepted \union {<<r.display, id, r.number>>}
  PROVE  XDMCPIInv'
<1> DEFINE new == [display |-> r.display, number |-> r.number, started |-> FALSE, timer |-> TRUE,
                   seats |-> 0, refused |-> FALSE]
<1>1. new \in Session
  BY DEF Session, Request
<1>2. sessions' = [sessions EXCEPT ![id] = new]
  BY DEF add_session
<1>3. accepted' \subseteq Displays \X Ids \X Numbers
  BY DEF XDMCPIInv, TableOK, Request
<1>4. TableOK'
  BY <1>1, <1>2, <1>3 DEF XDMCPIInv, TableOK
<1>5. OneSeatPerSession'
  <2> SUFFICES ASSUME NEW j \in Ids, sessions'[j] # NoSession
               PROVE  /\ sessions'[j].seats = IF sessions'[j].started THEN 1 ELSE 0
                      /\ sessions'[j].timer = ~sessions'[j].started
    BY DEF OneSeatPerSession
  <2>1. CASE j = id
    <3>1. sessions'[j] = new
      BY <1>2, <2>1 DEF XDMCPIInv, TableOK
    <3>2. new.seats = 0 /\ new.started = FALSE /\ new.timer = TRUE
      OBVIOUS
    <3> HIDE DEF new
    <3> QED BY <3>1, <3>2
  <2>2. CASE j # id
    <3>1. sessions'[j] = sessions[j]
      BY <1>2, <2>2 DEF XDMCPIInv, TableOK
    <3> QED BY <3>1 DEF XDMCPIInv, OneSeatPerSession
  <2> QED BY <2>1, <2>2
<1> QED BY <1>4, <1>5 DEF XDMCPIInv

(* A Manage starts a seat only for an entry without one.                   *)
LEMMA ManageIInv ==
  ASSUME NEW id \in Ids, NEW n \in Numbers, NEW ok \in BOOLEAN, handle_manage(id, n, ok), XDMCPIInv
  PROVE  XDMCPIInv'
<1> DEFINE s == sessions[id]
<1> DEFINE t == [display |-> s.display, number |-> s.number,
                 started |-> ok, timer |-> (s.timer /\ ~ok),
                 seats |-> IF ok THEN s.seats + 1 ELSE s.seats,
                 refused |-> (s.refused \/ n # s.number)]
<1>1. CASE UNCHANGED <<sessions, accepted>>
  BY <1>1 DEF XDMCPIInv, TableOK, OneSeatPerSession
<1>2. CASE /\ s # NoSession /\ ~s.started
           /\ sessions' = [sessions EXCEPT ![id] = t] /\ UNCHANGED accepted
  <2>1. s \in Session /\ s.seats = 0 /\ s.timer = TRUE
    BY <1>2 DEF XDMCPIInv, TableOK, OneSeatPerSession
  <2>2. /\ t \in Session
        /\ t.started = ok /\ t.timer = ~ok /\ t.seats = IF ok THEN 1 ELSE 0
    BY <2>1 DEF Session
  <2>3. TableOK'
    BY <1>2, <2>2 DEF XDMCPIInv, TableOK
  <2>4. OneSeatPerSession'
    <3> HIDE DEF t
    <3> SUFFICES ASSUME NEW j \in Ids, sessions'[j] # NoSession
                 PROVE  /\ sessions'[j].seats = IF sessions'[j].started THEN 1 ELSE 0
                        /\ sessions'[j].timer = ~sessions'[j].started
      BY DEF OneSeatPerSession
    <3>1. sessions'[j] = IF j = id THEN t ELSE sessions[j]
      BY <1>2 DEF XDMCPIInv, TableOK
    <3> QED BY <2>2, <3>1 DEF XDMCPIInv, OneSeatPerSession
  <2> QED BY <2>3, <2>4 DEF XDMCPIInv
<1> QED BY <1>1, <1>2 DEF handle_manage, xdmcpVars

(* Every packet and every timeout preserves the invariant.                 *)
LEMMA XDMCPNextIInv == XDMCPIInv /\ [XDMCPNext]_xdmcpVars => XDMCPIInv'
<1> SUFFICES ASSUME XDMCPIInv, [XDMCPNext]_xdmcpVars PROVE XDMCPIInv'
  OBVIOUS
<1>0. ASSUME UNCHANGED <<sessions, accepted>> PROVE XDMCPIInv'
  BY <1>0 DEF XDMCPIInv, TableOK, OneSeatPerSession
<1>1. ASSUME NEW d \in Displays, NEW names \in SUBSET AuthNames, handle_query(d, names) PROVE XDMCPIInv'
  BY <1>0, <1>1 DEF handle_query
<1>2. ASSUME NEW r \in Request, handle_request(r) PROVE XDMCPIInv'
  <2>1. CASE UNCHANGED <<sessions, accepted>>
    BY <1>0, <2>1
  <2>2. CASE \E id \in Ids : add_session(id, r) /\ accepted' = accepted \union {<<r.display, id, r.number>>}
    BY <2>2, RequestIInv
  <2> QED BY <1>2, <2>1, <2>2 DEF handle_request
<1>3. ASSUME NEW id \in Ids, session_timeout_cb(id) PROVE XDMCPIInv'
  <2>1. TableOK'
    BY <1>3 DEF session_timeout_cb, XDMCPIInv, TableOK
  <2>2. ASSUME NEW j \in Ids PROVE sessions'[j] = IF j = id THEN NoSession ELSE sessions[j]
    BY <1>3 DEF session_timeout_cb, XDMCPIInv, TableOK
  <2> QED BY <2>1, <2>2 DEF XDMCPIInv, OneSeatPerSession
<1>4. ASSUME NEW a \in accepted, handle_keep_alive(a[2]) PROVE XDMCPIInv'
  BY <1>0, <1>4 DEF handle_keep_alive
<1>5. ASSUME NEW a \in accepted, NEW n \in Numbers, NEW ok \in BOOLEAN, handle_manage(a[2], n, ok)
      PROVE  XDMCPIInv'
  <2>1. a[2] \in Ids
    BY DEF XDMCPIInv, TableOK
  <2> QED BY <1>5, <2>1, ManageIInv
<1>6. CASE UNCHANGED xdmcpVars
  BY <1>0, <1>6 DEF xdmcpVars
<1> QED BY <1>1, <1>2, <1>3, <1>4, <1>5, <1>6 DEF XDMCPNext

(* The table keeps its invariant, whatever packets arrive.                 *)
THEOREM XDMCPInvariant == XDMCPSafety => []XDMCPIInv
BY XDMCPInitIInv, XDMCPNextIInv, PTL DEF XDMCPSafety

(* However often and in whatever order Manage packets arrive, one seat is  *)
(* started for a session, and a session with a seat has no timer.          *)
THEOREM XDMCPOneSeat == XDMCPSafety => []OneSeatPerSession
<1>1. XDMCPIInv => OneSeatPerSession
  BY DEF XDMCPIInv
<1> QED BY <1>1, XDMCPInvariant, PTL

(* No packet and no timeout makes the server forget a display that a seat  *)
(* is managing, or gives its id to another display.                        *)
THEOREM XDMCPManaged == XDMCPSafety => ManagedStaysKnown
<1> DEFINE Kept ==
      \A id \in Ids : sessions[id] # NoSession /\ sessions[id].started =>
        sessions'[id] # NoSession /\ sessions'[id].display = sessions[id].display
          /\ sessions'[id].started
<1>1. ASSUME XDMCPIInv, [XDMCPNext]_xdmcpVars PROVE [Kept]_xdmcpVars
  <2> SUFFICES ASSUME NEW j \in Ids, sessions[j] # NoSession, sessions[j].started, XDMCPNext
               PROVE  sessions'[j] = sessions[j]
    BY <1>1
  <2>0. sessions[j].timer = FALSE
    BY <1>1 DEF XDMCPIInv, OneSeatPerSession
  <2>1. ASSUME NEW d \in Displays, NEW names \in SUBSET AuthNames, handle_query(d, names)
        PROVE  sessions'[j] = sessions[j]
    BY <2>1 DEF handle_query
  <2>2. ASSUME NEW r \in Request, handle_request(r) PROVE sessions'[j] = sessions[j]
    <3>1. ASSUME NEW id \in Ids, add_session(id, r) PROVE sessions'[j] = sessions[j]
      BY <1>1, <3>1 DEF add_session, XDMCPIInv, TableOK
    <3> QED BY <2>2, <3>1 DEF handle_request
  <2>3. ASSUME NEW id \in Ids, session_timeout_cb(id) PROVE sessions'[j] = sessions[j]
    BY <1>1, <2>0, <2>3 DEF session_timeout_cb, XDMCPIInv, TableOK
  <2>4. ASSUME NEW a \in accepted, handle_keep_alive(a[2]) PROVE sessions'[j] = sessions[j]
    BY <2>4 DEF handle_keep_alive
  <2>5. ASSUME NEW a \in accepted, NEW n \in Numbers, NEW ok \in BOOLEAN, handle_manage(a[2], n, ok)
        PROVE  sessions'[j] = sessions[j]
    <3>1. a[2] \in Ids
      BY <1>1 DEF XDMCPIInv, TableOK
    <3> QED BY <1>1, <2>5, <3>1 DEF handle_manage, xdmcpVars, XDMCPIInv, TableOK
  <2> QED BY <2>1, <2>2, <2>3, <2>4, <2>5 DEF XDMCPNext
<1> QED BY <1>1, XDMCPInvariant, PTL DEF XDMCPSafety, ManagedStaysKnown
=============================================================================
