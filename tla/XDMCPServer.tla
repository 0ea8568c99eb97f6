---------------------------- MODULE XDMCPServer ----------------------------
(***************************************************************************)
(* The XDMCP server (xdmcp-server.c): X displays on the network ask to be  *)
(* managed over UDP.  Datagrams are lost, repeated, delayed and reordered, *)
(* so the server may at any time receive a packet that a display has once  *)
(* had reason to send.                                                     *)
(*                                                                         *)
(* NEW_SESSION is answered by lightdm.c's xdmcp_session_cb, which starts a *)
(* seat for the session, or fails.                                         *)
(***************************************************************************)
EXTENDS Naturals

CONSTANTS
  Displays,      \* X displays that use XDMCP
  Ids,           \* session ids (16 bits in the code)
  Numbers,       \* display numbers
  MaxRequests,   \* bound: sessions accepted in all
  NoSession      \* an id that is not in the table

VARIABLES
  key,           \* priv->key # NULL: XDM-AUTHENTICATION-1 is required
  sessions,      \* the table of sessions
  willing,       \* the authentication name the server was last willing to use with a display
  accepted,      \* <<d, id, n>>: display d was sent Accept for id after a Request for number n
  requests,      \* number of sessions accepted
  reply          \* the type of the last packet sent

xdmcpVars == <<key, sessions, willing, accepted, requests, reply>>

AuthNames == {"", "XDM-AUTHENTICATION-1", "other"}
AuthorizationNames == {"MIT-MAGIC-COOKIE-1", "XDM-AUTHORIZATION-1"}

Session == [display : Displays, number : Numbers, started : BOOLEAN, timer : BOOLEAN,
            seats : Nat, refused : BOOLEAN]

ASSUME XDMCPAssumption == MaxRequests \in Nat /\ NoSession \notin Session

(* What handle_request looks at.                                           *)
Request == [display : Displays, number : Numbers, name : AuthNames, data_ok : BOOLEAN,
            authorizations : SUBSET AuthorizationNames, address_ok : BOOLEAN]

PacketTypes == {"none", "Willing", "Unwilling", "Accept", "Decline", "Refuse", "Failed", "Alive",
                "NotAlive"}

Sent(type) == reply' = type

XDMCPTypeOK ==
  /\ key \in BOOLEAN
  /\ sessions \in [Ids -> Session \union {NoSession}]
  /\ willing \in [Displays -> AuthNames \union {"none"}]
  /\ accepted \subseteq Displays \X Ids \X Numbers
  /\ requests \in 0..MaxRequests
  /\ reply \in PacketTypes

XDMCPInit ==
  /\ key \in BOOLEAN
  /\ sessions = [id \in Ids |-> NoSession]
  /\ willing = [d \in Displays |-> "none"]
  /\ accepted = {}
  /\ requests = 0
  /\ reply = "none"

----------------------------------------------------------------------------
get_authentication_name == IF key THEN "XDM-AUTHENTICATION-1" ELSE ""

(* handle_query and handle_forward_query: Willing with the name to use, or *)
(* Unwilling.                                                              *)
handle_query(d, names) ==
  LET name ==
        CASE names = {} /\ ~key -> ""
          [] key /\ get_authentication_name \in names -> get_authentication_name
          [] OTHER -> "none"
  IN /\ willing' = [willing EXCEPT ![d] = name]
     /\ Sent(IF name = "none" THEN "Unwilling" ELSE "Willing")
     /\ UNCHANGED <<key, sessions, accepted, requests>>

(* The checks of handle_request.                                           *)
declined(r) ==
  \/ ~r.address_ok
  \/ r.name = "" /\ (key \/ "MIT-MAGIC-COOKIE-1" \notin r.authorizations)
  \/ r.name = "XDM-AUTHENTICATION-1" /\
       (~key \/ ~r.data_ok \/ "XDM-AUTHORIZATION-1" \notin r.authorizations)
  \/ r.name = "other"

(* add_session: any id that is not in the table, and a timer of 126 s.     *)
add_session(id, r) ==
  /\ sessions[id] = NoSession
  /\ sessions' = [sessions EXCEPT ![id] = [display |-> r.display, number |-> r.number,
                    started |-> FALSE, timer |-> TRUE, seats |-> 0, refused |-> FALSE]]

handle_request(r) ==
  \/ /\ declined(r)
     /\ Sent("Decline")
     /\ UNCHANGED <<key, sessions, willing, accepted, requests>>
  \/ /\ ~declined(r)
     /\ requests < MaxRequests
     /\ requests' = requests + 1
     /\ \E id \in Ids :
          /\ add_session(id, r)
          /\ accepted' = accepted \union {<<r.display, id, r.number>>}
          /\ Sent("Accept")
     /\ UNCHANGED <<key, willing>>

(* Mutant of session_timeout_cb: the timer of a session is not removed     *)
(* when it is started.                                                     *)
session_timeout_cb_any(id) ==
  /\ sessions[id] # NoSession
  /\ sessions' = [sessions EXCEPT ![id] = NoSession]
  /\ UNCHANGED <<key, willing, accepted, requests, reply>>

(* session_timeout_cb.                                                     *)
session_timeout_cb(id) ==
  /\ sessions[id] # NoSession
  /\ sessions[id].timer
  /\ sessions' = [sessions EXCEPT ![id] = NoSession]
  /\ UNCHANGED <<key, willing, accepted, requests, reply>>

(* Mutant of handle_manage: repeated Manage packets are not ignored.       *)
handle_manage_repeated(id, n, ok) ==
  IF sessions[id] = NoSession
    THEN Sent("Refuse") /\ UNCHANGED <<key, sessions, willing, accepted, requests>>
    ELSE /\ sessions' = [sessions EXCEPT ![id].started = ok, ![id].timer = @ /\ ~ok,
                           ![id].seats = IF ok THEN @ + 1 ELSE @,
                           ![id].refused = @ \/ n # sessions[id].number]
         /\ Sent("Failed")
         /\ sessions[id].seats < 3
         /\ UNCHANGED <<key, willing, accepted, requests>>

(* handle_manage, for a Manage packet with display number n, which the     *)
(* sender of a session's Request may have changed.  After the Refuse for   *)
(* another number the function goes on.  ok: a seat could be started.      *)
handle_manage(id, n, ok) ==
  LET s == sessions[id] IN
  \/ /\ s = NoSession
     /\ Sent("Refuse")
     /\ UNCHANGED <<key, sessions, willing, accepted, requests>>
  \/ /\ s # NoSession
     /\ s.started
     /\ UNCHANGED xdmcpVars
  \/ /\ s # NoSession
     /\ ~s.started
     /\ sessions' = [sessions EXCEPT
           ![id] = [display |-> s.display, number |-> s.number,
                    started |-> ok, timer |-> (s.timer /\ ~ok),
                    seats |-> IF ok THEN s.seats + 1 ELSE s.seats,
                    refused |-> (s.refused \/ n # s.number)]]
     /\ IF ok THEN (IF n # s.number THEN Sent("Refuse") ELSE UNCHANGED reply)
              ELSE Sent("Failed")
     /\ UNCHANGED <<key, willing, accepted, requests>>

(* handle_keep_alive.                                                      *)
handle_keep_alive(id) ==
  /\ Sent(IF sessions[id] # NoSession THEN "Alive" ELSE "NotAlive")
  /\ UNCHANGED <<key, sessions, willing, accepted, requests>>

----------------------------------------------------------------------------
XDMCPNext ==
  \/ \E d \in Displays, names \in SUBSET AuthNames : handle_query(d, names)
  \/ \E r \in Request : handle_request(r)
  \/ \E id \in Ids : session_timeout_cb(id)
  \/ \E a \in accepted : handle_keep_alive(a[2])
  \/ \E a \in accepted, n \in Numbers, ok \in BOOLEAN : handle_manage(a[2], n, ok)

XDMCPSafety == XDMCPInit /\ [][XDMCPNext]_xdmcpVars

----------------------------------------------------------------------------
(* Properties                                                              *)

(* However often Manage arrives for a session, one seat is started for it, *)
(* and a session with a seat can no longer time out.                       *)
OneSeatPerSession ==
  \A id \in Ids : sessions[id] # NoSession =>
    /\ sessions[id].seats = IF sessions[id].started THEN 1 ELSE 0
    /\ sessions[id].timer = ~sessions[id].started

(* A display managed by a seat stays known: KeepAlive is answered with     *)
(* Alive for as long as the seat may live, and the id goes to no other     *)
(* display.                                                                *)
ManagedStaysKnown ==
  [][\A id \in Ids : sessions[id] # NoSession /\ sessions[id].started =>
       sessions'[id] # NoSession /\ sessions'[id].display = sessions[id].display
         /\ sessions'[id].started]_xdmcpVars

(* A display that was told Willing with an authentication name, and asks   *)
(* with that name, valid data, the authorization that goes with it and a   *)
(* usable address, is not declined.                                        *)
WillingIsKept ==
  \A r \in Request :
    /\ r.name = willing[r.display]
    /\ r.data_ok /\ r.address_ok
    /\ r.authorizations = AuthorizationNames
    => ~declined(r)

(* "Reject if has changed display number": no seat is started for a        *)
(* session whose Manage was refused for that reason.                       *)
ChangedNumberRejected ==
  \A id \in Ids : sessions[id] # NoSession /\ sessions[id].refused => ~sessions[id].started
============================================================================
