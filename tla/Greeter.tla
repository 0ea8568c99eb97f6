------------------------------ MODULE Greeter ------------------------------
(***************************************************************************)
(* The conversation of a greeter with the daemon: the client library       *)
(* (liblightdm-gobject/greeter.c), the daemon's end (src/greeter.c) and    *)
(* the socket on which a session offers it (greeter-socket.c).             *)
(*                                                                         *)
(* The two ends run in different processes and talk over two FIFO streams, *)
(* so each acts on an old picture of the other.  Requests are matched with *)
(* replies by order only, authentications by a sequence number that the    *)
(* client's answers do not carry.  The PAM conversation is the Session of  *)
(* session.c, seen from its signals (external); the greeter application    *)
(* calls the library as it likes, also from inside its signal handlers.    *)
(***************************************************************************)
EXTENDS Naturals, Sequences, SequencesExt

CONSTANTS
  Clients,         \* processes that use the library
  NoClient,        \* no greeter on the socket
  MaxAuth,         \* bound: authentications by any two clients
  MaxRequests,     \* bound: requests with a reply by all clients
  MaxQueue,        \* bound: messages under way in one direction
  MaxPrompts,      \* bound: prompts in one PAM message
  MaxMessages      \* bound: PAM messages in one authentication

ASSUME GreeterAssumption ==
  /\ MaxAuth \in Nat \ {0} /\ MaxRequests \in Nat /\ MaxQueue \in Nat \ {0}
  /\ MaxPrompts \in Nat \ {0} /\ MaxMessages \in Nat /\ NoClient \notin Clients

VARIABLES
  cli,        \* client -> the library's private data
  link,       \* client -> its connection to the socket
  toServer,   \* client -> messages to the daemon
  fromServer, \* client -> messages from the daemon
  served,     \* the client of socket->priv->greeter
  srv,        \* the daemon's private data for the greeter that is served
  session,    \* priv->authentication_session
  issued,     \* number of requests made so far (their ids are 1, 2, ...)
  grant,      \* history: the last START_SESSION signal
  answer      \* history: the last answer taken by a PAM conversation

netVars == <<link, toServer, fromServer>>
srvVars == <<served, srv, session>>
histVars == <<grant, answer>>
greeterVars == <<cli, netVars, srvVars, issued, histVars>>

Kinds == {"connect", "start", "dir"}
Ids == 1..MaxRequests

(* One authentication is told from another by the client that started it   *)
(* and its number.                                                         *)
NoAuth == <<NoClient, 0>>
Auth(c) == <<c, cli[c].seq>>

(* The last authentication whose message could be sent.                    *)
Sent(c) == <<c, cli[c].sent>>

(* show: prompts still to be shown; nested: the synchronous requests made  *)
(* by a handler while there were some, <<id, their number>>.  The rest     *)
(* from crossed on is history: cancelled and asked are about the last      *)
(* authentication that was sent.                                           *)
NewClient ==
  [connected |-> FALSE, seq |-> 0, in_auth |-> FALSE, is_auth |-> FALSE, cancelling |-> FALSE,
   waiting |-> 0, received |-> 0, show |-> 0, nested |-> {}, prompt |-> 0, believed |-> 0,
   requests |-> [k \in Kinds |-> <<>>], gone |-> FALSE, crossed |-> FALSE, sent |-> 0,
   cancelled |-> FALSE, asked |-> FALSE, badsend |-> FALSE, late |-> FALSE]

NewServer == [connected |-> FALSE, seq |-> 0, guest |-> NoAuth, remote |-> FALSE]

NoSession == [state |-> "none", auth |-> NoAuth, prompts |-> 0, asks |-> 0,
              replies |-> <<>>, ok |-> FALSE]

NoGrant == [asked |-> NoAuth, believed |-> NoAuth, auth |-> NoAuth, cancelled |-> FALSE,
            guest |-> FALSE]
NoAnswer == [auth |-> NoAuth, given |-> NoAuth, late |-> FALSE]

GreeterInit ==
  /\ cli = [c \in Clients |-> NewClient]
  /\ link = [c \in Clients |-> "none"]
  /\ toServer = [c \in Clients |-> <<>>]
  /\ fromServer = [c \in Clients |-> <<>>]
  /\ served = NoClient
  /\ srv = NewServer
  /\ session = NoSession
  /\ issued = 0
  /\ grant = NoGrant
  /\ answer = NoAnswer

----------------------------------------------------------------------------
(* The client library *)

Set(c, r) == cli' = [cli EXCEPT ![c] = r]

(* The connection can be written to.                                       *)
Usable(c) == link[c] \in {"pending", "open"} /\ Len(toServer[c]) < MaxQueue

(* send_message, when the message is well formed and can be written.       *)
send_message(c, m) == toServer' = [toServer EXCEPT ![c] = Append(@, m)]

(* The greeter application is running, and is not waiting for itself.      *)
Calls(c) == ~cli[c].gone

(* Mutant of Request: a synchronous request is put before the ones that    *)
(* wait already.                                                           *)
Request_first(c, kind, id) ==
  [cli[c] EXCEPT !.requests[kind] = <<id>> \o @]

(* request_new and g_list_append.                                          *)
Request(c, kind, id) == [cli[c] EXCEPT !.requests[kind] = Append(@, id)]

(* There is a prompt to be shown, and the library is not in a handler of  *)
(* the one before it that waits for the reply to a synchronous call.       *)
Shows(c) == cli[c].show > 0 /\ \A w \in cli[c].nested : cli[c].show > w[2]

(* A synchronous call handles messages until its request is completed.     *)
RequestSync(c, kind, id) ==
  LET inside == IF Shows(c) THEN {<<id, cli[c].show>>} ELSE {} IN
  [Request(c, kind, id) EXCEPT !.nested = @ \union inside]

(* connect_to_daemon: the first message makes the connection.              *)
connect_to_daemon(c) ==
  /\ Calls(c)
  /\ link[c] = "none"
  /\ link' = [link EXCEPT ![c] = "pending"]
  /\ UNCHANGED <<cli, toServer, fromServer, srvVars, issued, histVars>>

(* send_connect, send_start_session and send_ensure_shared_data_dir: ok    *)
(* unless the name is too long or the connection is closed.                *)
send_request(c, kind, ok) ==
  /\ Calls(c)
  /\ issued < MaxRequests
  /\ issued' = issued + 1
  /\ IF ok
       THEN /\ Usable(c)
            /\ send_message(c, [t |-> kind, id |-> issued + 1, auth |-> Sent(c),
                                believed |-> IF cli[c].is_auth THEN Auth(c) ELSE NoAuth,
                                cancelled |-> cli[c].cancelled])
       ELSE /\ link[c] # "none"
            /\ UNCHANGED toServer
  /\ UNCHANGED <<link, fromServer, srvVars, histVars>>

(* A request that could not be sent is not waited for, except by           *)
(* lightdm_greeter_start_session and lightdm_greeter_ensure_shared_data_   *)
(* dir, which complete it with an error and leave it in the list.          *)
lightdm_greeter_connect_to_daemon(c, ok) ==
  /\ send_request(c, "connect", ok)
  /\ Set(c, IF ok THEN Request(c, "connect", issued + 1) ELSE cli[c])

lightdm_greeter_connect_to_daemon_sync(c, ok) ==
  /\ send_request(c, "connect", ok)
  /\ Set(c, IF ok THEN RequestSync(c, "connect", issued + 1) ELSE cli[c])

lightdm_greeter_start_session(c, ok) ==
  /\ send_request(c, "start", ok)
  /\ Set(c, [Request(c, "start", issued + 1) EXCEPT !.asked = @ \/ ok, !.badsend = @ \/ ~ok])

lightdm_greeter_start_session_sync(c, ok) ==
  /\ cli[c].connected /\ cli[c].is_auth
  /\ send_request(c, "start", ok)
  /\ Set(c, IF ok THEN [RequestSync(c, "start", issued + 1) EXCEPT !.asked = TRUE] ELSE cli[c])

lightdm_greeter_ensure_shared_data_dir(c, ok) ==
  /\ send_request(c, "dir", ok)
  /\ Set(c, [Request(c, "dir", issued + 1) EXCEPT !.badsend = @ \/ ~ok])

lightdm_greeter_ensure_shared_data_dir_sync(c, ok) ==
  /\ cli[c].connected
  /\ send_request(c, "dir", ok)
  /\ Set(c, IF ok THEN RequestSync(c, "dir", issued + 1) ELSE cli[c])

(* The head of a list of requests is completed by the reply to request id. *)
request_complete(c, kind, id) ==
  LET q == cli[c].requests[kind] IN
  IF q = <<>> THEN cli[c]
  ELSE [cli[c] EXCEPT !.requests[kind] = Tail(@),
                      !.nested = {w \in @ : w[1] # Head(q)},
                      !.crossed = @ \/ Head(q) # id]

(* What every authentication begins with, also one whose message cannot    *)
(* be sent (a name is too long, the connection cannot be written to): the  *)
(* library has left the last one when the call returns FALSE, the daemon   *)
(* has not.                                                                *)
authenticate(c, kind, ok) ==
  LET n == cli[c].seq + 1
      r == [cli[c] EXCEPT !.cancelling = FALSE, !.seq = n, !.in_auth = TRUE, !.is_auth = FALSE]
  IN /\ Calls(c)
     /\ cli[c].connected
     /\ \A e \in Clients : (IF e = c THEN 0 ELSE cli[e].seq) + cli[c].seq < MaxAuth
     /\ \/ /\ ok
           /\ Usable(c)
           /\ Set(c, [r EXCEPT !.sent = n, !.cancelled = FALSE, !.asked = FALSE])
           /\ send_message(c, [t |-> kind, auth |-> <<c, n>>])
        \/ /\ ~ok
           /\ Set(c, r)
           /\ UNCHANGED toServer
     /\ UNCHANGED <<link, fromServer, srvVars, issued, histVars>>

lightdm_greeter_authenticate(c, ok) == authenticate(c, "user", ok)
lightdm_greeter_authenticate_as_guest(c, ok) == authenticate(c, "guest", ok)
lightdm_greeter_authenticate_remote(c, ok) == authenticate(c, "remote", ok)

(* As the hints say: a guest, a user, or an error.                         *)
lightdm_greeter_authenticate_autologin(c, ok) ==
  lightdm_greeter_authenticate_as_guest(c, ok) \/ lightdm_greeter_authenticate(c, ok)

(* lightdm_greeter_respond: the last answer sends them all; when they      *)
(* cannot be sent, they are kept until the next prompt and FALSE is        *)
(* returned, and none is waited for.  late: the application has started    *)
(* another authentication since it was prompted, or answers before it has  *)
(* been shown all the prompts; nothing checks it.                          *)
lightdm_greeter_respond(c, ok) ==
  LET r == cli[c]
      late == r.late \/ r.believed # r.seq \/ r.show > 0
  IN /\ Calls(c)
     /\ r.connected
     /\ r.waiting > 0
     /\ \/ /\ r.waiting > 1 \/ ~ok
           /\ Set(c, [r EXCEPT !.waiting = @ - 1, !.received = @ + 1])
           /\ UNCHANGED toServer
        \/ /\ r.waiting = 1 /\ ok
           /\ Usable(c)
           /\ Set(c, [r EXCEPT !.waiting = 0, !.received = 0, !.late = late])
           /\ send_message(c, [t |-> "continue", n |-> r.received + 1, auth |-> <<c, r.prompt>>,
                               late |-> late])
     /\ UNCHANGED <<link, fromServer, srvVars, issued, histVars>>

(* lightdm_greeter_cancel_authentication.  Bound: once for each            *)
(* authentication that was sent.                                           *)
lightdm_greeter_cancel_authentication(c, ok) ==
  /\ Calls(c)
  /\ cli[c].connected
  /\ ~cli[c].cancelled
  /\ \/ /\ ok
        /\ Usable(c)
        /\ Set(c, [cli[c] EXCEPT !.cancelling = TRUE, !.cancelled = TRUE])
        /\ send_message(c, [t |-> "cancel"])
     \/ /\ ~ok
        /\ Set(c, [cli[c] EXCEPT !.cancelling = TRUE])
        /\ UNCHANGED toServer
  /\ UNCHANGED <<link, fromServer, srvVars, issued, histVars>>

(* lightdm_greeter_set_language; a failure changes nothing.  Bound: only   *)
(* when nothing is under way.                                              *)
lightdm_greeter_set_language(c) ==
  /\ Calls(c)
  /\ cli[c].connected
  /\ Usable(c)
  /\ toServer[c] = <<>>
  /\ send_message(c, [t |-> "language"])
  /\ UNCHANGED <<cli, link, fromServer, srvVars, issued, histVars>>

(* The application ends, and with it what the library knew; the kernel     *)
(* closes its end.                                                         *)
exit(c) ==
  /\ Calls(c)
  /\ link[c] \in {"pending", "open", "refused"}
  /\ Set(c, [NewClient EXCEPT !.gone = TRUE, !.seq = cli[c].seq, !.sent = cli[c].sent,
                              !.cancelled = cli[c].cancelled, !.asked = cli[c].asked,
                              !.late = cli[c].late])
  /\ fromServer' = [fromServer EXCEPT ![c] = <<>>]
  /\ UNCHANGED <<link, toServer, srvVars, issued, histVars>>

----------------------------------------------------------------------------
(* The messages of the daemon, at the client *)

(* from_server_cb and the loops of the synchronous calls: one message is   *)
(* taken at a time, once the one before has been handled, or is being      *)
(* handled by a handler that has made a synchronous call.                  *)
Takes(c, t) ==
  /\ Calls(c)
  /\ ~Shows(c)
  /\ fromServer[c] # <<>>
  /\ Head(fromServer[c]).t = t
  /\ fromServer' = [fromServer EXCEPT ![c] = Tail(@)]
  /\ UNCHANGED <<link, toServer, srvVars, issued, histVars>>

handle_connected(c) ==
  /\ Takes(c, "connected")
  /\ Set(c, [request_complete(c, "connect", Head(fromServer[c]).id) EXCEPT !.connected = TRUE])

(* Mutant of handle_prompt_authentication: prompts of an authentication    *)
(* that is no longer the current one are shown.                            *)
handle_prompt_authentication_any(c) ==
  /\ Takes(c, "prompt")
  /\ Set(c, IF cli[c].cancelling THEN cli[c]
            ELSE [cli[c] EXCEPT !.received = 0, !.waiting = 0, !.show = @ + Head(fromServer[c]).n,
                                !.prompt = Head(fromServer[c]).auth[2], !.believed = cli[c].seq,
                                !.late = @ \/ cli[c].show > 0])

(* handle_prompt_authentication, up to the messages themselves.  A prompt  *)
(* handled inside the handler of another one leaves that one's to be shown *)
(* and counted after its own.                                              *)
handle_prompt_authentication(c) ==
  LET m == Head(fromServer[c]) IN
  /\ Takes(c, "prompt")
  /\ Set(c, IF m.auth # Auth(c) \/ cli[c].cancelling THEN cli[c]
            ELSE [cli[c] EXCEPT !.received = 0, !.waiting = 0, !.show = @ + m.n,
                                !.prompt = m.auth[2], !.believed = cli[c].seq,
                                !.late = @ \/ cli[c].show > 0])

(* SHOW_PROMPT, for each prompt in turn: the application may call the      *)
(* library before the next one.                                            *)
show_prompt(c) ==
  /\ Calls(c)
  /\ Shows(c)
  /\ Set(c, [cli[c] EXCEPT !.show = @ - 1, !.waiting = @ + 1])
  /\ UNCHANGED <<netVars, srvVars, issued, histVars>>

(* Mutant of handle_end_authentication: the sequence number is not looked  *)
(* at.                                                                     *)
handle_end_authentication_any(c) ==
  /\ Takes(c, "end")
  /\ Set(c, [cli[c] EXCEPT !.cancelling = FALSE, !.is_auth = Head(fromServer[c]).ok, !.in_auth = FALSE])

(* handle_end_authentication.                                              *)
handle_end_authentication(c) ==
  LET m == Head(fromServer[c]) IN
  /\ Takes(c, "end")
  /\ Set(c, IF m.auth # Auth(c) THEN cli[c]
            ELSE [cli[c] EXCEPT !.cancelling = FALSE, !.is_auth = m.ok, !.in_auth = FALSE])

(* handle_session_result and handle_shared_dir_result.                     *)
handle_session_result(c) ==
  /\ Takes(c, "start")
  /\ Set(c, request_complete(c, "start", Head(fromServer[c]).id))

handle_shared_dir_result(c) ==
  /\ Takes(c, "dir")
  /\ Set(c, request_complete(c, "dir", Head(fromServer[c]).id))

(* handle_idle and handle_reset: the application is told; what the library *)
(* knows of the authentication stays.                                      *)
handle_idle(c) == Takes(c, "idle") /\ UNCHANGED cli
handle_reset(c) == Takes(c, "reset") /\ UNCHANGED cli

handle_message(c) ==
  \/ handle_connected(c) \/ handle_prompt_authentication(c) \/ handle_end_authentication(c)
  \/ handle_session_result(c) \/ handle_shared_dir_result(c) \/ handle_idle(c) \/ handle_reset(c)

----------------------------------------------------------------------------
(* The daemon *)

(* write_message: lost when the client is gone.                            *)
write_message(m) ==
  IF cli[served].gone THEN UNCHANGED fromServer
  ELSE /\ Len(fromServer[served]) < MaxQueue
       /\ fromServer' = [fromServer EXCEPT ![served] = Append(@, m)]

(* read_cb: the next whole message of the client that is served.           *)
Reads(t) ==
  /\ served # NoClient
  /\ toServer[served] # <<>>
  /\ Head(toServer[served]).t = t
  /\ toServer' = [toServer EXCEPT ![served] = Tail(@)]
  /\ UNCHANGED <<cli, link, served, issued>>

Msg == Head(toServer[served])

send_end_authentication(auth, ok) == write_message([t |-> "end", auth |-> auth, ok |-> ok])

handle_connect ==
  /\ Reads("connect")
  /\ srv' = [srv EXCEPT !.connected = TRUE]
  /\ write_message([t |-> "connected", id |-> Msg.id])
  /\ UNCHANGED <<session, histVars>>

(* reset_session: the session is forgotten and stopped, its signals are    *)
(* disconnected.                                                           *)
reset_session == [srv EXCEPT !.remote = FALSE, !.guest = NoAuth]

(* CREATE_SESSION gives a session or none; session_start may fail, which   *)
(* nothing looks at.                                                       *)
create_session(auth) ==
  {NoSession} \union {[NoSession EXCEPT !.state = st, !.auth = auth] : st \in {"running", "failed"}}

handle_authenticate ==
  /\ Reads("user")
  /\ srv' = [reset_session EXCEPT !.seq = Msg.auth[2]]
  /\ session' \in create_session(Msg.auth)
  /\ IF session' = NoSession THEN send_end_authentication(Msg.auth, FALSE) ELSE UNCHANGED fromServer
  /\ UNCHANGED histVars

(* Mutant of handle_authenticate_as_guest: the session before is kept when *)
(* there is no guest account.                                              *)
handle_authenticate_as_guest_kept(allow_guest) ==
  /\ Reads("guest")
  /\ srv' = IF allow_guest THEN [reset_session EXCEPT !.guest = Msg.auth] ELSE srv
  /\ session' = IF allow_guest THEN NoSession ELSE session
  /\ send_end_authentication(Msg.auth, allow_guest)
  /\ UNCHANGED histVars

handle_authenticate_as_guest(allow_guest) ==
  /\ Reads("guest")
  /\ srv' = [reset_session EXCEPT !.guest = IF allow_guest THEN Msg.auth ELSE NoAuth]
  /\ session' = NoSession
  /\ send_end_authentication(Msg.auth, allow_guest)
  /\ UNCHANGED histVars

(* handle_authenticate_remote; known: get_remote_session_service finds the *)
(* service of the remote session.                                          *)
handle_authenticate_remote(known) ==
  /\ Reads("remote")
  /\ srv' = IF known THEN [reset_session EXCEPT !.seq = Msg.auth[2], !.remote = TRUE] ELSE reset_session
  /\ session' \in IF known THEN create_session(Msg.auth) ELSE {NoSession}
  /\ IF session' = NoSession THEN send_end_authentication(Msg.auth, FALSE) ELSE UNCHANGED fromServer
  /\ UNCHANGED histVars

(* handle_continue_authentication: answers for the prompts of the session  *)
(* there is now, or an error if their number is wrong.                     *)
handle_continue_authentication ==
  /\ Reads("continue")
  /\ session' =
       IF session.state = "none" THEN session
       ELSE IF Msg.n # session.prompts
         THEN [session EXCEPT !.replies = Append(@, [error |-> TRUE, given |-> Msg.auth, late |-> Msg.late])]
         ELSE [session EXCEPT !.replies = Append(@, [error |-> FALSE, given |-> Msg.auth, late |-> Msg.late]),
                              !.prompts = 0]
  /\ UNCHANGED <<fromServer, srv, histVars>>

(* handle_cancel_authentication: a guest has no session to cancel.         *)
handle_cancel_authentication ==
  /\ Reads("cancel")
  /\ srv' = IF session.state = "none" THEN srv ELSE reset_session
  /\ session' = NoSession
  /\ UNCHANGED <<fromServer, histVars>>

session_get_is_authenticated == session.state = "complete" /\ session.ok

(* handle_start_session; started: the answer of the seat, which takes the  *)
(* session of a user whatever it answers (greeter_start_session_cb,        *)
(* greeter_take_authentication_session).                                   *)
handle_start_session(started) ==
  LET guest == srv.guest # NoAuth
      accepted == guest \/ session_get_is_authenticated
  IN /\ Reads("start")
     /\ started => accepted
     /\ session' = IF accepted /\ ~guest THEN NoSession ELSE session
     /\ grant' = IF ~accepted THEN grant
                 ELSE [asked |-> Msg.auth, believed |-> Msg.believed, cancelled |-> Msg.cancelled,
                       guest |-> guest,
                       auth |-> IF guest THEN srv.guest ELSE session.auth]
     /\ write_message([t |-> "start", id |-> Msg.id])
     /\ UNCHANGED <<srv, answer>>

(* handle_set_language: of the user's account, not of the greeter.         *)
handle_set_language ==
  /\ Reads("language")
  /\ UNCHANGED <<fromServer, srv, session, histVars>>

handle_ensure_shared_dir ==
  /\ Reads("dir")
  /\ write_message([t |-> "dir", id |-> Msg.id])
  /\ UNCHANGED <<srv, session, histVars>>

(* greeter_idle and greeter_reset, for a greeter that said it is           *)
(* resettable: nothing of the authentication is reset.  Bound: only when   *)
(* nothing else is under way.                                              *)
SeatTells(t) ==
  /\ served # NoClient
  /\ srv.connected
  /\ fromServer[served] = <<>>
  /\ write_message([t |-> t])
  /\ UNCHANGED <<cli, link, toServer, srvVars, issued, histVars>>

greeter_idle == SeatTells("idle")
greeter_reset == SeatTells("reset")

(* pam_messages_cb: n prompts and any number of texts; texts alone are     *)
(* answered at once.                                                       *)
pam_messages_cb(n) ==
  /\ session.state = "running"
  /\ session.asks < MaxMessages
  /\ session' = [session EXCEPT !.state = "asking", !.asks = @ + 1, !.prompts = n,
                   !.replies = IF n > 0 THEN @
                               ELSE Append(@, [error |-> FALSE, given |-> session.auth, late |-> FALSE])]
  /\ write_message([t |-> "prompt", auth |-> <<served, srv.seq>>, n |-> n])
  /\ UNCHANGED <<cli, link, toServer, served, srv, issued, histVars>>

(* The PAM conversation of the session's child takes the next answer from  *)
(* its pipe, and gives up on an error (external).                          *)
pam_conv_cb ==
  /\ session.state = "asking"
  /\ session.replies # <<>>
  /\ LET r == Head(session.replies) IN
       /\ session' = [session EXCEPT !.replies = Tail(@),
                                     !.state = IF r.error THEN "failing" ELSE "running"]
       /\ answer' = IF r.error THEN answer
                    ELSE [auth |-> session.auth, given |-> r.given, late |-> r.late]
  /\ UNCHANGED <<cli, netVars, served, srv, issued, grant>>

(* Mutant of authentication_complete_cb: a result that is no success is    *)
(* not sent.                                                               *)
authentication_complete_cb_silent(ok, user) ==
  /\ session.state \in (IF ok THEN {"running"} ELSE {"running", "asking", "failing"})
  /\ session' = [session EXCEPT !.state = "complete", !.ok = ok]
  /\ IF ok THEN send_end_authentication(<<served, srv.seq>>, user) ELSE UNCHANGED fromServer
  /\ UNCHANGED <<cli, link, toServer, served, srv, issued, histVars>>

(* authentication_complete_cb: PAM's result, or the child has died.  user: *)
(* there is an account of that name.                                       *)
authentication_complete_cb(ok, user) ==
  /\ session.state \in (IF ok THEN {"running"} ELSE {"running", "asking", "failing"})
  /\ session' = [session EXCEPT !.state = "complete", !.ok = ok]
  /\ send_end_authentication(<<served, srv.seq>>, ok /\ user)
  /\ UNCHANGED <<cli, link, toServer, served, srv, issued, histVars>>

----------------------------------------------------------------------------
(* The socket *)

(* greeter_connect_cb: one greeter at a time, others are closed.           *)
greeter_connect_cb(c) ==
  /\ link[c] = "pending"
  /\ IF served = NoClient
       THEN /\ link' = [link EXCEPT ![c] = "open"]
            /\ served' = c
            /\ UNCHANGED toServer
       ELSE /\ link' = [link EXCEPT ![c] = "refused"]
            /\ toServer' = [toServer EXCEPT ![c] = <<>>]
            /\ UNCHANGED served
  /\ UNCHANGED <<cli, fromServer, srv, session, issued, histVars>>

(* read_cb at the end of the stream, and greeter_disconnected_cb: the      *)
(* greeter is dropped, and disconnected from the session it leaves behind. *)
greeter_disconnected_cb ==
  /\ served # NoClient
  /\ cli[served].gone
  /\ toServer[served] = <<>>
  /\ link' = [link EXCEPT ![served] = "closed"]
  /\ served' = NoClient
  /\ srv' = NewServer
  /\ session' = NoSession
  /\ UNCHANGED <<cli, toServer, fromServer, issued, histVars>>

----------------------------------------------------------------------------
(* read_cb: what the daemon does with the next message.                    *)
read_cb ==
  \/ \E b \in BOOLEAN :
       \/ handle_authenticate_as_guest(b)
       \/ handle_authenticate_remote(b)
       \/ handle_start_session(b)
  \/ handle_connect
  \/ handle_authenticate
  \/ handle_continue_authentication
  \/ handle_cancel_authentication
  \/ handle_set_language
  \/ handle_ensure_shared_dir
  \/ greeter_disconnected_cb

(* What the greeter application may do.                                    *)
Application(c) ==
  \/ connect_to_daemon(c)
  \/ \E ok \in BOOLEAN :
       \/ lightdm_greeter_connect_to_daemon(c, ok)
       \/ lightdm_greeter_connect_to_daemon_sync(c, ok)
       \/ lightdm_greeter_start_session(c, ok)
       \/ lightdm_greeter_start_session_sync(c, ok)
       \/ lightdm_greeter_ensure_shared_data_dir(c, ok)
       \/ lightdm_greeter_ensure_shared_data_dir_sync(c, ok)
       \/ lightdm_greeter_authenticate(c, ok)
       \/ lightdm_greeter_authenticate_as_guest(c, ok)
       \/ lightdm_greeter_authenticate_remote(c, ok)
       \/ lightdm_greeter_authenticate_autologin(c, ok)
       \/ lightdm_greeter_respond(c, ok)
       \/ lightdm_greeter_cancel_authentication(c, ok)
  \/ lightdm_greeter_set_language(c)
  \/ exit(c)

PAM ==
  \/ \E n \in 0..MaxPrompts : pam_messages_cb(n)
  \/ pam_conv_cb
  \/ \E ok, user \in BOOLEAN : authentication_complete_cb(ok, user)

GreeterNext ==
  \/ \E c \in Clients :
       Application(c) \/ handle_message(c) \/ show_prompt(c) \/ greeter_connect_cb(c)
  \/ read_cb
  \/ PAM
  \/ greeter_idle
  \/ greeter_reset

(* The child of the session that has been asked for an answer reads until  *)
(* it gets one; otherwise PAM goes on.                                     *)
PAMGoesOn == pam_conv_cb \/ (session.state # "asking" /\ PAM)

(* The main loops of both processes run, and PAM comes to a prompt or to   *)
(* an end; the user and the application may do nothing, and a child that   *)
(* waits for an answer may do so for ever.                                 *)
GreeterFairness ==
  /\ WF_greeterVars(read_cb)
  /\ WF_greeterVars(PAMGoesOn)
  /\ \A c \in Clients :
       /\ WF_greeterVars(handle_message(c) \/ show_prompt(c))
       /\ WF_greeterVars(greeter_connect_cb(c))

GreeterSafety == GreeterInit /\ [][GreeterNext]_greeterVars
GreeterSpec == GreeterSafety /\ GreeterFairness

----------------------------------------------------------------------------
(* Properties *)

GreeterTypeOK ==
  /\ link \in [Clients -> {"none", "pending", "open", "refused", "closed"}]
  /\ served \in Clients \union {NoClient}
  /\ session.state \in {"none", "running", "asking", "failing", "complete", "failed"}
  /\ issued \in 0..MaxRequests
  /\ \A c \in Clients :
       /\ cli[c].sent \in 0..cli[c].seq
       /\ ~cli[c].late => cli[c].waiting + cli[c].received + cli[c].show <= MaxPrompts
       /\ Len(toServer[c]) <= MaxQueue /\ Len(fromServer[c]) <= MaxQueue

(* An answer that the user gave to prompts of the authentication that the  *)
(* greeter is in is taken by the PAM conversation that asked, and by no    *)
(* other, although the message carries no number; and it leaves nothing in *)
(* the pipe to a session that has been authenticated.                      *)
AnswersReachTheirPrompt ==
  /\ answer.late \/ answer.given = answer.auth
  /\ session_get_is_authenticated =>
       \A i \in 1..Len(session.replies) : session.replies[i].late

(* The daemon starts a session only for the last authentication that the  *)
(* greeter had sent when it asked, and for none that was cancelled before  *)
(* (a guest cannot be cancelled).  A greeter that asked because its last   *)
(* authentication had succeeded gets the session of that one; one that     *)
(* asked although it could not be sent gets the session of the one before. *)
StartsWhatWasAsked ==
  /\ grant.auth = grant.asked
  /\ grant.believed # NoAuth => grant.auth = grant.believed
  /\ grant.cancelled => grant.guest

(* When nothing is under way, a greeter that has been told its user is     *)
(* authenticated, and has neither cancelled nor asked for the session, can *)
(* start the session: the daemon agrees.                                   *)
BelievedIsTrue ==
  \A c \in Clients :
    /\ cli[c].is_auth /\ ~cli[c].cancelled /\ ~cli[c].asked /\ ~cli[c].gone
    /\ toServer[c] = <<>> /\ fromServer[c] = <<>>
    => served = c /\ (srv.guest = Auth(c) \/ (session_get_is_authenticated /\ session.auth = Auth(c)))

(* Replies carry no number either: as long as no asynchronous request has  *)
(* failed to be sent, each completes the request that it answers.          *)
RepliesMatch ==
  \A c \in Clients : ~cli[c].badsend => ~cli[c].crossed

(* The queues and counters stay within what was asked for, and requests    *)
(* and replies in step with each other.                                    *)
GreeterInv == GreeterTypeOK /\ RepliesMatch

(* A message of the last authentication could not be sent: its first one,  *)
(* its cancellation, or the answers that are kept.                         *)
Unsent(c) ==
  \/ cli[c].sent # cli[c].seq
  \/ cli[c].cancelling /\ ~cli[c].cancelled
  \/ cli[c].waiting = 0 /\ cli[c].received > 0

(* An authentication comes to an end, or to a prompt the user can answer,  *)
(* unless it is cancelled, its session could not be started or the greeter *)
(* leaves; or one of its messages could not be sent, an answer was late    *)
(* (its session may then be out of step, see Session), or a request that   *)
(* could not be sent is waited for (a synchronous call then never ends).   *)
AuthenticationEnds ==
  \A c \in Clients :
    cli[c].in_auth ~> (\/ ~cli[c].in_auth \/ cli[c].waiting > 0 \/ cli[c].cancelled
                       \/ cli[c].gone \/ session.state = "failed"
                       \/ Unsent(c) \/ cli[c].late \/ cli[c].badsend)
============================================================================
