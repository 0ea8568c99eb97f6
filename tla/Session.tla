------------------------------ MODULE Session ------------------------------
(***************************************************************************)
(* One session: the Session object of the daemon (session.c), the process  *)
(* "lightdm --session-child" it forks (session-child.c), which runs PAM    *)
(* and then the session's command, the two pipes between them, and the     *)
(* guest account the session may need (guest-account.c).                   *)
(*                                                                         *)
(* The owner (a seat, or a greeter that authenticates a user) is an        *)
(* environment that calls start, respond, run and stop as their callers    *)
(* do.  PAM, the command and logind are environments too.  The main loop   *)
(* promises no order between the child watch and the watch on the pipe.    *)
(***************************************************************************)
EXTENDS Naturals, Sequences

CONSTANTS
  MaxPrompts,     \* bound: conversations PAM starts before it decides
  MaxUnasked      \* bound: answers given while no message is unanswered

ASSUME SessionAssumption == MaxPrompts \in Nat /\ MaxUnasked \in Nat

VARIABLES
  \* the Session object
  kind,            \* "user"; "guest": is_guest; "remote": is_guest with a user name given
  pid,             \* priv->pid: "0", "-1" after a failed fork, or "child"
  started,         \* priv->authentication_started
  complete,        \* priv->authentication_complete
  result,          \* priv->authentication_result: is it PAM_SUCCESS
  command_run,     \* priv->command_run
  stopping,        \* priv->stopping
  login1_id,       \* priv->login1_session_id # NULL
  watch,           \* priv->from_child_watch # 0
  in_run,          \* session_real_run waits for the session ids
  held,            \* the owner has a reference
  messages,        \* priv->messages: "none", "asked", or "kept" after an answer that is an error
  account,         \* the account the session runs in: "none", "made", "removed"
  auth_seen,       \* AUTHENTICATION_COMPLETE signals before the first STOPPED
  stopped_n,       \* STOPPED signals
  stopped_unrun,   \* session_stop came before any command was sent
  unasked,         \* answers given while no message was unanswered
  \* the pipes
  to_child, from_child,
  \* the session child
  pc,              \* where session_child_run is
  prompts,         \* conversations so far
  lost,            \* it has read an answer for something else, and reads on from there
  pam_ok,          \* PAM has authenticated the user
  pam_session,     \* pam_open_session has succeeded, pam_close_session not run
  cmd,             \* the session's command
  terminate        \* logind has been told to terminate the session

sessionVars == <<kind, pid, started, complete, result, command_run, stopping, login1_id, watch,
                 in_run, held, messages, account, auth_seen, stopped_n, stopped_unrun, unasked,
                 to_child,
                 from_child, pc, prompts, lost, pam_ok, pam_session, cmd, terminate>>

Answers == {"response", "error"}
Commands == {"command", "empty"}
Results == {"result_ok", "result_fail"}

(* The places session_child_run can be at.                                 *)
PCs == {"none", "auth", "conv", "wait", "open", "opened", "handler", "forked", "run", "closing",
        "exited", "reaped"}

SessionTypeOK ==
  /\ kind \in {"user", "guest", "remote"}
  /\ pid \in {"0", "-1", "child"}
  /\ {started, complete, result, command_run, stopping, login1_id, watch, in_run, held,
      stopped_unrun, lost, pam_ok, pam_session, terminate} \subseteq BOOLEAN
  /\ messages \in {"none", "asked", "kept"}
  /\ unasked \in 0..MaxUnasked
  /\ account \in {"none", "made", "removed"}
  /\ auth_seen \in Nat /\ stopped_n \in Nat
  /\ to_child \in Seq(Answers \union {"bare"} \union Commands)
  /\ from_child \in Seq(Results \union {"prompt", "ids"})
  /\ pc \in PCs
  /\ prompts \in 0..MaxPrompts
  /\ cmd \in {"none", "running", "done"}

SessionInit ==
  /\ kind \in {"user", "guest", "remote"}
  /\ pid = "0"
  /\ started = FALSE /\ complete = FALSE /\ result = FALSE
  /\ command_run = FALSE /\ stopping = FALSE /\ login1_id = FALSE
  /\ watch = FALSE /\ in_run = FALSE /\ held = TRUE /\ messages = "none"
  /\ account = "none"
  /\ auth_seen = 0 /\ stopped_n = 0 /\ stopped_unrun = FALSE /\ unasked = 0
  /\ to_child = <<>> /\ from_child = <<>>
  /\ pc = "none" /\ prompts = 0 /\ lost = FALSE
  /\ pam_ok = FALSE /\ pam_session = FALSE /\ cmd = "none" /\ terminate = FALSE

----------------------------------------------------------------------------
(* The Session object                                                      *)

is_guest == kind \in {"guest", "remote"}
is_authenticated == complete /\ result

emit_authentication_complete == auth_seen' = IF stopped_n = 0 THEN auth_seen + 1 ELSE auth_seen
emit_stopped == stopped_n' = stopped_n + 1

(* The object exists while its owner or its child's watch has a reference. *)
alive == held \/ pid = "child"

(* The daemon's main loop is not inside session_real_run.                  *)
idle == ~in_run

(* session_real_start.  The guest account is set up first; when that fails *)
(* nothing is started, when the fork fails the account stays.              *)
session_start ==
  /\ idle /\ held /\ ~stopping
  /\ pid = "0" /\ ~started /\ ~watch
  /\ watch' = TRUE
  /\ \/ /\ kind = "guest"                         \* guest_account_setup fails
        /\ UNCHANGED <<pid, started, account, pc>>
     \/ /\ account' = IF kind = "guest" THEN "made" ELSE account
        /\ \/ /\ pid' = "-1"
              /\ UNCHANGED <<started, pc>>
           \/ /\ pid' = "child"
              /\ started' = TRUE
              /\ pc' = "auth"
  /\ UNCHANGED <<kind, complete, result, command_run, stopping, login1_id, in_run, held, messages,
                 auth_seen, stopped_n, stopped_unrun, unasked, to_child, from_child, prompts,
                 lost, pam_ok,
                 pam_session, cmd, terminate>>

(* Mutant of from_child_cb: any result counts as success.                  *)
from_child_cb_ok ==
  /\ idle /\ alive /\ watch
  /\ from_child # <<>>
  /\ from_child' = Tail(from_child)
  /\ \/ /\ Head(from_child) = "prompt"
        /\ messages' = "asked"
        /\ UNCHANGED <<complete, result, watch, auth_seen>>
     \/ /\ Head(from_child) \in Results
        /\ complete' = TRUE
        /\ result' = TRUE
        /\ watch' = FALSE
        /\ emit_authentication_complete
        /\ UNCHANGED messages
  /\ UNCHANGED <<kind, pid, started, command_run, stopping, login1_id, in_run, held, account,
                 stopped_n, stopped_unrun, unasked, to_child, pc, prompts, lost, pam_ok,
                 pam_session, cmd, terminate>>

(* from_child_cb: messages from PAM, or the result, after which the pipe   *)
(* is watched no more.                                                     *)
from_child_cb ==
  /\ idle /\ alive /\ watch
  /\ from_child # <<>>
  /\ from_child' = Tail(from_child)
  /\ \/ /\ Head(from_child) = "prompt"
        /\ messages' = "asked"
        /\ UNCHANGED <<complete, result, watch, auth_seen>>
     \/ /\ Head(from_child) \in Results
        /\ complete' = TRUE
        /\ result' = (Head(from_child) = "result_ok")
        /\ watch' = FALSE
        /\ emit_authentication_complete
        /\ UNCHANGED messages
  /\ UNCHANGED <<kind, pid, started, command_run, stopping, login1_id, in_run, held, account,
                 stopped_n, stopped_unrun, unasked, to_child, pc, prompts, lost, pam_ok,
                 pam_session, cmd, terminate>>

(* from_child_cb for G_IO_HUP: the other end is gone.                      *)
from_child_hup ==
  /\ idle /\ alive /\ watch
  /\ from_child = <<>> /\ pc \in {"exited", "reaped"}
  /\ watch' = FALSE
  /\ UNCHANGED <<kind, pid, started, complete, result, command_run, stopping, login1_id, in_run,
                 held, messages, account, auth_seen, stopped_n, stopped_unrun, unasked, to_child,
                 from_child,
                 pc, prompts, lost, pam_ok, pam_session, cmd, terminate>>

(* Mutant of session_watch_cb: a result is reported though the child has   *)
(* already sent one.                                                       *)
session_watch_cb_again ==
  /\ idle
  /\ pid = "child" /\ pc = "exited"
  /\ pc' = "reaped"
  /\ pid' = "0"
  /\ IF started
       THEN complete' = TRUE /\ result' = FALSE /\ emit_authentication_complete
       ELSE UNCHANGED <<complete, result, auth_seen>>
  /\ emit_stopped
  /\ account' = IF is_guest THEN "removed" ELSE account
  /\ UNCHANGED <<kind, started, command_run, stopping, login1_id, watch, in_run, held, messages,
                 stopped_unrun, unasked, to_child, from_child, prompts, lost, pam_ok, pam_session,
                 cmd, terminate>>

(* session_watch_cb: a child that ends before it gave a result counts as a *)
(* failed authentication; then STOPPED, then the guest account goes.       *)
session_watch_cb ==
  /\ idle
  /\ pid = "child" /\ pc = "exited"
  /\ pc' = "reaped"
  /\ pid' = "0"
  /\ IF started /\ ~complete
       THEN complete' = TRUE /\ result' = FALSE /\ emit_authentication_complete
       ELSE UNCHANGED <<complete, result, auth_seen>>
  /\ emit_stopped
  /\ account' = IF is_guest THEN "removed" ELSE account
  /\ UNCHANGED <<kind, started, command_run, stopping, login1_id, watch, in_run, held, messages,
                 stopped_unrun, unasked, to_child, from_child, prompts, lost, pam_ok, pam_session,
                 cmd, terminate>>

(* session_respond and session_respond_error, for any answer of a greeter. *)
(* What goes into the pipe depends on the messages there are: PAM_SUCCESS  *)
(* and a string for each, which clears them, nothing after PAM_SUCCESS     *)
(* when there are none, or an error, which leaves them as they are.        *)
(* Nothing asks whether PAM waits for an answer.  (The greeter starts the  *)
(* session as soon as it has one; without a child nobody reads the pipe.)  *)
session_respond(answer) ==
  /\ idle /\ held /\ started
  /\ messages # "asked" => unasked < MaxUnasked
  /\ unasked' = IF messages = "asked" THEN unasked ELSE unasked + 1
  /\ \/ /\ answer = "response"
        /\ to_child' = Append(to_child, IF messages = "none" THEN "bare" ELSE "response")
        /\ messages' = "none"
     \/ /\ answer = "error"
        /\ to_child' = Append(to_child, "error")
        /\ messages' = IF messages = "asked" THEN "kept" ELSE messages
  /\ UNCHANGED <<kind, pid, started, complete, result, command_run, stopping, login1_id, watch,
                 in_run, held, account, auth_seen, stopped_n, stopped_unrun, from_child, pc,
                 prompts, lost, pam_ok, pam_session, cmd, terminate>>

(* session_real_run, up to the read that waits for the session's ids.      *)
session_run ==
  /\ idle /\ held
  /\ ~command_run /\ is_authenticated /\ pid # "0"
  /\ command_run' = TRUE
  /\ to_child' = Append(to_child, "command")
  /\ in_run' = TRUE
  /\ UNCHANGED <<kind, pid, started, complete, result, stopping, login1_id, watch, held, messages,
                 account, auth_seen, stopped_n, stopped_unrun, unasked, from_child, pc, prompts,
                 lost, pam_ok,
                 pam_session, cmd, terminate>>

(* The end of session_real_run: the ids (from logind, or of ConsoleKit) are *)
(* read, or the child is gone.                                             *)
session_run_returns ==
  /\ in_run
  /\ \/ /\ from_child # <<>>
        /\ from_child' = Tail(from_child)
        /\ login1_id' \in BOOLEAN
     \/ /\ from_child = <<>> /\ pc = "exited"
        /\ UNCHANGED <<from_child, login1_id>>
  /\ in_run' = FALSE
  /\ UNCHANGED <<kind, pid, started, complete, result, command_run, stopping, watch, held, messages,
                 account, auth_seen, stopped_n, stopped_unrun, unasked, to_child, pc, prompts,
                 lost, pam_ok,
                 pam_session, cmd, terminate>>

(* What SIGTERM does to the session child: it dies of it until signal_cb   *)
(* is installed; after that it passes the signal on when child_pid > 0     *)
(* ("run") and calls exit otherwise ("forked": child_pid is not assigned   *)
(* yet; "closing": it is 0 again).                                         *)
SigTerm == pc' = IF pc \in {"run", "exited"} THEN pc ELSE "exited"

(* Mutant of session_stop: an authenticated session is left waiting for    *)
(* its command.                                                            *)
session_stop_silent ==
  /\ idle /\ held /\ ~stopping
  /\ stopping' = TRUE
  /\ stopped_unrun' = ~command_run
  /\ terminate' = login1_id
  /\ \/ /\ is_authenticated /\ ~command_run
        /\ UNCHANGED <<pc, stopped_n, command_run, to_child>>
     \/ /\ ~(is_authenticated /\ ~command_run)
        /\ \/ pid = "child" /\ SigTerm /\ UNCHANGED stopped_n
           \/ pid # "child" /\ emit_stopped /\ UNCHANGED pc
        /\ UNCHANGED <<command_run, to_child>>
  /\ UNCHANGED <<kind, pid, started, complete, result, login1_id, watch, in_run, held, messages,
                 account, auth_seen, unasked, from_child, prompts, lost, pam_ok, pam_session, cmd>>

(* Mutant of session_stop: a session without a child says nothing.         *)
session_stop_childless ==
  /\ idle /\ held /\ ~stopping
  /\ stopping' = TRUE
  /\ stopped_unrun' = ~command_run
  /\ terminate' = login1_id
  /\ \/ /\ is_authenticated /\ ~command_run
        /\ command_run' = TRUE
        /\ to_child' = Append(to_child, "empty")
        /\ UNCHANGED <<pc, stopped_n>>
     \/ /\ ~(is_authenticated /\ ~command_run)
        /\ \/ pid = "child" /\ SigTerm /\ UNCHANGED stopped_n
           \/ pid # "child" /\ UNCHANGED <<pc, stopped_n>>
        /\ UNCHANGED <<command_run, to_child>>
  /\ UNCHANGED <<kind, pid, started, complete, result, login1_id, watch, in_run, held, messages,
                 account, auth_seen, unasked, from_child, prompts, lost, pam_ok, pam_session, cmd>>

(* Mutant of session_stop: logind is not told.                             *)
session_stop_login1 ==
  /\ idle /\ held /\ ~stopping
  /\ stopping' = TRUE
  /\ stopped_unrun' = ~command_run
  /\ UNCHANGED terminate
  /\ \/ /\ is_authenticated /\ ~command_run
        /\ command_run' = TRUE
        /\ to_child' = Append(to_child, "empty")
        /\ UNCHANGED <<pc, stopped_n>>
     \/ /\ ~(is_authenticated /\ ~command_run)
        /\ \/ pid = "child" /\ SigTerm /\ UNCHANGED stopped_n
           \/ pid # "child" /\ emit_stopped /\ UNCHANGED pc
        /\ UNCHANGED <<command_run, to_child>>
  /\ UNCHANGED <<kind, pid, started, complete, result, login1_id, watch, in_run, held, messages,
                 account, auth_seen, unasked, from_child, prompts, lost, pam_ok, pam_session, cmd>>

(* session_stop and session_real_stop.                                     *)
session_stop ==
  /\ idle /\ held /\ ~stopping
  /\ stopping' = TRUE
  /\ stopped_unrun' = ~command_run
  /\ terminate' = login1_id
  /\ \/ /\ is_authenticated /\ ~command_run
        /\ command_run' = TRUE
        /\ to_child' = Append(to_child, "empty")
        /\ UNCHANGED <<pc, stopped_n>>
     \/ /\ ~(is_authenticated /\ ~command_run)
        /\ \/ pid = "child" /\ SigTerm /\ UNCHANGED stopped_n
           \/ pid # "child" /\ emit_stopped /\ UNCHANGED pc
        /\ UNCHANGED <<command_run, to_child>>
  /\ UNCHANGED <<kind, pid, started, complete, result, login1_id, watch, in_run, held, messages,
                 account, auth_seen, unasked, from_child, prompts, lost, pam_ok, pam_session, cmd>>

(* The owner drops its reference once it has seen STOPPED.                 *)
owner_unref ==
  /\ idle /\ held /\ stopped_n > 0
  /\ held' = FALSE
  /\ UNCHANGED <<kind, pid, started, complete, result, command_run, stopping, login1_id, watch,
                 in_run, messages, account, auth_seen, stopped_n, stopped_unrun, unasked,
                 to_child, from_child,
                 pc, prompts, lost, pam_ok, pam_session, cmd, terminate>>

----------------------------------------------------------------------------
(* The session child                                                       *)

objectVars == <<kind, pid, started, complete, result, command_run, stopping, login1_id, watch,
                in_run, held, messages, account, auth_seen, stopped_n, stopped_unrun, unasked,
                terminate>>

(* pam_conv_cb: messages for an interactive session, then wait.            *)
pam_conv_cb ==
  /\ pc = "auth" /\ prompts < MaxPrompts
  /\ prompts' = prompts + 1
  /\ from_child' = Append(from_child, "prompt")
  /\ pc' = "conv"
  /\ UNCHANGED <<objectVars, to_child, lost, pam_ok, pam_session, cmd>>

(* What the child waits for where it reads from the pipe.                  *)
Expected == IF pc = "conv" THEN Answers ELSE Commands

pam_conv_answered ==
  /\ pc = "conv" /\ ~lost
  /\ to_child # <<>> /\ Head(to_child) \in Expected
  /\ to_child' = Tail(to_child)
  /\ pc' = "auth"
  /\ UNCHANGED <<objectVars, from_child, prompts, lost, pam_ok, pam_session, cmd>>

(* An answer is read as the beginning of something else (of the strings of *)
(* another answer, or the name of the log file): the child reads on.       *)
misread ==
  /\ pc \in {"conv", "wait"} /\ ~lost
  /\ to_child # <<>> /\ Head(to_child) \notin Expected
  /\ to_child' = Tail(to_child)
  /\ lost' = TRUE
  /\ UNCHANGED <<objectVars, from_child, pc, prompts, pam_ok, pam_session, cmd>>

(* From then on it reads whatever comes as the next thing it expects, in   *)
(* pieces or whole, until it has an answer, a command or none of these.    *)
read_lost ==
  /\ pc \in {"conv", "wait"} /\ lost
  /\ to_child # <<>>
  /\ to_child' \in {to_child, Tail(to_child)}
  /\ pc' \in IF pc = "conv" THEN {"conv", "auth"} ELSE {"wait", "open", "exited"}
  /\ UNCHANGED <<objectVars, from_child, prompts, lost, pam_ok, pam_session, cmd>>

(* Authentication ends and the result is written; a failed one ends the    *)
(* child.                                                                  *)
authenticated(ok) ==
  /\ pc = "auth"
  /\ pam_ok' = ok
  /\ from_child' = Append(from_child, IF ok THEN "result_ok" ELSE "result_fail")
  /\ pc' = IF ok THEN "wait" ELSE "exited"
  /\ UNCHANGED <<objectVars, to_child, prompts, lost, pam_session, cmd>>

(* The command is read; nothing to run refreshes the credentials and ends. *)
read_command ==
  /\ pc = "wait" /\ ~lost
  /\ to_child # <<>> /\ Head(to_child) \in Expected
  /\ to_child' = Tail(to_child)
  /\ pc' = IF Head(to_child) = "empty" THEN "exited" ELSE "open"
  /\ UNCHANGED <<objectVars, from_child, prompts, lost, pam_ok, pam_session, cmd>>

(* Mutant of open_session: the ids are not written.                        *)
open_session_silent ==
  /\ pc = "open"
  /\ pam_session' = TRUE
  /\ UNCHANGED from_child
  /\ pc' = "opened"
  /\ UNCHANGED <<objectVars, to_child, prompts, lost, pam_ok, cmd>>

(* Credentials, pam_open_session, and the ids are written to the daemon.   *)
open_session ==
  /\ pc = "open"
  /\ pam_session' = TRUE
  /\ from_child' = Append(from_child, "ids")
  /\ pc' = "opened"
  /\ UNCHANGED <<objectVars, to_child, prompts, lost, pam_ok, cmd>>

(* An error of PAM, of the system bus or of the X authority, or a crash:   *)
(* the child ends without a word.                                          *)
child_fails ==
  /\ pc \in {"auth", "open", "opened"}
  /\ pc' = "exited"
  /\ UNCHANGED <<objectVars, to_child, from_child, prompts, lost, pam_ok, pam_session, cmd>>

install_signal_cb ==
  /\ pc = "opened"
  /\ pc' = "handler"
  /\ UNCHANGED <<objectVars, to_child, from_child, prompts, lost, pam_ok, pam_session, cmd>>

(* fork: the command exists before the parent has stored child_pid.        *)
fork_command ==
  /\ pc = "handler"
  /\ \/ pc' = "forked" /\ cmd' = "running"
     \/ pc' = "closing" /\ UNCHANGED cmd
  /\ UNCHANGED <<objectVars, to_child, from_child, prompts, lost, pam_ok, pam_session>>

set_child_pid ==
  /\ pc = "forked"
  /\ pc' = "run"
  /\ UNCHANGED <<objectVars, to_child, from_child, prompts, lost, pam_ok, pam_session, cmd>>

(* waitpid returns.                                                        *)
command_ended ==
  /\ pc = "run" /\ cmd = "done"
  /\ pc' = "closing"
  /\ UNCHANGED <<objectVars, to_child, from_child, prompts, lost, pam_ok, pam_session, cmd>>

(* The authority is removed, the session closed, the credentials deleted.  *)
close_session ==
  /\ pc = "closing"
  /\ pam_session' = FALSE
  /\ pc' = "exited"
  /\ UNCHANGED <<objectVars, to_child, from_child, prompts, lost, pam_ok, cmd>>

(* The command exits.                                                      *)
CommandExits ==
  /\ cmd = "running"
  /\ cmd' = "done"
  /\ UNCHANGED <<objectVars, to_child, from_child, pc, prompts, lost, pam_ok, pam_session>>

(* logind ends every process of the session it was told to terminate.      *)
Login1Terminates ==
  /\ terminate
  /\ terminate' = FALSE
  /\ pc' = IF pc \in {"none", "reaped"} THEN pc ELSE "exited"
  /\ cmd' = IF cmd = "running" THEN "done" ELSE cmd
  /\ UNCHANGED <<kind, pid, started, complete, result, command_run, stopping, login1_id, watch,
                 in_run, held, messages, account, auth_seen, stopped_n, stopped_unrun, unasked,
                 to_child,
                 from_child, prompts, lost, pam_ok, pam_session>>

----------------------------------------------------------------------------
ChildStep ==
  \/ pam_conv_answered \/ misread \/ read_command \/ open_session \/ install_signal_cb
  \/ fork_command \/ set_child_pid \/ command_ended \/ close_session

SessionNext ==
  \/ session_start \/ from_child_cb \/ from_child_hup \/ session_watch_cb
  \/ \E answer \in Answers : session_respond(answer)
  \/ session_run \/ session_run_returns \/ session_stop \/ owner_unref
  \/ pam_conv_cb \/ read_lost \/ child_fails \/ ChildStep
  \/ \E ok \in BOOLEAN : authenticated(ok)
  \/ CommandExits \/ Login1Terminates

SessionSafety == SessionInit /\ [][SessionNext]_sessionVars

(* The main loop and the session child run, but PAM need not come to a     *)
(* result, nor a child that has lost its place to anything it expects; a   *)
(* command that its session child has passed SIGTERM on to does end, which *)
(* is the assumption behind the FIXME of session_real_stop; logind does    *)
(* what it is told.                                                        *)
SessionFairness ==
  /\ WF_sessionVars(from_child_cb) /\ WF_sessionVars(session_watch_cb)
  /\ WF_sessionVars(session_run_returns)
  /\ WF_sessionVars(ChildStep)
  /\ WF_sessionVars(stopping /\ pc = "run" /\ CommandExits)
  /\ WF_sessionVars(Login1Terminates)

SessionSpec == SessionSafety /\ SessionFairness

----------------------------------------------------------------------------
(* Properties                                                              *)

(* A seat, which stops listening at STOPPED, sees exactly one result of an *)
(* authentication that was started, and sees it before STOPPED, however    *)
(* the child ends and in whatever order its exit and its last message are  *)
(* noticed.                                                                *)
OneResult ==
  /\ auth_seen <= 1
  /\ started /\ stopped_n > 0 => auth_seen = 1
  /\ ~started => auth_seen = 0

(* The daemon believes that a user is authenticated only when PAM, in the  *)
(* child, has said so.                                                     *)
TrustsOnlyPAM == is_authenticated => pam_ok

(* A session stopped before its command was sent never runs it: the child  *)
(* is told to end, or dies of SIGTERM, even when its result is still on    *)
(* its way and the seat then runs the session.  (A child that has lost its *)
(* place may make a command of anything.)                                  *)
NoCommandAfterStop == stopped_unrun /\ ~lost => cmd = "none"

(* Both ends of the pipes agree on what comes next.  Unless a greeter has  *)
(* answered what nobody asked, a child that waits for an answer never      *)
(* finds a command, and one that waits for its command never finds an      *)
(* answer.  Whatever a greeter sends, session_real_run reads nothing but   *)
(* the ids, and the child loses its place only after such an answer.       *)
PipesInStep ==
  /\ unasked = 0 =>
       /\ pc = "conv" => to_child \in {<<>>} \union {<<a>> : a \in Answers}
       /\ pc = "wait" => to_child \in {<<>>} \union {<<c>> : c \in Commands}
       /\ pc \in {"open", "opened", "handler", "forked", "run", "closing"} => to_child = <<>>
  /\ lost => unasked > 0
  /\ in_run => from_child \in {<<>>, <<"ids">>}

(* The guest account exists as long as the child that runs in it, and goes *)
(* when that ends.  (After a failed fork it stays: session_real_start has  *)
(* no path that removes it.)                                               *)
GuestAccountInv ==
  kind = "guest" =>
    /\ pid = "child" => account = "made"
    /\ account = "made" => pid \in {"child", "-1"}

(* The object and its child stay in step, however they are interrupted:    *)
(* nothing runs after a stop, the pipes carry what is waited for, and the  *)
(* guest account lives as long as its child.                               *)
SessionInv == SessionTypeOK /\ NoCommandAfterStop /\ PipesInStep /\ GuestAccountInv

(* A session that was told to stop says STOPPED, unless its child has lost *)
(* its place: it is told to end through the pipe it no longer understands. *)
SessionStops == stopping ~> (stopped_n > 0 \/ lost)

(* session_real_run, which blocks the whole daemon, returns, unless the    *)
(* child it waits for has lost its place and waits for the daemon.         *)
RunReturns == in_run ~> (~in_run \/ lost)

(* "Kill remaining processes in our logind session to avoid them leaking   *)
(* to the user session": once a session that logind knows is stopped, its  *)
(* command is gone for good (what a child that has lost its place runs may *)
(* be stopped before the daemon knows its session).                        *)
NothingLeaks == (stopping /\ login1_id) ~> (cmd # "running" \/ lost)

(* "Catch terminate signal and pass it to the child": the session child    *)
(* does not end while the command it has forked still runs.                *)
TermReachesCommand == pc = "exited" => cmd # "running"
============================================================================
