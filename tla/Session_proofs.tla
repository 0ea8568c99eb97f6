--------------------------- MODULE Session_proofs ---------------------------
(***************************************************************************)
(* Proofs about Session, for any number of conversations.  SessionStops,   *)
(* RunReturns and NothingLeaks need fairness and are left to TLC.          *)
(***************************************************************************)
EXTENDS Session, TLAPS

(* The types of the variables that the argument is about.                  *)
FlagTypes ==
  /\ started \in BOOLEAN /\ complete \in BOOLEAN /\ result \in BOOLEAN /\ stopping \in BOOLEAN
  /\ watch \in BOOLEAN /\ pam_ok \in BOOLEAN

ResultTypes ==
  /\ pid \in {"0", "-1", "child"}
  /\ auth_seen \in Nat /\ stopped_n \in Nat
  /\ from_child \in Seq(Results \union {"prompt", "ids"})
  /\ pc \in PCs

(* Until PAM has decided there is no result, neither in the pipe nor in    *)
(* the object, and a good one is never ahead of PAM.                       *)
ResultOrder ==
  /\ ~started => pc = "none"
  /\ pc \in {"none", "auth", "conv"} =>
       ~complete /\ \A i \in 1..Len(from_child) : from_child[i] \notin Results
  /\ \A i \in 1..Len(from_child) : from_child[i] = "result_ok" => pam_ok
  /\ complete => started
  /\ TrustsOnlyPAM

(* STOPPED is not said while there is a child, and once a result has been  *)
(* reported the pipe is watched no more; that leaves one report at most.   *)
ResultCount ==
  /\ pid = "child" => started /\ stopped_n = 0
  /\ started /\ stopped_n = 0 => pid = "child"
  /\ stopped_n > 0 /\ ~started => stopping
  /\ stopped_n = 0 /\ complete => auth_seen = 1
  /\ stopped_n = 0 /\ ~complete => auth_seen = 0
  /\ stopped_n > 0 /\ started => auth_seen = 1
  /\ stopped_n > 0 /\ ~started => auth_seen = 0
  /\ stopped_n = 0 /\ complete => ~watch

SessionIInv == FlagTypes /\ ResultTypes /\ ResultOrder /\ ResultCount

(* The variables of the invariant.                                         *)
resultVars == <<pid, started, complete, result, stopping, watch, pam_ok, auth_seen, stopped_n, from_child, pc>>

(* A new session has no child, no result and no signals.                   *)
LEMMA SessionInitIInv == SessionInit => SessionIInv
<1> SUFFICES ASSUME SessionInit PROVE SessionIInv
  OBVIOUS
<1>0. FlagTypes
  BY DEF SessionInit, FlagTypes
<1>1. ResultTypes
  BY DEF SessionInit, ResultTypes, PCs
<1>2. ResultOrder
  BY DEF SessionInit, ResultOrder, TrustsOnlyPAM, is_authenticated
<1>3. ResultCount
  BY DEF SessionInit, ResultCount
<1> QED BY <1>0, <1>1, <1>2, <1>3 DEF SessionIInv

(* Taking a message out of the pipe leaves the ones behind it.             *)
LEMMA TailElements ==
  ASSUME NEW S, NEW q \in Seq(S), q # <<>>
  PROVE  /\ Tail(q) \in Seq(S) /\ Head(q) = q[1] /\ 1 \in 1..Len(q)
         /\ \A i \in 1..Len(Tail(q)) : i + 1 \in 1..Len(q) /\ Tail(q)[i] = q[i + 1]
OBVIOUS

(* Writing one puts it behind the others.                                  *)
LEMMA AppendElements ==
  ASSUME NEW S, NEW q \in Seq(S), NEW m \in S
  PROVE  /\ Append(q, m) \in Seq(S)
         /\ \A i \in 1..Len(Append(q, m)) :
              \/ i \in 1..Len(q) /\ Append(q, m)[i] = q[i]
              \/ Append(q, m)[i] = m
OBVIOUS

(* Every step of the daemon, of the session child and of their             *)
(* surroundings preserves the invariant.                                   *)
LEMMA SessionNextIInv == SessionIInv /\ [SessionNext]_sessionVars => SessionIInv'
<1> SUFFICES ASSUME SessionIInv, [SessionNext]_sessionVars PROVE SessionIInv'
  OBVIOUS
<1> USE DEF SessionIInv, FlagTypes, ResultTypes, ResultOrder, ResultCount, TrustsOnlyPAM, is_authenticated
<1>0. ASSUME UNCHANGED resultVars PROVE SessionIInv'
  BY <1>0 DEF resultVars
<1>1. CASE session_start
  <2> USE <1>1 DEF session_start
  <2>1. FlagTypes'
    OBVIOUS
  <2>2. ResultTypes'
    BY DEF PCs
  <2>3. ResultOrder'
    OBVIOUS
  <2>4. ResultCount'
    OBVIOUS
  <2> QED BY <2>1, <2>2, <2>3, <2>4
<1>2. CASE from_child_cb
  <2>1. /\ Tail(from_child) \in Seq(Results \union {"prompt", "ids"})
        /\ Head(from_child) = from_child[1] /\ 1 \in 1..Len(from_child)
        /\ \A i \in 1..Len(Tail(from_child)) :
             i + 1 \in 1..Len(from_child) /\ Tail(from_child)[i] = from_child[i + 1]
    BY <1>2, TailElements DEF from_child_cb
  <2>2. CASE Head(from_child) = "prompt"
    <3> USE <1>2, <2>2 DEF from_child_cb
    <3>1. UNCHANGED <<pid, started, complete, result, stopping, watch, pam_ok, auth_seen, stopped_n, pc>>
      BY DEF Results
    <3>2. ResultOrder'
      BY <2>1, <3>1
    <3> QED BY <2>1, <3>1, <3>2
  <2>3. CASE Head(from_child) \in Results
    <3> USE <1>2, <2>3 DEF from_child_cb
    <3>1. pc \notin {"none", "auth", "conv"} /\ started
      BY <2>1
    <3>2. /\ complete' = TRUE /\ watch' = FALSE /\ result' = (from_child[1] = "result_ok")
          /\ emit_authentication_complete
      BY <2>1 DEF Results
    <3>3. FlagTypes'
      BY <3>2
    <3>4. ResultTypes'
      BY <2>1, <3>2 DEF emit_authentication_complete
    <3>5. ResultOrder'
      <4>1. TrustsOnlyPAM'
        BY <2>1, <3>2
      <4>2. \A i \in 1..Len(from_child') : from_child'[i] = "result_ok" => pam_ok'
        BY <2>1
      <4> QED BY <3>1, <3>2, <4>1, <4>2
    <3>6. ResultCount'
      BY <3>1, <3>2 DEF emit_authentication_complete
    <3> QED BY <3>3, <3>4, <3>5, <3>6
  <2> QED BY <1>2, <2>2, <2>3 DEF from_child_cb
<1>3. CASE from_child_hup
  BY <1>3 DEF from_child_hup
<1>4. CASE session_watch_cb
  <2> USE <1>4 DEF session_watch_cb, emit_stopped
  <2>1. stopped_n = 0 /\ started
    OBVIOUS
  <2>2. auth_seen' = 1 /\ complete' = TRUE /\ result' \in BOOLEAN /\ (result' => complete /\ result)
    <3>1. CASE ~complete
      <4>1. complete' = TRUE /\ result' = FALSE /\ emit_authentication_complete
        BY <2>1, <3>1
      <4>2. auth_seen = 0
        BY <2>1, <3>1
      <4>3. auth_seen' = 1
        BY <2>1, <4>1, <4>2 DEF emit_authentication_complete
      <4> QED BY <4>1, <4>3
    <3>2. CASE complete
      <4>1. complete = TRUE /\ UNCHANGED <<complete, result, auth_seen>>
        BY <3>2
      <4> QED BY <2>1, <4>1
    <3> QED BY <3>1, <3>2
  <2>3. FlagTypes'
    BY <2>2
  <2>4. ResultTypes'
    BY <2>2 DEF PCs
  <2>5. ResultOrder'
    BY <2>1, <2>2
  <2>6. ResultCount'
    BY <2>1, <2>2
  <2> QED BY <2>3, <2>4, <2>5, <2>6
<1>5. ASSUME NEW answer \in Answers, session_respond(answer) PROVE SessionIInv'
  BY <1>0, <1>5 DEF session_respond, resultVars
<1>6. CASE session_run
  BY <1>0, <1>6 DEF session_run, resultVars
<1>7. CASE session_run_returns
  <2>1. CASE from_child' = from_child
    BY <1>0, <1>7, <2>1 DEF session_run_returns, resultVars
  <2>2. CASE from_child # <<>> /\ from_child' = Tail(from_child)
    <3>1. /\ Tail(from_child) \in Seq(Results \union {"prompt", "ids"})
          /\ \A i \in 1..Len(Tail(from_child)) :
               i + 1 \in 1..Len(from_child) /\ Tail(from_child)[i] = from_child[i + 1]
      BY <2>2, TailElements
    <3> QED BY <1>7, <2>2, <3>1 DEF session_run_returns
  <2> QED BY <1>7, <2>1, <2>2 DEF session_run_returns
<1>8. CASE session_stop
  <2>1. CASE stopped_n' = stopped_n /\ pc' = pc
    BY <1>8, <2>1 DEF session_stop
  <2>2. CASE pid = "child" /\ SigTerm /\ stopped_n' = stopped_n
    BY <1>8, <2>2 DEF session_stop, SigTerm, PCs
  <2>3. CASE pid # "child" /\ emit_stopped /\ pc' = pc
    BY <1>8, <2>3 DEF session_stop, emit_stopped
  <2> QED BY <1>8, <2>1, <2>2, <2>3 DEF session_stop
<1>9. CASE owner_unref
  BY <1>0, <1>9 DEF owner_unref, resultVars
<1>10. CASE pam_conv_cb
  <2>1. /\ from_child' \in Seq(Results \union {"prompt", "ids"})
        /\ \A i \in 1..Len(from_child') :
             \/ i \in 1..Len(from_child) /\ from_child'[i] = from_child[i]
             \/ from_child'[i] = "prompt"
    BY <1>10, AppendElements DEF pam_conv_cb
  <2> QED BY <1>10, <2>1 DEF pam_conv_cb, objectVars, PCs, Results
<1>11. ASSUME NEW ok \in BOOLEAN, authenticated(ok) PROVE SessionIInv'
  <2> DEFINE m == IF ok THEN "result_ok" ELSE "result_fail"
  <2>1. m \in Results \union {"prompt", "ids"}
    BY DEF Results
  <2>2. /\ from_child' \in Seq(Results \union {"prompt", "ids"})
        /\ \A i \in 1..Len(from_child') :
             \/ i \in 1..Len(from_child) /\ from_child'[i] = from_child[i]
             \/ from_child'[i] = m
    BY <1>11, <2>1, AppendElements DEF authenticated
  <2> QED BY <1>11, <2>2 DEF authenticated, objectVars, PCs, Results
<1>12. CASE child_fails
  BY <1>12 DEF child_fails, objectVars, PCs
<1>13. CASE ChildStep
  <2>1. CASE pam_conv_answered
    BY <2>1 DEF pam_conv_answered, objectVars, PCs
  <2>2. CASE read_command
    BY <2>2 DEF read_command, objectVars, PCs
  <2>5. CASE misread
    BY <1>0, <2>5 DEF misread, objectVars, resultVars
  <2>3. CASE open_session
    <3>1. /\ from_child' \in Seq(Results \union {"prompt", "ids"})
          /\ \A i \in 1..Len(from_child') :
               \/ i \in 1..Len(from_child) /\ from_child'[i] = from_child[i]
               \/ from_child'[i] = "ids"
      BY <2>3, AppendElements DEF open_session
    <3> QED BY <2>3, <3>1 DEF open_session, objectVars, PCs, Results
  <2>4. CASE install_signal_cb \/ fork_command \/ set_child_pid \/ command_ended \/ close_session
    BY <2>4 DEF install_signal_cb, fork_command, set_child_pid, command_ended, close_session,
         objectVars, PCs
  <2> QED BY <1>13, <2>1, <2>2, <2>3, <2>4, <2>5 DEF ChildStep
<1>17. CASE read_lost
  BY <1>17 DEF read_lost, objectVars, PCs
<1>14. CASE CommandExits
  BY <1>0, <1>14 DEF CommandExits, objectVars, resultVars
<1>15. CASE Login1Terminates
  BY <1>15 DEF Login1Terminates, PCs
<1>16. CASE UNCHANGED sessionVars
  BY <1>0, <1>16 DEF sessionVars, resultVars
<1> QED
  BY <1>1, <1>2, <1>3, <1>4, <1>5, <1>6, <1>7, <1>8, <1>9, <1>10, <1>11, <1>12, <1>13, <1>14, <1>15,
     <1>16, <1>17 DEF SessionNext

(* The invariant holds in every reachable state.                           *)
THEOREM SessionInvariant == SessionSafety => []SessionIInv
BY SessionInitIInv, SessionNextIInv, PTL DEF SessionSafety

(* The daemon takes a user for authenticated only when PAM has said so in  *)
(* the session child, however the child ends and however late it is heard. *)
THEOREM SessionTrust == SessionSafety => []TrustsOnlyPAM
<1>1. SessionIInv => TrustsOnlyPAM
  BY DEF SessionIInv, ResultOrder
<1> QED BY <1>1, SessionInvariant, PTL

(* The owner sees one result of an authentication, before STOPPED, in      *)
(* whatever order the exit of the child and its last message are noticed.  *)
THEOREM SessionOneResult == SessionSafety => []OneResult
<1>1. SessionIInv => OneResult
  BY DEF SessionIInv, FlagTypes, ResultTypes, ResultOrder, ResultCount, OneResult
<1> QED BY <1>1, SessionInvariant, PTL

----------------------------------------------------------------------------
(* The pipes, the stop and the guest account                               *)

Talks == {"none", "auth", "conv"}
Opened == {"opened", "handler", "forked", "run", "closing"}

(* The object takes part in the conversation: as long as nothing was       *)
(* answered that was not asked, the pipes hold one message at most, and    *)
(* whose turn it is follows from where the child is.                       *)
TurnAuth ==
  unasked = 0 /\ pc \in {"none", "auth"} =>
    from_child = <<>> /\ to_child = <<>> /\ messages # "asked"

TurnConv ==
  unasked = 0 /\ pc = "conv" =>
    \/ from_child = <<"prompt">> /\ messages # "asked" /\ to_child = <<>>
    \/ from_child = <<>> /\ messages = "asked" /\ to_child = <<>>
    \/ from_child = <<>> /\ messages # "asked" /\ \E a \in Answers : to_child = <<a>>

TurnWait ==
  unasked = 0 /\ pc = "wait" =>
    /\ messages # "asked"
    /\ \/ ~complete /\ from_child = <<"result_ok">> /\ to_child = <<>> /\ ~command_run
       \/ is_authenticated /\ from_child = <<>> /\ to_child = <<>> /\ ~command_run
       \/ is_authenticated /\ to_child = <<"command">> /\ command_run /\ in_run /\ from_child = <<>>
       \/ is_authenticated /\ to_child = <<"empty">> /\ command_run /\ ~in_run

TurnOpen ==
  unasked = 0 =>
    /\ pc = "open" => in_run /\ from_child = <<>>
    /\ pc \in Opened /\ in_run => from_child = <<"ids">>
    /\ pc \in Opened \union {"open"} =>
         messages # "asked" /\ is_authenticated /\ command_run /\ to_child = <<>>

(* What the object knows of the child, whatever a greeter answers.         *)
ObjectInv ==
  /\ pid = "child" <=> pc \notin {"none", "reaped"}
  /\ pid = "-1" => ~started
  /\ pc \in Talks => ~command_run /\ ~in_run
  /\ in_run => is_authenticated /\ command_run
  /\ lost => unasked > 0

(* What comes from the child: prompts, one result, and at last the ids,    *)
(* which follow nothing but a result that has been read.                   *)
FromOrder ==
  /\ pc \in Talks => \A i \in 1..Len(from_child) : from_child[i] = "prompt"
  /\ \A i \in 1..Len(from_child) :
       /\ from_child[i] \in Results => \A j \in 1..Len(from_child) : j > i => from_child[j] = "ids"
       /\ from_child[i] = "ids" => i = Len(from_child)
  /\ pc \in {"wait", "open"} => \A i \in 1..Len(from_child) : from_child[i] # "ids"
  /\ is_authenticated => \A i \in 1..Len(from_child) : from_child[i] = "ids"

(* A session that was stopped before it ran is on its way to the end.      *)
NoneRunning ==
  /\ ~lost /\ ~command_run => cmd = "none" /\ pc \notin Opened \union {"open"}
  /\ ~command_run => \A i \in 1..Len(to_child) : to_child[i] \notin Commands
  /\ stopped_unrun => stopping
  /\ stopped_unrun /\ ~lost =>
       /\ cmd = "none"
       /\ pc \in {"none", "exited", "reaped", "wait"}
       /\ pc = "wait" => command_run /\ \A i \in 1..Len(to_child) : to_child[i] # "command"

(* The types of the other variables.                                       *)
OtherFlags ==
  /\ command_run \in BOOLEAN /\ login1_id \in BOOLEAN /\ in_run \in BOOLEAN
  /\ held \in BOOLEAN /\ stopped_unrun \in BOOLEAN /\ lost \in BOOLEAN
  /\ pam_session \in BOOLEAN /\ terminate \in BOOLEAN

OtherTypes ==
  /\ kind \in {"user", "guest", "remote"}
  /\ account \in {"none", "made", "removed"}
  /\ messages \in {"none", "asked", "kept"}
  /\ unasked \in 0..MaxUnasked
  /\ to_child \in Seq(Answers \union {"bare"} \union Commands)
  /\ prompts \in 0..MaxPrompts
  /\ cmd \in {"none", "running", "done"}

PipeIInv ==
  /\ SessionIInv /\ OtherFlags /\ OtherTypes
  /\ TurnAuth /\ TurnConv /\ TurnWait /\ TurnOpen
  /\ ObjectInv /\ FromOrder /\ NoneRunning /\ GuestAccountInv

(* The pipes of a new session are empty.                                   *)
LEMMA PipeInitIInv == SessionInit => PipeIInv
<1> SUFFICES ASSUME SessionInit PROVE PipeIInv
  OBVIOUS
<1>1. SessionIInv
  BY SessionInitIInv
<1>2. OtherFlags
  BY DEF SessionInit, OtherFlags
<1>5. OtherTypes
  BY SessionAssumption DEF SessionInit, OtherTypes
<1>3. TurnAuth /\ TurnConv /\ TurnWait /\ TurnOpen
  BY DEF SessionInit, TurnAuth, TurnConv, TurnWait, TurnOpen, Opened
<1>4. ObjectInv /\ FromOrder /\ NoneRunning /\ GuestAccountInv
  BY DEF SessionInit, ObjectInv, Talks, is_authenticated, FromOrder, NoneRunning,
         Opened, GuestAccountInv
<1> QED BY <1>1, <1>2, <1>3, <1>4, <1>5 DEF PipeIInv

(* A pipe with one message in it.                                          *)
LEMMA OneMessage ==
  ASSUME NEW m
  PROVE  /\ Append(<<>>, m) = <<m>> /\ Tail(<<m>>) = <<>> /\ Head(<<m>>) = m
         /\ <<m>> # <<>> /\ \A n : <<m>> = <<n>> => m = n
OBVIOUS

(* Every step preserves what is known of the pipes.                        *)
LEMMA PipeNextIInv == PipeIInv /\ [SessionNext]_sessionVars => PipeIInv'
<1> SUFFICES ASSUME PipeIInv, [SessionNext]_sessionVars PROVE PipeIInv'
  OBVIOUS
<1> USE SessionAssumption
<1>0. /\ SessionIInv /\ OtherFlags /\ OtherTypes
      /\ TurnAuth /\ TurnConv /\ TurnWait /\ TurnOpen
      /\ ObjectInv /\ FromOrder /\ NoneRunning /\ GuestAccountInv
  BY DEF PipeIInv
<1>00. SessionIInv'
  BY <1>0, SessionNextIInv
<1>01. FlagTypes /\ ResultTypes /\ ResultOrder /\ ResultCount
  BY <1>0 DEF SessionIInv
<1>1. CASE session_start
  <2>1. OtherFlags'
    BY <1>0, <1>01, <1>1, OneMessage DEF session_start, idle, OtherFlags, FlagTypes, ResultTypes,
         OtherTypes, TurnAuth, ResultOrder
  <2>2. OtherTypes'
    BY <1>0, <1>01, <1>1, OneMessage DEF session_start, idle, OtherTypes, FlagTypes, ResultTypes,
         OtherFlags, TurnAuth, ResultOrder
  <2>3. TurnAuth'
    BY <1>0, <1>01, <1>1, OneMessage DEF session_start, idle, TurnAuth, FlagTypes, ResultTypes,
         OtherFlags, OtherTypes, ResultOrder
  <2>4. TurnConv'
    BY <1>0, <1>01, <1>1, OneMessage DEF session_start, idle, TurnConv, FlagTypes, ResultTypes,
         OtherFlags, OtherTypes, TurnAuth, ResultOrder
  <2>5. TurnWait'
    BY <1>0, <1>01, <1>1, OneMessage DEF session_start, idle, TurnWait, is_authenticated, FlagTypes,
         ResultTypes, OtherFlags, OtherTypes, TurnAuth, ResultOrder
  <2>6. TurnOpen'
    BY <1>0, <1>01, <1>1, OneMessage DEF session_start, idle, TurnOpen, Opened, is_authenticated,
         FlagTypes, ResultTypes, OtherFlags, OtherTypes, TurnAuth, ResultOrder
  <2>7. ObjectInv'
    BY <1>0, <1>01, <1>1, OneMessage DEF session_start, idle, ObjectInv, is_authenticated, Talks,
         FlagTypes, ResultTypes, OtherFlags, OtherTypes, TurnAuth, ResultOrder
  <2>8. NoneRunning'
    BY <1>0, <1>01, <1>1, TailElements, AppendElements DEF session_start, idle, NoneRunning,
         FromOrder, ObjectInv, Talks, Opened, Answers, Commands, Expected, is_authenticated,
         ResultOrder, FlagTypes, ResultTypes, OtherFlags, OtherTypes, PCs
  <2>9. GuestAccountInv'
    BY <1>0, <1>01, <1>1, OneMessage DEF session_start, idle, GuestAccountInv, FlagTypes,
         ResultTypes, OtherTypes
  <2>10. FromOrder'
    BY <1>0, <1>01, <1>1, TailElements, AppendElements DEF session_start, idle, FromOrder, Talks,
         Opened, Results, is_authenticated, ObjectInv, ResultOrder, ResultCount, FlagTypes,
         ResultTypes, OtherFlags, OtherTypes, PCs
  <2> QED BY <1>00, <2>1, <2>2, <2>3, <2>4, <2>5, <2>6, <2>7, <2>8, <2>9, <2>10 DEF PipeIInv
<1>2. CASE from_child_cb
  <2>1. OtherFlags'
    BY <1>0, <1>01, <1>2, OneMessage DEF from_child_cb, idle, alive, emit_authentication_complete,
         OtherFlags, FlagTypes, ResultTypes, OtherTypes
  <2>2. OtherTypes'
    BY <1>0, <1>01, <1>2, OneMessage DEF from_child_cb, idle, alive, emit_authentication_complete,
         OtherTypes, FlagTypes, ResultTypes, OtherFlags
  <2>3. TurnAuth'
    BY <1>0, <1>01, <1>2, OneMessage DEF from_child_cb, idle, alive, emit_authentication_complete,
         TurnAuth, TurnConv, TurnWait, TurnOpen, Opened, ObjectInv, is_authenticated, Talks,
         NoneRunning, ResultOrder, ResultCount, FlagTypes, ResultTypes, OtherFlags, OtherTypes, PCs
  <2>4. TurnConv'
    <3> SUFFICES ASSUME pc = "conv", unasked = 0
                 PROVE  from_child' = <<>> /\ messages' = "asked" /\ to_child' = <<>>
      BY <1>2 DEF from_child_cb, TurnConv
    <3>1. from_child = <<"prompt">> /\ to_child = <<>>
      BY <1>0, <1>2 DEF TurnConv, from_child_cb
    <3>2. Head(from_child) = "prompt" /\ Tail(from_child) = <<>>
      BY <3>1, OneMessage
    <3> QED BY <1>2, <3>1, <3>2 DEF from_child_cb, Results
  <2>5. TurnWait'
    <3> SUFFICES ASSUME pc = "wait", unasked = 0
                 PROVE  /\ messages' # "asked" /\ is_authenticated' /\ from_child' = <<>>
                        /\ to_child' = <<>> /\ ~command_run'
      BY <1>2 DEF from_child_cb, TurnWait
    <3>1. ~complete
      BY <1>0, <1>01, <1>2 DEF from_child_cb, ObjectInv, ResultCount
    <3>2. /\ from_child = <<"result_ok">> /\ messages # "asked"
          /\ to_child = <<>> /\ ~command_run
      BY <1>0, <3>1 DEF TurnWait, is_authenticated
    <3>3. Head(from_child) = "result_ok" /\ Tail(from_child) = <<>>
      BY <3>2, OneMessage
    <3> QED BY <1>2, <3>2, <3>3 DEF from_child_cb, is_authenticated
  <2>6. TurnOpen'
    BY <1>0, <1>01, <1>2, OneMessage DEF from_child_cb, idle, alive, emit_authentication_complete,
         TurnAuth, TurnConv, TurnWait, TurnOpen, Opened, ObjectInv, is_authenticated, Talks,
         NoneRunning, ResultOrder, ResultCount, FlagTypes, ResultTypes, OtherFlags, OtherTypes, PCs
  <2>7. ObjectInv'
    BY <1>0, <1>01, <1>2, OneMessage DEF from_child_cb, idle, alive, emit_authentication_complete,
         TurnAuth, TurnConv, TurnWait, TurnOpen, Opened, ObjectInv, is_authenticated, Talks,
         NoneRunning, ResultOrder, ResultCount, FlagTypes, ResultTypes, OtherFlags, OtherTypes, PCs
  <2>8. NoneRunning'
    BY <1>0, <1>01, <1>2, TailElements, AppendElements DEF from_child_cb, idle, alive,
         emit_authentication_complete, NoneRunning, FromOrder, ObjectInv, Talks, Opened, Answers,
         Commands, Expected, is_authenticated, ResultOrder, FlagTypes, ResultTypes, OtherFlags,
         OtherTypes, PCs
  <2>9. GuestAccountInv'
    BY <1>0, <1>01, <1>2, OneMessage DEF from_child_cb, idle, alive, emit_authentication_complete,
         GuestAccountInv, FlagTypes, ResultTypes, OtherTypes
  <2>10. FromOrder'
    <3>1. /\ Tail(from_child) \in Seq(Results \union {"prompt", "ids"})
          /\ Len(Tail(from_child)) = Len(from_child) - 1 /\ Len(from_child) \in Nat
          /\ Head(from_child) = from_child[1] /\ 1 \in 1..Len(from_child)
          /\ \A i \in 1..Len(Tail(from_child)) :
               i + 1 \in 1..Len(from_child) /\ Tail(from_child)[i] = from_child[i + 1]
      BY <1>01, <1>2, TailElements DEF from_child_cb, ResultTypes
    <3>0. from_child' = Tail(from_child) /\ pc' = pc
      BY <1>2 DEF from_child_cb
    <3>2. /\ pc' = pc /\ Len(from_child') = Len(from_child) - 1 /\ Len(from_child) \in Nat
          /\ \A i \in 1..Len(from_child') :
               i + 1 \in 1..Len(from_child) /\ from_child'[i] = from_child[i + 1]
      BY <3>0, <3>1
    <3>3. pc \in Talks => \A i \in 1..Len(from_child') : from_child'[i] = "prompt"
      BY <1>0, <3>2 DEF FromOrder
    <3>4. \A i \in 1..Len(from_child') :
            /\ from_child'[i] \in Results =>
                 \A j \in 1..Len(from_child') : j > i => from_child'[j] = "ids"
            /\ from_child'[i] = "ids" => i = Len(from_child')
      <4> SUFFICES ASSUME NEW i \in 1..Len(from_child')
                   PROVE  /\ from_child'[i] \in Results =>
                               \A j \in 1..Len(from_child') : j > i => from_child'[j] = "ids"
                          /\ from_child'[i] = "ids" => i = Len(from_child')
        OBVIOUS
      <4>1. i + 1 \in 1..Len(from_child) /\ from_child'[i] = from_child[i + 1]
        BY <3>2
      <4>2. ASSUME from_child'[i] \in Results, NEW j \in 1..Len(from_child'), j > i
            PROVE  from_child'[j] = "ids"
        <5>1. j + 1 \in 1..Len(from_child) /\ from_child'[j] = from_child[j + 1] /\ j + 1 > i + 1
          BY <3>2, <4>2
        <5> QED BY <1>0, <4>1, <4>2, <5>1 DEF FromOrder
      <4>3. from_child'[i] = "ids" => i = Len(from_child')
        BY <1>0, <3>2, <4>1 DEF FromOrder
      <4> QED BY <4>2, <4>3
    <3>5. pc \in {"wait", "open"} => \A i \in 1..Len(from_child') : from_child'[i] # "ids"
      BY <1>0, <3>2 DEF FromOrder
    <3>6. is_authenticated' => \A i \in 1..Len(from_child') : from_child'[i] = "ids"
      <4>1. CASE Head(from_child) = "prompt"
        <5>1. is_authenticated' => is_authenticated
          BY <1>2, <4>1 DEF from_child_cb, is_authenticated, Results
        <5> QED BY <1>0, <3>2, <5>1 DEF FromOrder
      <4>2. CASE Head(from_child) \in Results
        <5>1. 1 \in 1..Len(from_child) /\ from_child[1] \in Results
          BY <3>1, <4>2
        <5>2. \A j \in 1..Len(from_child) : j > 1 => from_child[j] = "ids"
          BY <1>0, <5>1 DEF FromOrder
        <5> QED BY <3>2, <5>2
      <4> QED BY <1>2, <4>1, <4>2 DEF from_child_cb
    <3> QED BY <3>2, <3>3, <3>4, <3>5, <3>6 DEF FromOrder
  <2> QED BY <1>00, <2>1, <2>2, <2>3, <2>4, <2>5, <2>6, <2>7, <2>8, <2>9, <2>10 DEF PipeIInv
<1>3. CASE from_child_hup
  <2>1. OtherFlags'
    BY <1>0, <1>01, <1>3, OneMessage DEF from_child_hup, OtherFlags, FlagTypes, ResultTypes,
         OtherTypes
  <2>2. OtherTypes'
    BY <1>0, <1>01, <1>3, OneMessage DEF from_child_hup, OtherTypes, FlagTypes, ResultTypes,
         OtherFlags
  <2>3. TurnAuth'
    BY <1>0, <1>01, <1>3, OneMessage DEF from_child_hup, TurnAuth, FlagTypes, ResultTypes,
         OtherFlags, OtherTypes
  <2>4. TurnConv'
    BY <1>0, <1>01, <1>3, OneMessage DEF from_child_hup, TurnConv, FlagTypes, ResultTypes,
         OtherFlags, OtherTypes
  <2>5. TurnWait'
    BY <1>0, <1>01, <1>3, OneMessage DEF from_child_hup, TurnWait, is_authenticated, FlagTypes,
         ResultTypes, OtherFlags, OtherTypes
  <2>6. TurnOpen'
    BY <1>0, <1>01, <1>3, OneMessage DEF from_child_hup, TurnOpen, Opened, is_authenticated,
         FlagTypes, ResultTypes, OtherFlags, OtherTypes
  <2>7. ObjectInv'
    BY <1>0, <1>01, <1>3, OneMessage DEF from_child_hup, ObjectInv, is_authenticated, Talks,
         FlagTypes, ResultTypes, OtherFlags, OtherTypes
  <2>8. NoneRunning'
    BY <1>0, <1>01, <1>3, TailElements, AppendElements DEF from_child_hup, NoneRunning, FromOrder,
         ObjectInv, Talks, Opened, Answers, Commands, Expected, is_authenticated, ResultOrder,
         FlagTypes, ResultTypes, OtherFlags, OtherTypes, PCs
  <2>9. GuestAccountInv'
    BY <1>0, <1>01, <1>3, OneMessage DEF from_child_hup, GuestAccountInv, FlagTypes, ResultTypes,
         OtherTypes
  <2>10. FromOrder'
    BY <1>0, <1>01, <1>3, TailElements, AppendElements DEF from_child_hup, FromOrder, Talks,
         Opened, Results, is_authenticated, ObjectInv, ResultOrder, ResultCount, FlagTypes,
         ResultTypes, OtherFlags, OtherTypes, PCs
  <2> QED BY <1>00, <2>1, <2>2, <2>3, <2>4, <2>5, <2>6, <2>7, <2>8, <2>9, <2>10 DEF PipeIInv
<1>4. CASE session_watch_cb
  <2>1. OtherFlags'
    BY <1>0, <1>01, <1>4, OneMessage DEF session_watch_cb, idle, is_guest,
         emit_authentication_complete, emit_stopped, OtherFlags, FlagTypes, ResultTypes, OtherTypes,
         ObjectInv
  <2>2. OtherTypes'
    BY <1>0, <1>01, <1>4, OneMessage DEF session_watch_cb, idle, is_guest,
         emit_authentication_complete, emit_stopped, OtherTypes, FlagTypes, ResultTypes, OtherFlags,
         ObjectInv
  <2>3. TurnAuth'
    BY <1>0, <1>01, <1>4, OneMessage DEF session_watch_cb, idle, is_guest,
         emit_authentication_complete, emit_stopped, TurnAuth, FlagTypes, ResultTypes, OtherFlags,
         OtherTypes, ObjectInv
  <2>4. TurnConv'
    BY <1>0, <1>01, <1>4, OneMessage DEF session_watch_cb, idle, is_guest,
         emit_authentication_complete, emit_stopped, TurnConv, FlagTypes, ResultTypes, OtherFlags,
         OtherTypes, ObjectInv
  <2>5. TurnWait'
    BY <1>0, <1>01, <1>4, OneMessage DEF session_watch_cb, idle, is_guest,
         emit_authentication_complete, emit_stopped, TurnWait, is_authenticated, FlagTypes,
         ResultTypes, OtherFlags, OtherTypes, ObjectInv
  <2>6. TurnOpen'
    BY <1>0, <1>01, <1>4, OneMessage DEF session_watch_cb, idle, is_guest,
         emit_authentication_complete, emit_stopped, TurnOpen, Opened, is_authenticated, FlagTypes,
         ResultTypes, OtherFlags, OtherTypes, ObjectInv
  <2>7. ObjectInv'
    BY <1>0, <1>01, <1>4, OneMessage DEF session_watch_cb, idle, is_guest,
         emit_authentication_complete, emit_stopped, ObjectInv, is_authenticated, Talks, FlagTypes,
         ResultTypes, OtherFlags, OtherTypes
  <2>8. NoneRunning'
    BY <1>0, <1>01, <1>4, TailElements, AppendElements DEF session_watch_cb, idle, is_guest,
         emit_authentication_complete, emit_stopped, NoneRunning, FromOrder, ObjectInv, Talks,
         Opened, Answers, Commands, Expected, is_authenticated, ResultOrder, FlagTypes,
         ResultTypes, OtherFlags, OtherTypes, PCs
  <2>9. GuestAccountInv'
    BY <1>0, <1>01, <1>4, OneMessage DEF session_watch_cb, idle, is_guest,
         emit_authentication_complete, emit_stopped, GuestAccountInv, FlagTypes, ResultTypes,
         OtherTypes
  <2>10. FromOrder'
    BY <1>0, <1>01, <1>4, TailElements, AppendElements DEF session_watch_cb, idle, is_guest,
         emit_authentication_complete, emit_stopped, FromOrder, Talks, Opened, Results,
         is_authenticated, ObjectInv, ResultOrder, ResultCount, FlagTypes, ResultTypes,
         OtherFlags, OtherTypes, PCs
  <2> QED BY <1>00, <2>1, <2>2, <2>3, <2>4, <2>5, <2>6, <2>7, <2>8, <2>9, <2>10 DEF PipeIInv
<1>5. ASSUME NEW answer \in Answers, session_respond(answer) PROVE PipeIInv'
  <2>1. OtherFlags'
    BY <1>0, <1>01, <1>5, OneMessage DEF session_respond, idle, Answers, Commands, OtherFlags,
         FlagTypes, ResultTypes, OtherTypes
  <2>2. OtherTypes'
    BY <1>0, <1>01, <1>5, OneMessage DEF session_respond, idle, Answers, Commands, OtherTypes,
         FlagTypes, ResultTypes, OtherFlags
  <2>3. TurnAuth'
    BY <1>0, <1>01, <1>5, OneMessage DEF session_respond, idle, Answers, Commands, TurnAuth,
         TurnConv, TurnWait, TurnOpen, Opened, ObjectInv, is_authenticated, Talks, NoneRunning,
         ResultOrder, ResultCount, FlagTypes, ResultTypes, OtherFlags, OtherTypes, PCs
  <2>4. TurnConv'
    <3> SUFFICES ASSUME pc = "conv", unasked' = 0
                 PROVE  from_child' = <<>> /\ messages' # "asked" /\ to_child' = <<answer>>
      BY <1>5 DEF session_respond, TurnConv
    <3>1. messages = "asked" /\ unasked = 0
      BY <1>0, <1>5 DEF session_respond, OtherTypes
    <3>2. from_child = <<>> /\ to_child = <<>>
      BY <1>0, <3>1 DEF TurnConv
    <3> QED BY <1>5, <3>1, <3>2, OneMessage DEF session_respond, Answers
  <2>5. TurnWait'
    BY <1>0, <1>01, <1>5, OneMessage DEF session_respond, idle, Answers, Commands, TurnAuth,
         TurnConv, TurnWait, TurnOpen, Opened, ObjectInv, is_authenticated, Talks, NoneRunning,
         ResultOrder, ResultCount, FlagTypes, ResultTypes, OtherFlags, OtherTypes, PCs
  <2>6. TurnOpen'
    BY <1>0, <1>01, <1>5, OneMessage DEF session_respond, idle, Answers, Commands, TurnAuth,
         TurnConv, TurnWait, TurnOpen, Opened, ObjectInv, is_authenticated, Talks, NoneRunning,
         ResultOrder, ResultCount, FlagTypes, ResultTypes, OtherFlags, OtherTypes, PCs
  <2>7. ObjectInv'
    BY <1>0, <1>01, <1>5, OneMessage DEF session_respond, idle, Answers, Commands, TurnAuth,
         TurnConv, TurnWait, TurnOpen, Opened, ObjectInv, is_authenticated, Talks, NoneRunning,
         ResultOrder, ResultCount, FlagTypes, ResultTypes, OtherFlags, OtherTypes, PCs
  <2>8. NoneRunning'
    <3>1. PICK m \in Answers \union {"bare"} : to_child' = Append(to_child, m)
      BY <1>5 DEF session_respond, Answers
    <3>2. \A i \in 1..Len(to_child') :
            \/ i \in 1..Len(to_child) /\ to_child'[i] = to_child[i]
            \/ to_child'[i] = m
      BY <1>0, <3>1, AppendElements DEF OtherTypes
    <3>3. m \notin Commands
      BY DEF Answers, Commands
    <3> QED BY <1>0, <1>5, <3>2, <3>3 DEF session_respond, NoneRunning, Commands
  <2>9. GuestAccountInv'
    BY <1>0, <1>01, <1>5, OneMessage DEF session_respond, idle, Answers, Commands, GuestAccountInv,
         FlagTypes, ResultTypes, OtherTypes
  <2>10. FromOrder'
    BY <1>0, <1>01, <1>5, TailElements, AppendElements DEF session_respond, idle, Answers,
         Commands, FromOrder, Talks, Opened, Results, is_authenticated, ObjectInv, ResultOrder,
         ResultCount, FlagTypes, ResultTypes, OtherFlags, OtherTypes, PCs
  <2> QED BY <1>00, <2>1, <2>2, <2>3, <2>4, <2>5, <2>6, <2>7, <2>8, <2>9, <2>10 DEF PipeIInv
<1>6. CASE session_run
  <2>1. OtherFlags'
    BY <1>0, <1>01, <1>6, OneMessage DEF session_run, idle, is_authenticated, Answers, Commands,
         OtherFlags, FlagTypes, ResultTypes, OtherTypes
  <2>2. OtherTypes'
    BY <1>0, <1>01, <1>6, OneMessage DEF session_run, idle, is_authenticated, Answers, Commands,
         OtherTypes, FlagTypes, ResultTypes, OtherFlags
  <2>3. TurnAuth'
    BY <1>0, <1>01, <1>6, OneMessage DEF session_run, idle, is_authenticated, Answers, Commands,
         TurnAuth, TurnConv, TurnWait, TurnOpen, Opened, ObjectInv, Talks, NoneRunning,
         ResultOrder, ResultCount, FlagTypes, ResultTypes, OtherFlags, OtherTypes, PCs
  <2>4. TurnConv'
    BY <1>0, <1>01, <1>6, OneMessage DEF session_run, idle, is_authenticated, Answers, Commands,
         TurnAuth, TurnConv, TurnWait, TurnOpen, Opened, ObjectInv, Talks, NoneRunning,
         ResultOrder, ResultCount, FlagTypes, ResultTypes, OtherFlags, OtherTypes, PCs
  <2>5. TurnWait'
    BY <1>0, <1>01, <1>6, OneMessage DEF session_run, idle, is_authenticated, Answers, Commands,
         TurnAuth, TurnConv, TurnWait, TurnOpen, Opened, ObjectInv, Talks, NoneRunning,
         ResultOrder, ResultCount, FlagTypes, ResultTypes, OtherFlags, OtherTypes, PCs
  <2>6. TurnOpen'
    BY <1>0, <1>01, <1>6, OneMessage DEF session_run, idle, is_authenticated, Answers, Commands,
         TurnAuth, TurnConv, TurnWait, TurnOpen, Opened, ObjectInv, Talks, NoneRunning,
         ResultOrder, ResultCount, FlagTypes, ResultTypes, OtherFlags, OtherTypes, PCs
  <2>7. ObjectInv'
    BY <1>0, <1>01, <1>6, OneMessage DEF session_run, idle, is_authenticated, Answers, Commands,
         TurnAuth, TurnConv, TurnWait, TurnOpen, Opened, ObjectInv, Talks, NoneRunning,
         ResultOrder, ResultCount, FlagTypes, ResultTypes, OtherFlags, OtherTypes, PCs
  <2>8. NoneRunning'
    BY <1>0, <1>01, <1>6, TailElements, AppendElements DEF session_run, idle, is_authenticated,
         Answers, Commands, NoneRunning, FromOrder, ObjectInv, Talks, Opened, Expected,
         ResultOrder, FlagTypes, ResultTypes, OtherFlags, OtherTypes, PCs
  <2>9. GuestAccountInv'
    BY <1>0, <1>01, <1>6, OneMessage DEF session_run, idle, is_authenticated, Answers, Commands,
         GuestAccountInv, FlagTypes, ResultTypes, OtherTypes
  <2>10. FromOrder'
    BY <1>0, <1>01, <1>6, TailElements, AppendElements DEF session_run, idle, is_authenticated,
         Answers, Commands, FromOrder, Talks, Opened, Results, ObjectInv, ResultOrder,
         ResultCount, FlagTypes, ResultTypes, OtherFlags, OtherTypes, PCs
  <2> QED BY <1>00, <2>1, <2>2, <2>3, <2>4, <2>5, <2>6, <2>7, <2>8, <2>9, <2>10 DEF PipeIInv
<1>7. CASE session_run_returns
  <2>1. OtherFlags'
    BY <1>0, <1>01, <1>7, OneMessage DEF session_run_returns, OtherFlags, FlagTypes, ResultTypes,
         OtherTypes
  <2>2. OtherTypes'
    BY <1>0, <1>01, <1>7, OneMessage DEF session_run_returns, OtherTypes, FlagTypes, ResultTypes,
         OtherFlags
  <2>3. TurnAuth'
    BY <1>0, <1>01, <1>7, OneMessage DEF session_run_returns, TurnAuth, TurnConv, TurnWait,
         TurnOpen, Opened, ObjectInv, is_authenticated, Talks, NoneRunning, ResultOrder,
         ResultCount, FlagTypes, ResultTypes, OtherFlags, OtherTypes, PCs
  <2>4. TurnConv'
    BY <1>0, <1>01, <1>7, OneMessage DEF session_run_returns, TurnAuth, TurnConv, TurnWait,
         TurnOpen, Opened, ObjectInv, is_authenticated, Talks, NoneRunning, ResultOrder,
         ResultCount, FlagTypes, ResultTypes, OtherFlags, OtherTypes, PCs
  <2>5. TurnWait'
    BY <1>0, <1>01, <1>7, OneMessage DEF session_run_returns, TurnAuth, TurnConv, TurnWait,
         TurnOpen, Opened, ObjectInv, is_authenticated, Talks, NoneRunning, ResultOrder,
         ResultCount, FlagTypes, ResultTypes, OtherFlags, OtherTypes, PCs
  <2>6. TurnOpen'
    BY <1>0, <1>01, <1>7, OneMessage DEF session_run_returns, TurnAuth, TurnConv, TurnWait,
         TurnOpen, Opened, ObjectInv, is_authenticated, Talks, NoneRunning, ResultOrder,
         ResultCount, FlagTypes, ResultTypes, OtherFlags, OtherTypes, PCs
  <2>7. ObjectInv'
    BY <1>0, <1>01, <1>7, OneMessage DEF session_run_returns, TurnAuth, TurnConv, TurnWait,
         TurnOpen, Opened, ObjectInv, is_authenticated, Talks, NoneRunning, ResultOrder,
         ResultCount, FlagTypes, ResultTypes, OtherFlags, OtherTypes, PCs
  <2>8. NoneRunning'
    BY <1>0, <1>01, <1>7, TailElements, AppendElements DEF session_run_returns, NoneRunning,
         FromOrder, ObjectInv, Talks, Opened, Answers, Commands, Expected, is_authenticated,
         ResultOrder, FlagTypes, ResultTypes, OtherFlags, OtherTypes, PCs
  <2>9. GuestAccountInv'
    BY <1>0, <1>01, <1>7, OneMessage DEF session_run_returns, GuestAccountInv, FlagTypes,
         ResultTypes, OtherTypes
  <2>10. FromOrder'
    BY <1>0, <1>01, <1>7, TailElements, AppendElements DEF session_run_returns, FromOrder, Talks,
         Opened, Results, is_authenticated, ObjectInv, ResultOrder, ResultCount, FlagTypes,
         ResultTypes, OtherFlags, OtherTypes, PCs
  <2> QED BY <1>00, <2>1, <2>2, <2>3, <2>4, <2>5, <2>6, <2>7, <2>8, <2>9, <2>10 DEF PipeIInv
<1>8. CASE session_stop
  <2>1. OtherFlags'
    BY <1>0, <1>01, <1>8, OneMessage DEF session_stop, idle, is_authenticated, SigTerm,
         emit_stopped, Answers, Commands, OtherFlags, FlagTypes, ResultTypes, OtherTypes
  <2>2. OtherTypes'
    BY <1>0, <1>01, <1>8, OneMessage DEF session_stop, idle, is_authenticated, SigTerm,
         emit_stopped, Answers, Commands, OtherTypes, FlagTypes, ResultTypes, OtherFlags
  <2>3. TurnAuth'
    BY <1>0, <1>01, <1>8, OneMessage DEF session_stop, idle, is_authenticated, SigTerm,
         emit_stopped, Answers, Commands, TurnAuth, TurnConv, TurnWait, TurnOpen, Opened, ObjectInv,
         Talks, NoneRunning, ResultOrder, ResultCount, FlagTypes, ResultTypes, OtherFlags,
         OtherTypes, PCs
  <2>4. TurnConv'
    BY <1>0, <1>01, <1>8, OneMessage DEF session_stop, idle, is_authenticated, SigTerm,
         emit_stopped, Answers, Commands, TurnAuth, TurnConv, TurnWait, TurnOpen, Opened, ObjectInv,
         Talks, NoneRunning, ResultOrder, ResultCount, FlagTypes, ResultTypes, OtherFlags,
         OtherTypes, PCs
  <2>5. TurnWait'
    BY <1>0, <1>01, <1>8, OneMessage DEF session_stop, idle, is_authenticated, SigTerm,
         emit_stopped, Answers, Commands, TurnAuth, TurnConv, TurnWait, TurnOpen, Opened, ObjectInv,
         Talks, NoneRunning, ResultOrder, ResultCount, FlagTypes, ResultTypes, OtherFlags,
         OtherTypes, PCs
  <2>6. TurnOpen'
    BY <1>0, <1>01, <1>8, OneMessage DEF session_stop, idle, is_authenticated, SigTerm,
         emit_stopped, Answers, Commands, TurnAuth, TurnConv, TurnWait, TurnOpen, Opened, ObjectInv,
         Talks, NoneRunning, ResultOrder, ResultCount, FlagTypes, ResultTypes, OtherFlags,
         OtherTypes, PCs
  <2>7. ObjectInv'
    BY <1>0, <1>01, <1>8, OneMessage DEF session_stop, idle, is_authenticated, SigTerm,
         emit_stopped, Answers, Commands, TurnAuth, TurnConv, TurnWait, TurnOpen, Opened, ObjectInv,
         Talks, NoneRunning, ResultOrder, ResultCount, FlagTypes, ResultTypes, OtherFlags,
         OtherTypes, PCs
  <2>8. NoneRunning'
    <3>1. CASE is_authenticated /\ ~command_run
      <4>1. /\ stopping' = TRUE /\ stopped_unrun' = TRUE /\ command_run' = TRUE
            /\ to_child' = Append(to_child, "empty")
            /\ UNCHANGED <<pc, cmd, lost>>
        BY <1>0, <1>8, <3>1 DEF session_stop, OtherFlags
      <4>2. \A i \in 1..Len(to_child') :
              \/ i \in 1..Len(to_child) /\ to_child'[i] = to_child[i]
              \/ to_child'[i] = "empty"
        BY <1>0, <4>1, AppendElements DEF OtherTypes, Commands
      <4>3. \A i \in 1..Len(to_child') : to_child'[i] # "command"
        BY <1>0, <3>1, <4>2 DEF NoneRunning, Commands
      <4>4. pc \notin Talks
        BY <1>01, <3>1 DEF ResultOrder, Talks, is_authenticated
      <4> QED BY <1>0, <1>01, <3>1, <4>1, <4>3, <4>4
           DEF NoneRunning, Talks, Opened, ResultTypes, PCs
    <3>2. CASE ~(is_authenticated /\ ~command_run)
      <4>1. UNCHANGED <<to_child, command_run, cmd, lost>> /\ stopping' = TRUE
        BY <1>8, <3>2 DEF session_stop
      <4>2. stopped_unrun' = ~command_run
        BY <1>8 DEF session_stop
      <4>3. \/ pid = "child" /\ pc' = IF pc \in {"run", "exited"} THEN pc ELSE "exited"
            \/ pid # "child" /\ pc' = pc
        BY <1>8, <3>2 DEF session_stop, SigTerm
      <4>4. pid # "child" => pc \in {"none", "reaped"}
        BY <1>0 DEF ObjectInv
      <4> QED BY <1>0, <4>1, <4>2, <4>3, <4>4 DEF NoneRunning, Opened
    <3> QED BY <3>1, <3>2
  <2>9. GuestAccountInv'
    BY <1>0, <1>01, <1>8, OneMessage DEF session_stop, idle, is_authenticated, SigTerm,
         emit_stopped, Answers, Commands, GuestAccountInv, FlagTypes, ResultTypes, OtherTypes
  <2>10. FromOrder'
    BY <1>0, <1>01, <1>8, TailElements, AppendElements DEF session_stop, idle, is_authenticated,
         SigTerm, emit_stopped, Answers, Commands, FromOrder, Talks, Opened, Results, ObjectInv,
         ResultOrder, ResultCount, FlagTypes, ResultTypes, OtherFlags, OtherTypes, PCs
  <2> QED BY <1>00, <2>1, <2>2, <2>3, <2>4, <2>5, <2>6, <2>7, <2>8, <2>9, <2>10 DEF PipeIInv
<1>9. CASE owner_unref
  <2>1. OtherFlags'
    BY <1>0, <1>01, <1>9, OneMessage DEF owner_unref, OtherFlags, FlagTypes, ResultTypes, OtherTypes
  <2>2. OtherTypes'
    BY <1>0, <1>01, <1>9, OneMessage DEF owner_unref, OtherTypes, FlagTypes, ResultTypes, OtherFlags
  <2>3. TurnAuth'
    BY <1>0, <1>01, <1>9, OneMessage DEF owner_unref, TurnAuth, FlagTypes, ResultTypes, OtherFlags,
         OtherTypes
  <2>4. TurnConv'
    BY <1>0, <1>01, <1>9, OneMessage DEF owner_unref, TurnConv, FlagTypes, ResultTypes, OtherFlags,
         OtherTypes
  <2>5. TurnWait'
    BY <1>0, <1>01, <1>9, OneMessage DEF owner_unref, TurnWait, is_authenticated, FlagTypes,
         ResultTypes, OtherFlags, OtherTypes
  <2>6. TurnOpen'
    BY <1>0, <1>01, <1>9, OneMessage DEF owner_unref, TurnOpen, Opened, is_authenticated, FlagTypes,
         ResultTypes, OtherFlags, OtherTypes
  <2>7. ObjectInv'
    BY <1>0, <1>01, <1>9, OneMessage DEF owner_unref, ObjectInv, is_authenticated, Talks, FlagTypes,
         ResultTypes, OtherFlags, OtherTypes
  <2>8. NoneRunning'
    BY <1>0, <1>01, <1>9, TailElements, AppendElements DEF owner_unref, NoneRunning, FromOrder,
         ObjectInv, Talks, Opened, Answers, Commands, Expected, is_authenticated, ResultOrder,
         FlagTypes, ResultTypes, OtherFlags, OtherTypes, PCs
  <2>9. GuestAccountInv'
    BY <1>0, <1>01, <1>9, OneMessage DEF owner_unref, GuestAccountInv, FlagTypes, ResultTypes,
         OtherTypes
  <2>10. FromOrder'
    BY <1>0, <1>01, <1>9, TailElements, AppendElements DEF owner_unref, FromOrder, Talks, Opened,
         Results, is_authenticated, ObjectInv, ResultOrder, ResultCount, FlagTypes, ResultTypes,
         OtherFlags, OtherTypes, PCs
  <2> QED BY <1>00, <2>1, <2>2, <2>3, <2>4, <2>5, <2>6, <2>7, <2>8, <2>9, <2>10 DEF PipeIInv
<1>10. CASE pam_conv_cb
  <2>1. OtherFlags'
    BY <1>0, <1>01, <1>10, OneMessage DEF pam_conv_cb, objectVars, OtherFlags, FlagTypes,
         ResultTypes, OtherTypes, TurnAuth, ObjectInv, ResultOrder
  <2>2. OtherTypes'
    BY <1>0, <1>01, <1>10, OneMessage DEF pam_conv_cb, objectVars, OtherTypes, FlagTypes,
         ResultTypes, OtherFlags, TurnAuth, ObjectInv, ResultOrder
  <2>3. TurnAuth'
    BY <1>0, <1>01, <1>10, OneMessage DEF pam_conv_cb, objectVars, TurnAuth, FlagTypes, ResultTypes,
         OtherFlags, OtherTypes, ObjectInv, ResultOrder
  <2>4. TurnConv'
    BY <1>0, <1>01, <1>10, OneMessage DEF pam_conv_cb, objectVars, TurnConv, FlagTypes, ResultTypes,
         OtherFlags, OtherTypes, TurnAuth, ObjectInv, ResultOrder
  <2>5. TurnWait'
    BY <1>0, <1>01, <1>10, OneMessage DEF pam_conv_cb, objectVars, TurnWait, is_authenticated,
         FlagTypes, ResultTypes, OtherFlags, OtherTypes, TurnAuth, ObjectInv, ResultOrder
  <2>6. TurnOpen'
    BY <1>0, <1>01, <1>10, OneMessage DEF pam_conv_cb, objectVars, TurnOpen, Opened,
         is_authenticated, FlagTypes, ResultTypes, OtherFlags, OtherTypes, TurnAuth, ObjectInv,
         ResultOrder
  <2>7. ObjectInv'
    BY <1>0, <1>01, <1>10, OneMessage DEF pam_conv_cb, objectVars, ObjectInv, is_authenticated,
         Talks, FlagTypes, ResultTypes, OtherFlags, OtherTypes, TurnAuth, ResultOrder
  <2>8. NoneRunning'
    BY <1>0, <1>01, <1>10, TailElements, AppendElements DEF pam_conv_cb, objectVars, NoneRunning,
         FromOrder, ObjectInv, Talks, Opened, Answers, Commands, Expected, is_authenticated,
         ResultOrder, FlagTypes, ResultTypes, OtherFlags, OtherTypes, PCs
  <2>9. GuestAccountInv'
    BY <1>0, <1>01, <1>10, OneMessage DEF pam_conv_cb, objectVars, GuestAccountInv, FlagTypes,
         ResultTypes, OtherTypes
  <2>10. FromOrder'
    BY <1>0, <1>01, <1>10, TailElements, AppendElements DEF pam_conv_cb, objectVars, FromOrder,
         Talks, Opened, Results, is_authenticated, ObjectInv, ResultOrder, ResultCount, FlagTypes,
         ResultTypes, OtherFlags, OtherTypes, PCs
  <2> QED BY <1>00, <2>1, <2>2, <2>3, <2>4, <2>5, <2>6, <2>7, <2>8, <2>9, <2>10 DEF PipeIInv
<1>11. ASSUME NEW ok \in BOOLEAN, authenticated(ok) PROVE PipeIInv'
  <2>1. OtherFlags'
    BY <1>0, <1>01, <1>11, OneMessage DEF authenticated, objectVars, Results, OtherFlags, FlagTypes,
         ResultTypes, OtherTypes, TurnAuth, ObjectInv, ResultOrder
  <2>2. OtherTypes'
    BY <1>0, <1>01, <1>11, OneMessage DEF authenticated, objectVars, Results, OtherTypes, FlagTypes,
         ResultTypes, OtherFlags, TurnAuth, ObjectInv, ResultOrder
  <2>3. TurnAuth'
    BY <1>0, <1>01, <1>11, OneMessage DEF authenticated, objectVars, Results, TurnAuth, FlagTypes,
         ResultTypes, OtherFlags, OtherTypes, ObjectInv, ResultOrder
  <2>4. TurnConv'
    BY <1>0, <1>01, <1>11, OneMessage DEF authenticated, objectVars, Results, TurnConv, FlagTypes,
         ResultTypes, OtherFlags, OtherTypes, TurnAuth, ObjectInv, ResultOrder
  <2>5. TurnWait'
    <3> SUFFICES ASSUME pc' = "wait", unasked' = 0
                 PROVE  /\ messages' # "asked" /\ ~complete' /\ from_child' = <<"result_ok">>
                        /\ to_child' = <<>> /\ ~command_run'
      BY DEF TurnWait
    <3>1. pc = "auth" /\ unasked = 0 /\ ok /\ from_child' = Append(from_child, "result_ok")
      BY <1>11 DEF authenticated, objectVars
    <3>2. from_child = <<>> /\ to_child = <<>> /\ messages # "asked" /\ ~complete /\ ~command_run
      BY <1>0, <1>01, <3>1 DEF TurnAuth, ResultOrder, ObjectInv, Talks
    <3>3. from_child' = <<"result_ok">>
      BY <3>1, <3>2, OneMessage
    <3> QED BY <1>11, <3>2, <3>3 DEF authenticated, objectVars
  <2>6. TurnOpen'
    BY <1>0, <1>01, <1>11, OneMessage DEF authenticated, objectVars, Results, TurnOpen, Opened,
         is_authenticated, FlagTypes, ResultTypes, OtherFlags, OtherTypes, TurnAuth, ObjectInv,
         ResultOrder
  <2>7. ObjectInv'
    BY <1>0, <1>01, <1>11, OneMessage DEF authenticated, objectVars, Results, ObjectInv,
         is_authenticated, Talks, FlagTypes, ResultTypes, OtherFlags, OtherTypes, TurnAuth,
         ResultOrder
  <2>8. NoneRunning'
    BY <1>0, <1>01, <1>11, TailElements, AppendElements DEF authenticated, objectVars, Results,
         NoneRunning, FromOrder, ObjectInv, Talks, Opened, Answers, Commands, Expected,
         is_authenticated, ResultOrder, FlagTypes, ResultTypes, OtherFlags, OtherTypes, PCs
  <2>9. GuestAccountInv'
    BY <1>0, <1>01, <1>11, OneMessage DEF authenticated, objectVars, Results, GuestAccountInv,
         FlagTypes, ResultTypes, OtherTypes
  <2>10. FromOrder'
    BY <1>0, <1>01, <1>11, TailElements, AppendElements DEF authenticated, objectVars, Results,
         FromOrder, Talks, Opened, is_authenticated, ObjectInv, ResultOrder, ResultCount,
         FlagTypes, ResultTypes, OtherFlags, OtherTypes, PCs
  <2> QED BY <1>00, <2>1, <2>2, <2>3, <2>4, <2>5, <2>6, <2>7, <2>8, <2>9, <2>10 DEF PipeIInv
<1>12. CASE child_fails
  <2>1. OtherFlags'
    BY <1>0, <1>01, <1>12, OneMessage DEF child_fails, objectVars, OtherFlags, FlagTypes,
         ResultTypes, OtherTypes
  <2>2. OtherTypes'
    BY <1>0, <1>01, <1>12, OneMessage DEF child_fails, objectVars, OtherTypes, FlagTypes,
         ResultTypes, OtherFlags
  <2>3. TurnAuth'
    BY <1>0, <1>01, <1>12, OneMessage DEF child_fails, objectVars, TurnAuth, TurnConv, TurnWait,
         TurnOpen, Opened, ObjectInv, is_authenticated, Talks, NoneRunning, ResultOrder,
         ResultCount, FlagTypes, ResultTypes, OtherFlags, OtherTypes, PCs
  <2>4. TurnConv'
    BY <1>0, <1>01, <1>12, OneMessage DEF child_fails, objectVars, TurnAuth, TurnConv, TurnWait,
         TurnOpen, Opened, ObjectInv, is_authenticated, Talks, NoneRunning, ResultOrder,
         ResultCount, FlagTypes, ResultTypes, OtherFlags, OtherTypes, PCs
  <2>5. TurnWait'
    BY <1>0, <1>01, <1>12, OneMessage DEF child_fails, objectVars, TurnAuth, TurnConv, TurnWait,
         TurnOpen, Opened, ObjectInv, is_authenticated, Talks, NoneRunning, ResultOrder,
         ResultCount, FlagTypes, ResultTypes, OtherFlags, OtherTypes, PCs
  <2>6. TurnOpen'
    BY <1>0, <1>01, <1>12, OneMessage DEF child_fails, objectVars, TurnAuth, TurnConv, TurnWait,
         TurnOpen, Opened, ObjectInv, is_authenticated, Talks, NoneRunning, ResultOrder,
         ResultCount, FlagTypes, ResultTypes, OtherFlags, OtherTypes, PCs
  <2>7. ObjectInv'
    BY <1>0, <1>01, <1>12, OneMessage DEF child_fails, objectVars, TurnAuth, TurnConv, TurnWait,
         TurnOpen, Opened, ObjectInv, is_authenticated, Talks, NoneRunning, ResultOrder,
         ResultCount, FlagTypes, ResultTypes, OtherFlags, OtherTypes, PCs
  <2>8. NoneRunning'
    BY <1>0, <1>01, <1>12, TailElements, AppendElements DEF child_fails, objectVars, NoneRunning,
         FromOrder, ObjectInv, Talks, Opened, Answers, Commands, Expected, is_authenticated,
         ResultOrder, FlagTypes, ResultTypes, OtherFlags, OtherTypes, PCs
  <2>9. GuestAccountInv'
    BY <1>0, <1>01, <1>12, OneMessage DEF child_fails, objectVars, GuestAccountInv, FlagTypes,
         ResultTypes, OtherTypes
  <2>10. FromOrder'
    BY <1>0, <1>01, <1>12, TailElements, AppendElements DEF child_fails, objectVars, FromOrder,
         Talks, Opened, Results, is_authenticated, ObjectInv, ResultOrder, ResultCount, FlagTypes,
         ResultTypes, OtherFlags, OtherTypes, PCs
  <2> QED BY <1>00, <2>1, <2>2, <2>3, <2>4, <2>5, <2>6, <2>7, <2>8, <2>9, <2>10 DEF PipeIInv
<1>13. CASE pam_conv_answered
  <2>1. OtherFlags'
    BY <1>0, <1>01, <1>13, OneMessage DEF pam_conv_answered, objectVars, Answers, Commands,
         Expected,
         OtherFlags, FlagTypes, ResultTypes, OtherTypes
  <2>2. OtherTypes'
    BY <1>0, <1>01, <1>13, OneMessage DEF pam_conv_answered, objectVars, Answers, Commands,
         Expected,
         OtherTypes, FlagTypes, ResultTypes, OtherFlags
  <2>3. TurnAuth'
    BY <1>0, <1>01, <1>13, OneMessage DEF pam_conv_answered, objectVars, Answers, Commands,
         Expected,
         TurnAuth, TurnConv, TurnWait, TurnOpen, Opened, ObjectInv, is_authenticated, Talks,
         NoneRunning, ResultOrder, ResultCount, FlagTypes, ResultTypes, OtherFlags, OtherTypes, PCs
  <2>4. TurnConv'
    BY <1>0, <1>01, <1>13, OneMessage DEF pam_conv_answered, objectVars, Answers, Commands,
         Expected,
         TurnAuth, TurnConv, TurnWait, TurnOpen, Opened, ObjectInv, is_authenticated, Talks,
         NoneRunning, ResultOrder, ResultCount, FlagTypes, ResultTypes, OtherFlags, OtherTypes, PCs
  <2>5. TurnWait'
    BY <1>0, <1>01, <1>13, OneMessage DEF pam_conv_answered, objectVars, Answers, Commands,
         Expected,
         TurnAuth, TurnConv, TurnWait, TurnOpen, Opened, ObjectInv, is_authenticated, Talks,
         NoneRunning, ResultOrder, ResultCount, FlagTypes, ResultTypes, OtherFlags, OtherTypes, PCs
  <2>6. TurnOpen'
    BY <1>0, <1>01, <1>13, OneMessage DEF pam_conv_answered, objectVars, Answers, Commands,
         Expected,
         TurnAuth, TurnConv, TurnWait, TurnOpen, Opened, ObjectInv, is_authenticated, Talks,
         NoneRunning, ResultOrder, ResultCount, FlagTypes, ResultTypes, OtherFlags, OtherTypes, PCs
  <2>7. ObjectInv'
    BY <1>0, <1>01, <1>13, OneMessage DEF pam_conv_answered, objectVars, Answers, Commands,
         Expected,
         TurnAuth, TurnConv, TurnWait, TurnOpen, Opened, ObjectInv, is_authenticated, Talks,
         NoneRunning, ResultOrder, ResultCount, FlagTypes, ResultTypes, OtherFlags, OtherTypes, PCs
  <2>8. NoneRunning'
    BY <1>0, <1>01, <1>13, TailElements, AppendElements DEF pam_conv_answered, objectVars,
         Answers, Commands, Expected, NoneRunning, FromOrder, ObjectInv, Talks, Opened, Expected,
         is_authenticated, ResultOrder, FlagTypes, ResultTypes, OtherFlags, OtherTypes, PCs
  <2>9. GuestAccountInv'
    BY <1>0, <1>01, <1>13, OneMessage DEF pam_conv_answered, objectVars, Answers, Commands,
         Expected,
         GuestAccountInv, FlagTypes, ResultTypes, OtherTypes
  <2>10. FromOrder'
    BY <1>0, <1>01, <1>13, TailElements, AppendElements DEF pam_conv_answered, objectVars,
         Answers, Commands, Expected, FromOrder, Talks, Opened, Results, is_authenticated, ObjectInv,
         ResultOrder, ResultCount, FlagTypes, ResultTypes, OtherFlags, OtherTypes, PCs
  <2> QED BY <1>00, <2>1, <2>2, <2>3, <2>4, <2>5, <2>6, <2>7, <2>8, <2>9, <2>10 DEF PipeIInv
<1>14. CASE read_command
  <2>1. OtherFlags'
    BY <1>0, <1>01, <1>14, OneMessage DEF read_command, objectVars, Commands, OtherFlags, FlagTypes,
         ResultTypes, OtherTypes
  <2>2. OtherTypes'
    BY <1>0, <1>01, <1>14, OneMessage DEF read_command, objectVars, Commands, OtherTypes, FlagTypes,
         ResultTypes, OtherFlags
  <2>3. TurnAuth'
    BY <1>0, <1>01, <1>14, OneMessage DEF read_command, objectVars, Commands, TurnAuth, TurnConv,
         TurnWait, TurnOpen, Opened, ObjectInv, is_authenticated, Talks, NoneRunning, ResultOrder,
         ResultCount, FlagTypes, ResultTypes, OtherFlags, OtherTypes, PCs
  <2>4. TurnConv'
    BY <1>0, <1>01, <1>14, OneMessage DEF read_command, objectVars, Commands, TurnAuth, TurnConv,
         TurnWait, TurnOpen, Opened, ObjectInv, is_authenticated, Talks, NoneRunning, ResultOrder,
         ResultCount, FlagTypes, ResultTypes, OtherFlags, OtherTypes, PCs
  <2>5. TurnWait'
    BY <1>0, <1>01, <1>14, OneMessage DEF read_command, objectVars, Commands, TurnAuth, TurnConv,
         TurnWait, TurnOpen, Opened, ObjectInv, is_authenticated, Talks, NoneRunning, ResultOrder,
         ResultCount, FlagTypes, ResultTypes, OtherFlags, OtherTypes, PCs
  <2>6. TurnOpen'
    BY <1>0, <1>01, <1>14, OneMessage DEF read_command, objectVars, Commands, TurnAuth, TurnConv,
         TurnWait, TurnOpen, Opened, ObjectInv, is_authenticated, Talks, NoneRunning, ResultOrder,
         ResultCount, FlagTypes, ResultTypes, OtherFlags, OtherTypes, PCs
  <2>7. ObjectInv'
    BY <1>0, <1>01, <1>14, OneMessage DEF read_command, objectVars, Commands, TurnAuth, TurnConv,
         TurnWait, TurnOpen, Opened, ObjectInv, is_authenticated, Talks, NoneRunning, ResultOrder,
         ResultCount, FlagTypes, ResultTypes, OtherFlags, OtherTypes, PCs
  <2>8. NoneRunning'
    BY <1>0, <1>01, <1>14, TailElements, AppendElements DEF read_command, objectVars, Commands,
         NoneRunning, FromOrder, ObjectInv, Talks, Opened, Answers, Expected, is_authenticated,
         ResultOrder, FlagTypes, ResultTypes, OtherFlags, OtherTypes, PCs
  <2>9. GuestAccountInv'
    BY <1>0, <1>01, <1>14, OneMessage DEF read_command, objectVars, Commands, GuestAccountInv,
         FlagTypes, ResultTypes, OtherTypes
  <2>10. FromOrder'
    BY <1>0, <1>01, <1>14, TailElements, AppendElements DEF read_command, objectVars, Commands,
         FromOrder, Talks, Opened, Results, is_authenticated, ObjectInv, ResultOrder, ResultCount,
         FlagTypes, ResultTypes, OtherFlags, OtherTypes, PCs
  <2> QED BY <1>00, <2>1, <2>2, <2>3, <2>4, <2>5, <2>6, <2>7, <2>8, <2>9, <2>10 DEF PipeIInv
<1>15. CASE open_session
  <2>1. OtherFlags'
    BY <1>0, <1>01, <1>15, OneMessage DEF open_session, objectVars, OtherFlags, FlagTypes,
         ResultTypes, OtherTypes
  <2>2. OtherTypes'
    BY <1>0, <1>01, <1>15, OneMessage DEF open_session, objectVars, OtherTypes, FlagTypes,
         ResultTypes, OtherFlags
  <2>3. TurnAuth'
    BY <1>0, <1>01, <1>15, OneMessage DEF open_session, objectVars, TurnAuth, TurnConv, TurnWait,
         TurnOpen, Opened, ObjectInv, is_authenticated, Talks, NoneRunning, ResultOrder,
         ResultCount, FlagTypes, ResultTypes, OtherFlags, OtherTypes, PCs
  <2>4. TurnConv'
    BY <1>0, <1>01, <1>15, OneMessage DEF open_session, objectVars, TurnAuth, TurnConv, TurnWait,
         TurnOpen, Opened, ObjectInv, is_authenticated, Talks, NoneRunning, ResultOrder,
         ResultCount, FlagTypes, ResultTypes, OtherFlags, OtherTypes, PCs
  <2>5. TurnWait'
    BY <1>0, <1>01, <1>15, OneMessage DEF open_session, objectVars, TurnAuth, TurnConv, TurnWait,
         TurnOpen, Opened, ObjectInv, is_authenticated, Talks, NoneRunning, ResultOrder,
         ResultCount, FlagTypes, ResultTypes, OtherFlags, OtherTypes, PCs
  <2>6. TurnOpen'
    BY <1>0, <1>01, <1>15, OneMessage DEF open_session, objectVars, TurnAuth, TurnConv, TurnWait,
         TurnOpen, Opened, ObjectInv, is_authenticated, Talks, NoneRunning, ResultOrder,
         ResultCount, FlagTypes, ResultTypes, OtherFlags, OtherTypes, PCs
  <2>7. ObjectInv'
    BY <1>0, <1>01, <1>15, OneMessage DEF open_session, objectVars, TurnAuth, TurnConv, TurnWait,
         TurnOpen, Opened, ObjectInv, is_authenticated, Talks, NoneRunning, ResultOrder,
         ResultCount, FlagTypes, ResultTypes, OtherFlags, OtherTypes, PCs
  <2>8. NoneRunning'
    BY <1>0, <1>01, <1>15, TailElements, AppendElements DEF open_session, objectVars, NoneRunning,
         FromOrder, ObjectInv, Talks, Opened, Answers, Commands, Expected, is_authenticated,
         ResultOrder, FlagTypes, ResultTypes, OtherFlags, OtherTypes, PCs
  <2>9. GuestAccountInv'
    BY <1>0, <1>01, <1>15, OneMessage DEF open_session, objectVars, GuestAccountInv, FlagTypes,
         ResultTypes, OtherTypes
  <2>10. FromOrder'
    BY <1>0, <1>01, <1>15, TailElements, AppendElements DEF open_session, objectVars, FromOrder,
         Talks, Opened, Results, is_authenticated, ObjectInv, ResultOrder, ResultCount, FlagTypes,
         ResultTypes, OtherFlags, OtherTypes, PCs
  <2> QED BY <1>00, <2>1, <2>2, <2>3, <2>4, <2>5, <2>6, <2>7, <2>8, <2>9, <2>10 DEF PipeIInv
<1>16. CASE install_signal_cb
  <2>1. OtherFlags'
    BY <1>0, <1>01, <1>16, OneMessage DEF install_signal_cb, objectVars, OtherFlags, FlagTypes,
         ResultTypes, OtherTypes
  <2>2. OtherTypes'
    BY <1>0, <1>01, <1>16, OneMessage DEF install_signal_cb, objectVars, OtherTypes, FlagTypes,
         ResultTypes, OtherFlags
  <2>3. TurnAuth'
    BY <1>0, <1>01, <1>16, OneMessage DEF install_signal_cb, objectVars, TurnAuth, TurnConv,
         TurnWait, TurnOpen, Opened, ObjectInv, is_authenticated, Talks, NoneRunning, ResultOrder,
         ResultCount, FlagTypes, ResultTypes, OtherFlags, OtherTypes, PCs
  <2>4. TurnConv'
    BY <1>0, <1>01, <1>16, OneMessage DEF install_signal_cb, objectVars, TurnAuth, TurnConv,
         TurnWait, TurnOpen, Opened, ObjectInv, is_authenticated, Talks, NoneRunning, ResultOrder,
         ResultCount, FlagTypes, ResultTypes, OtherFlags, OtherTypes, PCs
  <2>5. TurnWait'
    BY <1>0, <1>01, <1>16, OneMessage DEF install_signal_cb, objectVars, TurnAuth, TurnConv,
         TurnWait, TurnOpen, Opened, ObjectInv, is_authenticated, Talks, NoneRunning, ResultOrder,
         ResultCount, FlagTypes, ResultTypes, OtherFlags, OtherTypes, PCs
  <2>6. TurnOpen'
    BY <1>0, <1>01, <1>16, OneMessage DEF install_signal_cb, objectVars, TurnAuth, TurnConv,
         TurnWait, TurnOpen, Opened, ObjectInv, is_authenticated, Talks, NoneRunning, ResultOrder,
         ResultCount, FlagTypes, ResultTypes, OtherFlags, OtherTypes, PCs
  <2>7. ObjectInv'
    BY <1>0, <1>01, <1>16, OneMessage DEF install_signal_cb, objectVars, TurnAuth, TurnConv,
         TurnWait, TurnOpen, Opened, ObjectInv, is_authenticated, Talks, NoneRunning, ResultOrder,
         ResultCount, FlagTypes, ResultTypes, OtherFlags, OtherTypes, PCs
  <2>8. NoneRunning'
    BY <1>0, <1>01, <1>16, TailElements, AppendElements DEF install_signal_cb, objectVars,
         NoneRunning, FromOrder, ObjectInv, Talks, Opened, Answers, Commands, Expected,
         is_authenticated, ResultOrder, FlagTypes, ResultTypes, OtherFlags, OtherTypes, PCs
  <2>9. GuestAccountInv'
    BY <1>0, <1>01, <1>16, OneMessage DEF install_signal_cb, objectVars, GuestAccountInv, FlagTypes,
         ResultTypes, OtherTypes
  <2>10. FromOrder'
    BY <1>0, <1>01, <1>16, TailElements, AppendElements DEF install_signal_cb, objectVars,
         FromOrder, Talks, Opened, Results, is_authenticated, ObjectInv, ResultOrder, ResultCount,
         FlagTypes, ResultTypes, OtherFlags, OtherTypes, PCs
  <2> QED BY <1>00, <2>1, <2>2, <2>3, <2>4, <2>5, <2>6, <2>7, <2>8, <2>9, <2>10 DEF PipeIInv
<1>17. CASE fork_command
  <2>1. OtherFlags'
    BY <1>0, <1>01, <1>17, OneMessage DEF fork_command, objectVars, OtherFlags, FlagTypes,
         ResultTypes, OtherTypes
  <2>2. OtherTypes'
    BY <1>0, <1>01, <1>17, OneMessage DEF fork_command, objectVars, OtherTypes, FlagTypes,
         ResultTypes, OtherFlags
  <2>3. TurnAuth'
    BY <1>0, <1>01, <1>17, OneMessage DEF fork_command, objectVars, TurnAuth, TurnConv, TurnWait,
         TurnOpen, Opened, ObjectInv, is_authenticated, Talks, NoneRunning, ResultOrder,
         ResultCount, FlagTypes, ResultTypes, OtherFlags, OtherTypes, PCs
  <2>4. TurnConv'
    BY <1>0, <1>01, <1>17, OneMessage DEF fork_command, objectVars, TurnAuth, TurnConv, TurnWait,
         TurnOpen, Opened, ObjectInv, is_authenticated, Talks, NoneRunning, ResultOrder,
         ResultCount, FlagTypes, ResultTypes, OtherFlags, OtherTypes, PCs
  <2>5. TurnWait'
    BY <1>0, <1>01, <1>17, OneMessage DEF fork_command, objectVars, TurnAuth, TurnConv, TurnWait,
         TurnOpen, Opened, ObjectInv, is_authenticated, Talks, NoneRunning, ResultOrder,
         ResultCount, FlagTypes, ResultTypes, OtherFlags, OtherTypes, PCs
  <2>6. TurnOpen'
    BY <1>0, <1>01, <1>17, OneMessage DEF fork_command, objectVars, TurnAuth, TurnConv, TurnWait,
         TurnOpen, Opened, ObjectInv, is_authenticated, Talks, NoneRunning, ResultOrder,
         ResultCount, FlagTypes, ResultTypes, OtherFlags, OtherTypes, PCs
  <2>7. ObjectInv'
    BY <1>0, <1>01, <1>17, OneMessage DEF fork_command, objectVars, TurnAuth, TurnConv, TurnWait,
         TurnOpen, Opened, ObjectInv, is_authenticated, Talks, NoneRunning, ResultOrder,
         ResultCount, FlagTypes, ResultTypes, OtherFlags, OtherTypes, PCs
  <2>8. NoneRunning'
    BY <1>0, <1>01, <1>17, TailElements, AppendElements DEF fork_command, objectVars, NoneRunning,
         FromOrder, ObjectInv, Talks, Opened, Answers, Commands, Expected, is_authenticated,
         ResultOrder, FlagTypes, ResultTypes, OtherFlags, OtherTypes, PCs
  <2>9. GuestAccountInv'
    BY <1>0, <1>01, <1>17, OneMessage DEF fork_command, objectVars, GuestAccountInv, FlagTypes,
         ResultTypes, OtherTypes
  <2>10. FromOrder'
    BY <1>0, <1>01, <1>17, TailElements, AppendElements DEF fork_command, objectVars, FromOrder,
         Talks, Opened, Results, is_authenticated, ObjectInv, ResultOrder, ResultCount, FlagTypes,
         ResultTypes, OtherFlags, OtherTypes, PCs
  <2> QED BY <1>00, <2>1, <2>2, <2>3, <2>4, <2>5, <2>6, <2>7, <2>8, <2>9, <2>10 DEF PipeIInv
<1>18. CASE set_child_pid
  <2>1. OtherFlags'
    BY <1>0, <1>01, <1>18, OneMessage DEF set_child_pid, objectVars, OtherFlags, FlagTypes,
         ResultTypes, OtherTypes
  <2>2. OtherTypes'
    BY <1>0, <1>01, <1>18, OneMessage DEF set_child_pid, objectVars, OtherTypes, FlagTypes,
         ResultTypes, OtherFlags
  <2>3. TurnAuth'
    BY <1>0, <1>01, <1>18, OneMessage DEF set_child_pid, objectVars, TurnAuth, TurnConv, TurnWait,
         TurnOpen, Opened, ObjectInv, is_authenticated, Talks, NoneRunning, ResultOrder,
         ResultCount, FlagTypes, ResultTypes, OtherFlags, OtherTypes, PCs
  <2>4. TurnConv'
    BY <1>0, <1>01, <1>18, OneMessage DEF set_child_pid, objectVars, TurnAuth, TurnConv, TurnWait,
         TurnOpen, Opened, ObjectInv, is_authenticated, Talks, NoneRunning, ResultOrder,
         ResultCount, FlagTypes, ResultTypes, OtherFlags, OtherTypes, PCs
  <2>5. TurnWait'
    BY <1>0, <1>01, <1>18, OneMessage DEF set_child_pid, objectVars, TurnAuth, TurnConv, TurnWait,
         TurnOpen, Opened, ObjectInv, is_authenticated, Talks, NoneRunning, ResultOrder,
         ResultCount, FlagTypes, ResultTypes, OtherFlags, OtherTypes, PCs
  <2>6. TurnOpen'
    BY <1>0, <1>01, <1>18, OneMessage DEF set_child_pid, objectVars, TurnAuth, TurnConv, TurnWait,
         TurnOpen, Opened, ObjectInv, is_authenticated, Talks, NoneRunning, ResultOrder,
         ResultCount, FlagTypes, ResultTypes, OtherFlags, OtherTypes, PCs
  <2>7. ObjectInv'
    BY <1>0, <1>01, <1>18, OneMessage DEF set_child_pid, objectVars, TurnAuth, TurnConv, TurnWait,
         TurnOpen, Opened, ObjectInv, is_authenticated, Talks, NoneRunning, ResultOrder,
         ResultCount, FlagTypes, ResultTypes, OtherFlags, OtherTypes, PCs
  <2>8. NoneRunning'
    BY <1>0, <1>01, <1>18, TailElements, AppendElements DEF set_child_pid, objectVars,
         NoneRunning, FromOrder, ObjectInv, Talks, Opened, Answers, Commands, Expected,
         is_authenticated, ResultOrder, FlagTypes, ResultTypes, OtherFlags, OtherTypes, PCs
  <2>9. GuestAccountInv'
    BY <1>0, <1>01, <1>18, OneMessage DEF set_child_pid, objectVars, GuestAccountInv, FlagTypes,
         ResultTypes, OtherTypes
  <2>10. FromOrder'
    BY <1>0, <1>01, <1>18, TailElements, AppendElements DEF set_child_pid, objectVars, FromOrder,
         Talks, Opened, Results, is_authenticated, ObjectInv, ResultOrder, ResultCount, FlagTypes,
         ResultTypes, OtherFlags, OtherTypes, PCs
  <2> QED BY <1>00, <2>1, <2>2, <2>3, <2>4, <2>5, <2>6, <2>7, <2>8, <2>9, <2>10 DEF PipeIInv
<1>19. CASE command_ended
  <2>1. OtherFlags'
    BY <1>0, <1>01, <1>19, OneMessage DEF command_ended, objectVars, OtherFlags, FlagTypes,
         ResultTypes, OtherTypes
  <2>2. OtherTypes'
    BY <1>0, <1>01, <1>19, OneMessage DEF command_ended, objectVars, OtherTypes, FlagTypes,
         ResultTypes, OtherFlags
  <2>3. TurnAuth'
    BY <1>0, <1>01, <1>19, OneMessage DEF command_ended, objectVars, TurnAuth, TurnConv, TurnWait,
         TurnOpen, Opened, ObjectInv, is_authenticated, Talks, NoneRunning, ResultOrder,
         ResultCount, FlagTypes, ResultTypes, OtherFlags, OtherTypes, PCs
  <2>4. TurnConv'
    BY <1>0, <1>01, <1>19, OneMessage DEF command_ended, objectVars, TurnAuth, TurnConv, TurnWait,
         TurnOpen, Opened, ObjectInv, is_authenticated, Talks, NoneRunning, ResultOrder,
         ResultCount, FlagTypes, ResultTypes, OtherFlags, OtherTypes, PCs
  <2>5. TurnWait'
    BY <1>0, <1>01, <1>19, OneMessage DEF command_ended, objectVars, TurnAuth, TurnConv, TurnWait,
         TurnOpen, Opened, ObjectInv, is_authenticated, Talks, NoneRunning, ResultOrder,
         ResultCount, FlagTypes, ResultTypes, OtherFlags, OtherTypes, PCs
  <2>6. TurnOpen'
    BY <1>0, <1>01, <1>19, OneMessage DEF command_ended, objectVars, TurnAuth, TurnConv, TurnWait,
         TurnOpen, Opened, ObjectInv, is_authenticated, Talks, NoneRunning, ResultOrder,
         ResultCount, FlagTypes, ResultTypes, OtherFlags, OtherTypes, PCs
  <2>7. ObjectInv'
    BY <1>0, <1>01, <1>19, OneMessage DEF command_ended, objectVars, TurnAuth, TurnConv, TurnWait,
         TurnOpen, Opened, ObjectInv, is_authenticated, Talks, NoneRunning, ResultOrder,
         ResultCount, FlagTypes, ResultTypes, OtherFlags, OtherTypes, PCs
  <2>8. NoneRunning'
    BY <1>0, <1>01, <1>19, TailElements, AppendElements DEF command_ended, objectVars,
         NoneRunning, FromOrder, ObjectInv, Talks, Opened, Answers, Commands, Expected,
         is_authenticated, ResultOrder, FlagTypes, ResultTypes, OtherFlags, OtherTypes, PCs
  <2>9. GuestAccountInv'
    BY <1>0, <1>01, <1>19, OneMessage DEF command_ended, objectVars, GuestAccountInv, FlagTypes,
         ResultTypes, OtherTypes
  <2>10. FromOrder'
    BY <1>0, <1>01, <1>19, TailElements, AppendElements DEF command_ended, objectVars, FromOrder,
         Talks, Opened, Results, is_authenticated, ObjectInv, ResultOrder, ResultCount, FlagTypes,
         ResultTypes, OtherFlags, OtherTypes, PCs
  <2> QED BY <1>00, <2>1, <2>2, <2>3, <2>4, <2>5, <2>6, <2>7, <2>8, <2>9, <2>10 DEF PipeIInv
<1>20. CASE close_session
  <2>1. OtherFlags'
    BY <1>0, <1>01, <1>20, OneMessage DEF close_session, objectVars, OtherFlags, FlagTypes,
         ResultTypes, OtherTypes
  <2>2. OtherTypes'
    BY <1>0, <1>01, <1>20, OneMessage DEF close_session, objectVars, OtherTypes, FlagTypes,
         ResultTypes, OtherFlags
  <2>3. TurnAuth'
    BY <1>0, <1>01, <1>20, OneMessage DEF close_session, objectVars, TurnAuth, TurnConv, TurnWait,
         TurnOpen, Opened, ObjectInv, is_authenticated, Talks, NoneRunning, ResultOrder,
         ResultCount, FlagTypes, ResultTypes, OtherFlags, OtherTypes, PCs
  <2>4. TurnConv'
    BY <1>0, <1>01, <1>20, OneMessage DEF close_session, objectVars, TurnAuth, TurnConv, TurnWait,
         TurnOpen, Opened, ObjectInv, is_authenticated, Talks, NoneRunning, ResultOrder,
         ResultCount, FlagTypes, ResultTypes, OtherFlags, OtherTypes, PCs
  <2>5. TurnWait'
    BY <1>0, <1>01, <1>20, OneMessage DEF close_session, objectVars, TurnAuth, TurnConv, TurnWait,
         TurnOpen, Opened, ObjectInv, is_authenticated, Talks, NoneRunning, ResultOrder,
         ResultCount, FlagTypes, ResultTypes, OtherFlags, OtherTypes, PCs
  <2>6. TurnOpen'
    BY <1>0, <1>01, <1>20, OneMessage DEF close_session, objectVars, TurnAuth, TurnConv, TurnWait,
         TurnOpen, Opened, ObjectInv, is_authenticated, Talks, NoneRunning, ResultOrder,
         ResultCount, FlagTypes, ResultTypes, OtherFlags, OtherTypes, PCs
  <2>7. ObjectInv'
    BY <1>0, <1>01, <1>20, OneMessage DEF close_session, objectVars, TurnAuth, TurnConv, TurnWait,
         TurnOpen, Opened, ObjectInv, is_authenticated, Talks, NoneRunning, ResultOrder,
         ResultCount, FlagTypes, ResultTypes, OtherFlags, OtherTypes, PCs
  <2>8. NoneRunning'
    BY <1>0, <1>01, <1>20, TailElements, AppendElements DEF close_session, objectVars,
         NoneRunning, FromOrder, ObjectInv, Talks, Opened, Answers, Commands, Expected,
         is_authenticated, ResultOrder, FlagTypes, ResultTypes, OtherFlags, OtherTypes, PCs
  <2>9. GuestAccountInv'
    BY <1>0, <1>01, <1>20, OneMessage DEF close_session, objectVars, GuestAccountInv, FlagTypes,
         ResultTypes, OtherTypes
  <2>10. FromOrder'
    BY <1>0, <1>01, <1>20, TailElements, AppendElements DEF close_session, objectVars, FromOrder,
         Talks, Opened, Results, is_authenticated, ObjectInv, ResultOrder, ResultCount, FlagTypes,
         ResultTypes, OtherFlags, OtherTypes, PCs
  <2> QED BY <1>00, <2>1, <2>2, <2>3, <2>4, <2>5, <2>6, <2>7, <2>8, <2>9, <2>10 DEF PipeIInv
<1>21. CASE CommandExits
  <2>1. OtherFlags'
    BY <1>0, <1>01, <1>21, OneMessage DEF CommandExits, objectVars, OtherFlags, FlagTypes,
         ResultTypes, OtherTypes
  <2>2. OtherTypes'
    BY <1>0, <1>01, <1>21, OneMessage DEF CommandExits, objectVars, OtherTypes, FlagTypes,
         ResultTypes, OtherFlags
  <2>3. TurnAuth'
    BY <1>0, <1>01, <1>21, OneMessage DEF CommandExits, objectVars, TurnAuth, TurnConv, TurnWait,
         TurnOpen, Opened, ObjectInv, is_authenticated, Talks, NoneRunning, ResultOrder,
         ResultCount, FlagTypes, ResultTypes, OtherFlags, OtherTypes, PCs
  <2>4. TurnConv'
    BY <1>0, <1>01, <1>21, OneMessage DEF CommandExits, objectVars, TurnAuth, TurnConv, TurnWait,
         TurnOpen, Opened, ObjectInv, is_authenticated, Talks, NoneRunning, ResultOrder,
         ResultCount, FlagTypes, ResultTypes, OtherFlags, OtherTypes, PCs
  <2>5. TurnWait'
    BY <1>0, <1>01, <1>21, OneMessage DEF CommandExits, objectVars, TurnAuth, TurnConv, TurnWait,
         TurnOpen, Opened, ObjectInv, is_authenticated, Talks, NoneRunning, ResultOrder,
         ResultCount, FlagTypes, ResultTypes, OtherFlags, OtherTypes, PCs
  <2>6. TurnOpen'
    BY <1>0, <1>01, <1>21, OneMessage DEF CommandExits, objectVars, TurnAuth, TurnConv, TurnWait,
         TurnOpen, Opened, ObjectInv, is_authenticated, Talks, NoneRunning, ResultOrder,
         ResultCount, FlagTypes, ResultTypes, OtherFlags, OtherTypes, PCs
  <2>7. ObjectInv'
    BY <1>0, <1>01, <1>21, OneMessage DEF CommandExits, objectVars, TurnAuth, TurnConv, TurnWait,
         TurnOpen, Opened, ObjectInv, is_authenticated, Talks, NoneRunning, ResultOrder,
         ResultCount, FlagTypes, ResultTypes, OtherFlags, OtherTypes, PCs
  <2>8. NoneRunning'
    BY <1>0, <1>01, <1>21, TailElements, AppendElements DEF CommandExits, objectVars, NoneRunning,
         FromOrder, ObjectInv, Talks, Opened, Answers, Commands, Expected, is_authenticated,
         ResultOrder, FlagTypes, ResultTypes, OtherFlags, OtherTypes, PCs
  <2>9. GuestAccountInv'
    BY <1>0, <1>01, <1>21, OneMessage DEF CommandExits, objectVars, GuestAccountInv, FlagTypes,
         ResultTypes, OtherTypes
  <2>10. FromOrder'
    BY <1>0, <1>01, <1>21, TailElements, AppendElements DEF CommandExits, objectVars, FromOrder,
         Talks, Opened, Results, is_authenticated, ObjectInv, ResultOrder, ResultCount, FlagTypes,
         ResultTypes, OtherFlags, OtherTypes, PCs
  <2> QED BY <1>00, <2>1, <2>2, <2>3, <2>4, <2>5, <2>6, <2>7, <2>8, <2>9, <2>10 DEF PipeIInv
<1>22. CASE Login1Terminates
  <2>1. OtherFlags'
    BY <1>0, <1>01, <1>22, OneMessage DEF Login1Terminates, OtherFlags, FlagTypes, ResultTypes,
         OtherTypes
  <2>2. OtherTypes'
    BY <1>0, <1>01, <1>22, OneMessage DEF Login1Terminates, OtherTypes, FlagTypes, ResultTypes,
         OtherFlags
  <2>3. TurnAuth'
    BY <1>0, <1>01, <1>22, OneMessage DEF Login1Terminates, TurnAuth, TurnConv, TurnWait, TurnOpen,
         Opened, ObjectInv, is_authenticated, Talks, NoneRunning, ResultOrder, ResultCount,
         FlagTypes, ResultTypes, OtherFlags, OtherTypes, PCs
  <2>4. TurnConv'
    BY <1>0, <1>01, <1>22, OneMessage DEF Login1Terminates, TurnAuth, TurnConv, TurnWait, TurnOpen,
         Opened, ObjectInv, is_authenticated, Talks, NoneRunning, ResultOrder, ResultCount,
         FlagTypes, ResultTypes, OtherFlags, OtherTypes, PCs
  <2>5. TurnWait'
    BY <1>0, <1>01, <1>22, OneMessage DEF Login1Terminates, TurnAuth, TurnConv, TurnWait, TurnOpen,
         Opened, ObjectInv, is_authenticated, Talks, NoneRunning, ResultOrder, ResultCount,
         FlagTypes, ResultTypes, OtherFlags, OtherTypes, PCs
  <2>6. TurnOpen'
    BY <1>0, <1>01, <1>22, OneMessage DEF Login1Terminates, TurnAuth, TurnConv, TurnWait, TurnOpen,
         Opened, ObjectInv, is_authenticated, Talks, NoneRunning, ResultOrder, ResultCount,
         FlagTypes, ResultTypes, OtherFlags, OtherTypes, PCs
  <2>7. ObjectInv'
    BY <1>0, <1>01, <1>22, OneMessage DEF Login1Terminates, TurnAuth, TurnConv, TurnWait, TurnOpen,
         Opened, ObjectInv, is_authenticated, Talks, NoneRunning, ResultOrder, ResultCount,
         FlagTypes, ResultTypes, OtherFlags, OtherTypes, PCs
  <2>8. NoneRunning'
    BY <1>0, <1>01, <1>22, TailElements, AppendElements DEF Login1Terminates, NoneRunning,
         FromOrder, ObjectInv, Talks, Opened, Answers, Commands, Expected, is_authenticated,
         ResultOrder, FlagTypes, ResultTypes, OtherFlags, OtherTypes, PCs
  <2>9. GuestAccountInv'
    BY <1>0, <1>01, <1>22, OneMessage DEF Login1Terminates, GuestAccountInv, FlagTypes, ResultTypes,
         OtherTypes
  <2>10. FromOrder'
    BY <1>0, <1>01, <1>22, TailElements, AppendElements DEF Login1Terminates, FromOrder, Talks,
         Opened, Results, is_authenticated, ObjectInv, ResultOrder, ResultCount, FlagTypes,
         ResultTypes, OtherFlags, OtherTypes, PCs
  <2> QED BY <1>00, <2>1, <2>2, <2>3, <2>4, <2>5, <2>6, <2>7, <2>8, <2>9, <2>10 DEF PipeIInv
<1>24. CASE misread
  <2>1. OtherFlags'
    BY <1>0, <1>01, <1>24, OneMessage DEF misread, objectVars, Answers, Commands, Expected,
         OtherFlags, FlagTypes, ResultTypes, OtherTypes
  <2>2. OtherTypes'
    BY <1>0, <1>01, <1>24, OneMessage DEF misread, objectVars, Answers, Commands, Expected,
         OtherTypes, FlagTypes, ResultTypes, OtherFlags
  <2>3. TurnAuth'
    BY <1>0, <1>01, <1>24, OneMessage DEF misread, objectVars, Answers, Commands, Expected,
         TurnAuth, TurnConv, TurnWait, TurnOpen, Opened, ObjectInv, is_authenticated, Talks,
         NoneRunning, ResultOrder, ResultCount, FlagTypes, ResultTypes, OtherFlags, OtherTypes, PCs
  <2>4. TurnConv'
    BY <1>0, <1>01, <1>24, OneMessage DEF misread, objectVars, Answers, Commands, Expected,
         TurnAuth, TurnConv, TurnWait, TurnOpen, Opened, ObjectInv, is_authenticated, Talks,
         NoneRunning, ResultOrder, ResultCount, FlagTypes, ResultTypes, OtherFlags, OtherTypes, PCs
  <2>5. TurnWait'
    BY <1>0, <1>01, <1>24, OneMessage DEF misread, objectVars, Answers, Commands, Expected,
         TurnAuth, TurnConv, TurnWait, TurnOpen, Opened, ObjectInv, is_authenticated, Talks,
         NoneRunning, ResultOrder, ResultCount, FlagTypes, ResultTypes, OtherFlags, OtherTypes, PCs
  <2>6. TurnOpen'
    BY <1>0, <1>01, <1>24, OneMessage DEF misread, objectVars, Answers, Commands, Expected,
         TurnAuth, TurnConv, TurnWait, TurnOpen, Opened, ObjectInv, is_authenticated, Talks,
         NoneRunning, ResultOrder, ResultCount, FlagTypes, ResultTypes, OtherFlags, OtherTypes, PCs
  <2>7. ObjectInv'
    BY <1>0, <1>01, <1>24, OneMessage DEF misread, objectVars, Answers, Commands, Expected,
         TurnAuth, TurnConv, TurnWait, TurnOpen, Opened, ObjectInv, is_authenticated, Talks,
         NoneRunning, ResultOrder, ResultCount, FlagTypes, ResultTypes, OtherFlags, OtherTypes, PCs
  <2>8. NoneRunning'
    BY <1>0, <1>01, <1>24, TailElements, AppendElements DEF misread, objectVars,
         Answers, Commands, Expected, NoneRunning, FromOrder, ObjectInv, Talks, Opened, Expected,
         is_authenticated, ResultOrder, FlagTypes, ResultTypes, OtherFlags, OtherTypes, PCs
  <2>9. GuestAccountInv'
    BY <1>0, <1>01, <1>24, OneMessage DEF misread, objectVars, Answers, Commands, Expected,
         GuestAccountInv, FlagTypes, ResultTypes, OtherTypes
  <2>10. FromOrder'
    BY <1>0, <1>01, <1>24, TailElements, AppendElements DEF misread, objectVars,
         Answers, Commands, Expected, FromOrder, Talks, Opened, Results, is_authenticated, ObjectInv,
         ResultOrder, ResultCount, FlagTypes, ResultTypes, OtherFlags, OtherTypes, PCs
  <2> QED BY <1>00, <2>1, <2>2, <2>3, <2>4, <2>5, <2>6, <2>7, <2>8, <2>9, <2>10 DEF PipeIInv
<1>25. CASE read_lost
  <2>1. OtherFlags'
    BY <1>0, <1>01, <1>25, OneMessage DEF read_lost, objectVars, Answers, Commands,
         Expected,
         OtherFlags, FlagTypes, ResultTypes, OtherTypes
  <2>2. OtherTypes'
    BY <1>0, <1>01, <1>25, OneMessage DEF read_lost, objectVars, Answers, Commands,
         Expected,
         OtherTypes, FlagTypes, ResultTypes, OtherFlags
  <2>3. TurnAuth'
    BY <1>0, <1>01, <1>25, OneMessage DEF read_lost, objectVars, Answers, Commands,
         Expected,
         TurnAuth, TurnConv, TurnWait, TurnOpen, Opened, ObjectInv, is_authenticated, Talks,
         NoneRunning, ResultOrder, ResultCount, FlagTypes, ResultTypes, OtherFlags, OtherTypes, PCs
  <2>4. TurnConv'
    BY <1>0, <1>01, <1>25, OneMessage DEF read_lost, objectVars, Answers, Commands,
         Expected,
         TurnAuth, TurnConv, TurnWait, TurnOpen, Opened, ObjectInv, is_authenticated, Talks,
         NoneRunning, ResultOrder, ResultCount, FlagTypes, ResultTypes, OtherFlags, OtherTypes, PCs
  <2>5. TurnWait'
    BY <1>0, <1>01, <1>25, OneMessage DEF read_lost, objectVars, Answers, Commands,
         Expected,
         TurnAuth, TurnConv, TurnWait, TurnOpen, Opened, ObjectInv, is_authenticated, Talks,
         NoneRunning, ResultOrder, ResultCount, FlagTypes, ResultTypes, OtherFlags, OtherTypes, PCs
  <2>6. TurnOpen'
    BY <1>0, <1>01, <1>25, OneMessage DEF read_lost, objectVars, Answers, Commands,
         Expected,
         TurnAuth, TurnConv, TurnWait, TurnOpen, Opened, ObjectInv, is_authenticated, Talks,
         NoneRunning, ResultOrder, ResultCount, FlagTypes, ResultTypes, OtherFlags, OtherTypes, PCs
  <2>7. ObjectInv'
    BY <1>0, <1>01, <1>25, OneMessage DEF read_lost, objectVars, Answers, Commands,
         Expected,
         TurnAuth, TurnConv, TurnWait, TurnOpen, Opened, ObjectInv, is_authenticated, Talks,
         NoneRunning, ResultOrder, ResultCount, FlagTypes, ResultTypes, OtherFlags, OtherTypes, PCs
  <2>8. NoneRunning'
    <3>1. lost /\ lost' /\ UNCHANGED <<cmd, command_run, stopping, stopped_unrun>>
      BY <1>25 DEF read_lost, objectVars
    <3>2. \A i \in 1..Len(to_child') :
            \E k \in 1..Len(to_child) : to_child'[i] = to_child[k]
      BY <1>0, <1>25, TailElements DEF read_lost, OtherTypes
    <3> QED BY <1>0, <3>1, <3>2 DEF NoneRunning
  <2>9. GuestAccountInv'
    BY <1>0, <1>01, <1>25, OneMessage DEF read_lost, objectVars, Answers, Commands,
         Expected,
         GuestAccountInv, FlagTypes, ResultTypes, OtherTypes
  <2>10. FromOrder'
    BY <1>0, <1>01, <1>25, TailElements, AppendElements DEF read_lost, objectVars,
         Answers, Commands, Expected, FromOrder, Talks, Opened, Results, is_authenticated, ObjectInv,
         ResultOrder, ResultCount, FlagTypes, ResultTypes, OtherFlags, OtherTypes, PCs
  <2> QED BY <1>00, <2>1, <2>2, <2>3, <2>4, <2>5, <2>6, <2>7, <2>8, <2>9, <2>10 DEF PipeIInv
<1>23. CASE UNCHANGED sessionVars
  <2>1. OtherFlags'
    BY <1>0, <1>23 DEF sessionVars, OtherFlags
  <2>2. OtherTypes'
    BY <1>0, <1>23 DEF sessionVars, OtherTypes
  <2>3. TurnAuth'
    BY <1>0, <1>23 DEF sessionVars, TurnAuth
  <2>4. TurnConv'
    BY <1>0, <1>23 DEF sessionVars, TurnConv
  <2>5. TurnWait'
    BY <1>0, <1>23 DEF sessionVars, TurnWait, is_authenticated
  <2>6. TurnOpen'
    BY <1>0, <1>23 DEF sessionVars, TurnOpen, Opened, is_authenticated
  <2>7. ObjectInv'
    BY <1>0, <1>23 DEF sessionVars, ObjectInv, is_authenticated, Talks
  <2>8. NoneRunning'
    BY <1>0, <1>23 DEF sessionVars, NoneRunning, Opened
  <2>9. GuestAccountInv'
    BY <1>0, <1>23 DEF sessionVars, GuestAccountInv
  <2>10. FromOrder'
    BY <1>0, <1>23 DEF sessionVars, FromOrder, Talks, is_authenticated
  <2> QED BY <1>00, <2>1, <2>2, <2>3, <2>4, <2>5, <2>6, <2>7, <2>8, <2>9, <2>10 DEF PipeIInv
<1> QED
  BY <1>1, <1>2, <1>3, <1>4, <1>5, <1>6, <1>7, <1>8, <1>9, <1>10, <1>11, <1>12, <1>13, <1>14, <1>15,
       <1>16, <1>17, <1>18, <1>19, <1>20, <1>21, <1>22, <1>23, <1>24, <1>25 DEF SessionNext, ChildStep

(* The invariant of the pipes holds in every reachable state, for any      *)
(* number of answers that nobody asked for.                                *)
THEOREM SessionPipes == SessionSafety => []PipeIInv
BY PipeInitIInv, PipeNextIInv, PTL DEF SessionSafety

(* The object and its child stay in step, for any number of conversations  *)
(* and of answers: a session stopped before its command was sent never     *)
(* runs it while its child reads what was written for it, neither end of   *)
(* the pipes finds a message it does not wait for until a greeter answers  *)
(* what was not asked, the daemon reads nothing but the ids even then, and *)
(* the guest account lives as long as the child that runs in it.           *)
THEOREM SessionInStep == SessionSafety => []SessionInv
<1>1. ASSUME PipeIInv PROVE SessionInv
  <2>1. SessionTypeOK
    BY <1>1 DEF PipeIInv, SessionIInv, FlagTypes, ResultTypes, OtherFlags, OtherTypes, SessionTypeOK
  <2>2. NoCommandAfterStop
    BY <1>1 DEF PipeIInv, NoneRunning, NoCommandAfterStop
  <2>3. PipesInStep
    <3>1. unasked = 0 =>
            /\ pc = "conv" => to_child \in {<<>>} \union {<<a>> : a \in Answers}
            /\ pc = "wait" => to_child \in {<<>>} \union {<<c>> : c \in Commands}
            /\ pc \in {"open", "opened", "handler", "forked", "run", "closing"} => to_child = <<>>
      BY <1>1 DEF PipeIInv, TurnConv, TurnWait, TurnOpen, Opened, Commands
    <3>2. in_run => from_child \in {<<>>, <<"ids">>}
      <4> SUFFICES ASSUME in_run, from_child # <<>> PROVE from_child = <<"ids">>
        OBVIOUS
      <4>1. from_child \in Seq(Results \union {"prompt", "ids"})
        BY <1>1 DEF PipeIInv, SessionIInv, ResultTypes
      <4>2. \A i \in 1..Len(from_child) : from_child[i] = "ids" /\ i = Len(from_child)
        BY <1>1 DEF PipeIInv, ObjectInv, FromOrder
      <4>0. Len(from_child) \in Nat /\ Len(from_child) # 0
        BY <4>1
      <4>3. Len(from_child) = 1 /\ from_child[1] = "ids"
        <5>1. 1 \in 1..Len(from_child)
          BY <4>0
        <5> QED BY <4>2, <5>1
      <4> QED BY <4>1, <4>3
    <3>3. lost => unasked > 0
      BY <1>1 DEF PipeIInv, ObjectInv
    <3> QED BY <3>1, <3>2, <3>3 DEF PipesInStep
  <2>4. GuestAccountInv
    BY <1>1 DEF PipeIInv
  <2> QED BY <2>1, <2>2, <2>3, <2>4 DEF SessionInv
<1> QED BY <1>1, SessionPipes, PTL
=============================================================================
