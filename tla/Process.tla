------------------------------ MODULE Process ------------------------------
(***************************************************************************)
(* A child process of the daemon (src/src/process.c): fork, the child      *)
(* watch, SIGTERM escalated to SIGKILL after a timeout, the blocking form  *)
(* that runs a script to its end, and the pipe through which signals sent  *)
(* by children reach the main loop.                                        *)
(*                                                                         *)
(* A Process object is started at most once: every caller makes a new      *)
(* object for a new child.  The daemon is one thread, so while it is in    *)
(* waitpid() for a blocking child (blocked # None) none of its callbacks   *)
(* run.  The child is an environment: it may exit at any time, may ignore  *)
(* SIGTERM, and cannot ignore SIGKILL.                                     *)
(***************************************************************************)
EXTENDS Naturals, Sequences

CONSTANTS
  Procs,        \* the Process objects
  None,         \* no Process (NULL)
  MaxPipe       \* bound: signals waiting in signal_pipe

ASSUME ProcessAssumption == None \notin Procs /\ MaxPipe \in Nat

VARIABLES
  pid,          \* pid[p]: priv->pid # 0
  stopping,     \* priv->stopping
  quit_timeout, \* priv->quit_timeout # 0: the SIGKILL timer is armed
  processes,    \* the table of running processes, which owns a reference
  blocked,      \* the child waitpid() is blocked on, or None
  signal_pipe,  \* signals written by signal_cb, as the sender's Process
  child,        \* the operating system's view of the child
  signalled,    \* signals sent to the child
  emitted       \* STOPPED signals emitted by the object

procVars == <<pid, stopping, quit_timeout, processes, blocked, signal_pipe,
              child, signalled, emitted>>

ChildStates == {"none", "failed", "alive", "zombie", "reaped"}

ProcTypeOK ==
  /\ pid \in [Procs -> BOOLEAN]
  /\ stopping \in [Procs -> BOOLEAN]
  /\ quit_timeout \in [Procs -> BOOLEAN]
  /\ processes \subseteq Procs
  /\ blocked \in Procs \union {None}
  /\ signal_pipe \in Seq(Procs)
  /\ child \in [Procs -> ChildStates]
  /\ signalled \in [Procs -> SUBSET {"TERM", "KILL"}]
  /\ emitted \in [Procs -> Nat]

ProcInit ==
  /\ pid = [p \in Procs |-> FALSE]
  /\ stopping = [p \in Procs |-> FALSE]
  /\ quit_timeout = [p \in Procs |-> FALSE]
  /\ processes = {}
  /\ blocked = None
  /\ signal_pipe = <<>>
  /\ child = [p \in Procs |-> "none"]
  /\ signalled = [p \in Procs |-> {}]
  /\ emitted = [p \in Procs |-> 0]

----------------------------------------------------------------------------
(* The daemon                                                              *)

(* process_start returning FALSE, in either form: the command cannot be    *)
(* parsed, or fork() fails.  The object keeps pid 0 and emits nothing.     *)
process_start_fails(p) ==
  /\ blocked = None
  /\ child[p] = "none"
  /\ child' = [child EXCEPT ![p] = "failed"]
  /\ UNCHANGED <<pid, stopping, quit_timeout, processes, blocked, signal_pipe, signalled, emitted>>

(* process_start (process, FALSE).                                         *)
process_start(p) ==
  /\ blocked = None
  /\ child[p] = "none"
  /\ pid' = [pid EXCEPT ![p] = TRUE]
  /\ child' = [child EXCEPT ![p] = "alive"]
  /\ processes' = processes \union {p}
  /\ UNCHANGED <<stopping, quit_timeout, blocked, signal_pipe, signalled, emitted>>

(* process_start (process, TRUE): the daemon waits for the child; the      *)
(* object is not in the table and has no watch.                            *)
process_start_block(p) ==
  /\ blocked = None
  /\ child[p] = "none"
  /\ pid' = [pid EXCEPT ![p] = TRUE]
  /\ child' = [child EXCEPT ![p] = "alive"]
  /\ blocked' = p
  /\ UNCHANGED <<stopping, quit_timeout, processes, signal_pipe, signalled, emitted>>

(* Mutant of process_watch_cb: the SIGKILL timer is not removed.           *)
process_watch_cb_timer(p) ==
  /\ child[p] = "zombie"
  /\ (blocked = None /\ p \in processes) \/ blocked = p
  /\ child' = [child EXCEPT ![p] = "reaped"]
  /\ pid' = [pid EXCEPT ![p] = FALSE]
  /\ processes' = processes \ {p}
  /\ blocked' = None
  /\ emitted' = [emitted EXCEPT ![p] = @ + 1]
  /\ UNCHANGED <<stopping, signal_pipe, signalled, quit_timeout>>

(* Mutant of process_watch_cb: the process stays in the table.             *)
process_watch_cb_table(p) ==
  /\ child[p] = "zombie"
  /\ \/ blocked = None /\ p \in processes
     \/ blocked = p
  /\ child' = [child EXCEPT ![p] = "reaped"]
  /\ quit_timeout' = [quit_timeout EXCEPT ![p] = FALSE]
  /\ pid' = [pid EXCEPT ![p] = FALSE]
  /\ processes' = processes
  /\ blocked' = None
  /\ emitted' = [emitted EXCEPT ![p] = @ + 1]
  /\ UNCHANGED <<stopping, signal_pipe, signalled>>

(* process_watch_cb: the child has been waited for, by the child watch or  *)
(* by the blocking process_start.                                          *)
process_watch_cb(p) ==
  /\ child[p] = "zombie"
  /\ \/ blocked = None /\ p \in processes
     \/ blocked = p
  /\ child' = [child EXCEPT ![p] = "reaped"]
  /\ quit_timeout' = [quit_timeout EXCEPT ![p] = FALSE]
  /\ pid' = [pid EXCEPT ![p] = FALSE]
  /\ processes' = processes \ {p}
  /\ blocked' = None
  /\ emitted' = [emitted EXCEPT ![p] = @ + 1]
  /\ UNCHANGED <<stopping, signal_pipe, signalled>>

process_signal(p, signum) ==
  signalled' = [signalled EXCEPT ![p] = IF pid[p] THEN @ \union {signum} ELSE @]

(* Mutant of process_stop: STOPPED is emitted at once, and again when the  *)
(* child is gone.                                                          *)
process_stop_emits(p) ==
  /\ blocked = None
  /\ child[p] # "none"
  /\ ~stopping[p]
  /\ stopping' = [stopping EXCEPT ![p] = TRUE]
  /\ quit_timeout' = [quit_timeout EXCEPT ![p] = pid[p]]
  /\ process_signal(p, "TERM")
  /\ emitted' = [emitted EXCEPT ![p] = @ + 1]
  /\ UNCHANGED <<pid, processes, blocked, signal_pipe, child>>

(* Mutant of process_stop: the SIGKILL timer is not armed.                 *)
process_stop_no_timer(p) ==
  /\ blocked = None
  /\ child[p] # "none"
  /\ ~stopping[p]
  /\ stopping' = [stopping EXCEPT ![p] = TRUE]
  /\ UNCHANGED quit_timeout
  /\ process_signal(p, "TERM")
  /\ UNCHANGED <<pid, processes, blocked, signal_pipe, child, emitted>>

(* process_stop, called by a display server on the process it has tried to *)
(* start: nothing is emitted when there is no child to wait for.           *)
process_stop(p) ==
  /\ blocked = None
  /\ child[p] # "none"
  /\ ~stopping[p]
  /\ stopping' = [stopping EXCEPT ![p] = TRUE]
  /\ quit_timeout' = [quit_timeout EXCEPT ![p] = pid[p]]
  /\ process_signal(p, "TERM")
  /\ UNCHANGED <<pid, processes, blocked, signal_pipe, child, emitted>>

(* quit_timeout_cb: five seconds after SIGTERM.                            *)
quit_timeout_cb(p) ==
  /\ blocked = None
  /\ quit_timeout[p]
  /\ quit_timeout' = [quit_timeout EXCEPT ![p] = FALSE]
  /\ process_signal(p, "KILL")
  /\ UNCHANGED <<pid, stopping, processes, blocked, signal_pipe, child, emitted>>

(* Mutant of SignalTarget: the table is not looked at.                     *)
SignalTarget_any == Head(signal_pipe)

(* handle_signal: GOT_SIGNAL goes to the Process found in the table, or to *)
(* the daemon's own Process when the sender is no longer there.            *)
SignalTarget == IF Head(signal_pipe) \in processes THEN Head(signal_pipe) ELSE None

handle_signal ==
  /\ blocked = None
  /\ signal_pipe # <<>>
  /\ signal_pipe' = Tail(signal_pipe)
  /\ UNCHANGED <<pid, stopping, quit_timeout, processes, blocked, child, signalled, emitted>>

----------------------------------------------------------------------------
(* The children and the kernel                                             *)

(* The child exits by itself, or because of SIGTERM.                       *)
ChildExits(p) ==
  /\ child[p] = "alive"
  /\ child' = [child EXCEPT ![p] = "zombie"]
  /\ UNCHANGED <<pid, stopping, quit_timeout, processes, blocked, signal_pipe, signalled, emitted>>

(* SIGKILL takes effect.                                                   *)
ChildKilled(p) == "KILL" \in signalled[p] /\ ChildExits(p)

(* The script the daemon is blocked on comes to its end.                   *)
ScriptEnds(p) == blocked = p /\ ChildExits(p)

(* A child sends the daemon a signal (an X server sends SIGUSR1): the      *)
(* handler writes it to the pipe, whatever the main loop is doing.         *)
signal_cb(p) ==
  /\ child[p] = "alive"
  /\ Len(signal_pipe) < MaxPipe
  /\ signal_pipe' = Append(signal_pipe, p)
  /\ UNCHANGED <<pid, stopping, quit_timeout, processes, blocked, child, signalled, emitted>>

----------------------------------------------------------------------------
ProcNext ==
  \/ handle_signal
  \/ \E p \in Procs :
       \/ process_start(p)
       \/ process_start_fails(p)
       \/ process_start_block(p)
       \/ process_watch_cb(p)
       \/ process_stop(p)
       \/ quit_timeout_cb(p)
       \/ ChildExits(p)
       \/ signal_cb(p)

ProcSafety == ProcInit /\ [][ProcNext]_procVars

----------------------------------------------------------------------------
(* Properties                                                              *)

(* The SIGKILL timer is armed only while the child it was armed for is     *)
(* still unreaped, and only after SIGTERM: quit_timeout_cb can never send  *)
(* SIGKILL for a Process whose child watch has already fired.              *)
TimerInv ==
  \A p \in Procs :
    quit_timeout[p] => pid[p] /\ stopping[p] /\ "TERM" \in signalled[p] /\ p \in processes

(* pid, the table and the operating system agree: an object is in the      *)
(* table exactly while it has a non-blocking child that has not been       *)
(* waited for, so a child cannot be lost (never reaped) or reaped twice.   *)
TableInv ==
  \A p \in Procs :
    /\ pid[p] <=> child[p] \in {"alive", "zombie"}
    /\ pid[p] <=> (p \in processes \/ blocked = p)
    /\ ~(p \in processes /\ blocked = p)

(* STOPPED is emitted once for each child that was started, after it has   *)
(* been waited for, and never again.                                       *)
StoppedOnce == \A p \in Procs : emitted[p] = IF child[p] = "reaped" THEN 1 ELSE 0
============================================================================
