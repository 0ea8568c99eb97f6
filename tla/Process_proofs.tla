--------------------------- MODULE Process_proofs ---------------------------
(***************************************************************************)
(* Proofs about Process, for any set of Process objects and any bound on   *)
(* the signal pipe.  That a process told to stop is gone in the end needs  *)
(* fairness and is left to TLC (StopIsAnswered of XServerLocal).           *)
(***************************************************************************)
EXTENDS Process, TLAPS

(* The inductive invariant: the types, and the three invariants of the     *)
(* module, each of which needs the others (the timer argument needs the    *)
(* table to know that an unblocked running child is in it).                *)
ProcIInv == ProcTypeOK /\ TimerInv /\ TableInv /\ StoppedOnce

(* The freshly initialised module satisfies the invariant.                 *)
LEMMA ProcInitIInv == ProcInit => ProcIInv
BY ProcessAssumption DEF ProcInit, ProcIInv, ProcTypeOK, TimerInv, TableInv, StoppedOnce, ChildStates

(* Every action, and a stutter, preserves the invariant.                   *)
LEMMA ProcNextIInv == ProcIInv /\ [ProcNext]_procVars => ProcIInv'
<1> SUFFICES ASSUME ProcIInv, [ProcNext]_procVars PROVE ProcIInv'
  OBVIOUS
<1> USE ProcessAssumption DEF ProcIInv, ProcTypeOK, TimerInv, TableInv, StoppedOnce, ChildStates
<1>1. CASE handle_signal
  BY <1>1 DEF handle_signal
<1>2. ASSUME NEW p \in Procs, process_start(p) PROVE ProcIInv'
  BY <1>2 DEF process_start
<1>3. ASSUME NEW p \in Procs, process_start_fails(p) PROVE ProcIInv'
  BY <1>3 DEF process_start_fails
<1>4. ASSUME NEW p \in Procs, process_start_block(p) PROVE ProcIInv'
  BY <1>4 DEF process_start_block
<1>5. ASSUME NEW p \in Procs, process_watch_cb(p) PROVE ProcIInv'
  BY <1>5 DEF process_watch_cb
<1>6. ASSUME NEW p \in Procs, process_stop(p) PROVE ProcIInv'
  BY <1>6 DEF process_stop, process_signal
<1>7. ASSUME NEW p \in Procs, quit_timeout_cb(p) PROVE ProcIInv'
  BY <1>7 DEF quit_timeout_cb, process_signal
<1>8. ASSUME NEW p \in Procs, ChildExits(p) PROVE ProcIInv'
  BY <1>8 DEF ChildExits
<1>9. ASSUME NEW p \in Procs, signal_cb(p) PROVE ProcIInv'
  BY <1>9 DEF signal_cb
<1>10. CASE UNCHANGED procVars
  BY <1>10 DEF procVars
<1> QED
  BY <1>1, <1>2, <1>3, <1>4, <1>5, <1>6, <1>7, <1>8, <1>9, <1>10 DEF ProcNext

(* The module's invariant holds in every reachable state.                  *)
THEOREM ProcInvariant == ProcSafety => []ProcIInv
BY ProcInitIInv, ProcNextIInv, PTL DEF ProcSafety

(* quit_timeout_cb never runs for a process already waited for: SIGKILL    *)
(* always goes to the child that was sent SIGTERM.                         *)
THEOREM ProcTimer == ProcSafety => []TimerInv
<1>1. ProcIInv => TimerInv
  BY DEF ProcIInv
<1> QED BY <1>1, ProcInvariant, PTL

(* Every child is in the table, or is the one waited for, until it has     *)
(* been reaped.                                                            *)
THEOREM ProcTable == ProcSafety => []TableInv
<1>1. ProcIInv => TableInv
  BY DEF ProcIInv
<1> QED BY <1>1, ProcInvariant, PTL

(* STOPPED is emitted once for every child, when it has been waited for.   *)
THEOREM ProcStopped == ProcSafety => []StoppedOnce
<1>1. ProcIInv => StoppedOnce
  BY DEF ProcIInv
<1> QED BY <1>1, ProcInvariant, PTL
=============================================================================
