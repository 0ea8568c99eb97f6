------------------------ MODULE XServerLocal_proofs ------------------------
(***************************************************************************)
(* Proofs about XServerLocal, for any set of servers and scripts, any VTs  *)
(* and any display numbers: what the servers hold, and that they keep the  *)
(* promise of DisplayServer.  StopIsAnswered needs fairness and is left to *)
(* TLC.                                                                    *)
(***************************************************************************)
EXTENDS XServerLocal, Process_proofs

(* Where each server is in its life, and what that says of its fields.     *)
Unmade(s) ==
  kind[s] = "none" =>
    /\ vt[s] = NoVT /\ ~have_vt_ref[s]
    /\ child[s] = "none" /\ ds_stopped[s] = 0
    /\ ~is_ready[s] /\ ~got_signal[s] /\ ~ds_stopping[s]

AnXServer(s) ==
  kind[s] = "x" =>
    /\ number[s] \in DisplayNumbers
    /\ ds_stopped[s] = IF child[s] \in {"failed", "reaped"} THEN 1 ELSE 0
    /\ is_ready[s] => got_signal[s]
    /\ got_signal[s] => child[s] # "none"
    /\ ds_stopped[s] = 0 /\ vt[s] # NoVT => have_vt_ref[s]

AWaylandSession(s) ==
  kind[s] = "wayland" =>
    /\ child[s] = "none"
    /\ ds_stopped[s] = IF ds_stopping[s] THEN 1 ELSE 0
    /\ ds_stopping[s] => is_ready[s]

Gone(s) ==
  kind[s] = "gone" => ds_stopped[s] = 1 /\ child[s] \notin {"alive", "zombie"}

Lives ==
  \A s \in Servers :
    /\ Unmade(s) /\ AnXServer(s) /\ AWaylandSession(s) /\ Gone(s)
    /\ have_vt_ref[s] => vt[s] \in VTs
    /\ authority_file[s] <=> pid[s]

(* No server has a VT while the boot splash shows: the first one takes the *)
(* VT of the splash, or the splash is quit.                                *)
SplashFirst == plymouth_get_is_active => \A s \in Servers : ~have_vt_ref[s]

XIInv == ProcIInv /\ XTypeOK /\ Lives /\ SplashFirst /\ XResourcesInv

----------------------------------------------------------------------------
(* A step of XServerLocal is one of Process for the children.              *)
LEMMA XStepsAreProcSteps ==
  ASSUME ProcIInv, [XNext]_xVars
  PROVE  ProcIInv'
<1>1. [ProcNext]_procVars
  <2> USE XServerAssumption
  <2>1. CASE got_signal_cb
    BY <2>1 DEF got_signal_cb, ProcNext
  <2>2. CASE ProcessStep
    BY <2>2 DEF ProcessStep, ProcNext
  <2>3. ASSUME NEW n \in ForeignNumbers, ForeignServer(n) PROVE UNCHANGED procVars
    BY <2>3 DEF ForeignServer
  <2>4. ASSUME NEW p \in Procs \ Servers, run_script(p) \/ ScriptDone(p) PROVE ProcNext
    BY <2>4 DEF run_script, ScriptDone, ProcNext
  <2>5. ASSUME NEW s \in Servers,
               \/ create_x_server(s) \/ create_wayland_session(s) \/ wayland_start(s) \/ finalize(s)
        PROVE  UNCHANGED procVars
    BY <2>5 DEF create_x_server, create_wayland_session, wayland_start, finalize
  <2>6. ASSUME NEW s \in Servers,
               \/ x_server_local_start(s) \/ x_server_local_start_fails(s) \/ x_server_exits(s)
        PROVE  ProcNext
    BY <2>6 DEF x_server_local_start, x_server_local_start_fails, x_server_exits, ProcNext
  <2>7. ASSUME NEW s \in Servers, display_server_stop(s) PROVE [ProcNext]_procVars
    BY <2>7 DEF display_server_stop, ProcNext
  <2>8. CASE UNCHANGED xVars
    BY <2>8 DEF xVars
  <2> QED BY <2>1, <2>2, <2>3, <2>4, <2>5, <2>6, <2>7, <2>8 DEF XNext
<1> QED BY <1>1, ProcNextIInv

(* A state without servers satisfies the invariant.                        *)
LEMMA XInitIInv == XInit => XIInv
<1> SUFFICES ASSUME XInit PROVE XIInv
  OBVIOUS
<1> USE XServerAssumption, ProcessAssumption DEF XInit, NoVT
<1>1. ProcIInv
  BY ProcInitIInv
<1>2. XTypeOK
  BY <1>1 DEF XTypeOK, ProcIInv
<1>3. Lives
  BY DEF Lives, Unmade, AnXServer, AWaylandSession, Gone, ProcInit
<1>4. SplashFirst
  BY DEF SplashFirst
<1>5. VTInv /\ NumberInv /\ HeldWhileRunning /\ SplashHandedOver
  BY DEF VTInv, Holders, NumberInv, HasNumber, HeldWhileRunning, SplashHandedOver, ProcInit
<1> QED BY <1>1, <1>2, <1>3, <1>4, <1>5 DEF XIInv, XResourcesInv

(* Writing one of the fields of plymouth leaves the other.                 *)
LEMMA SplashTyped ==
  ASSUME plymouth \in [is_running : BOOLEAN, is_active : BOOLEAN]
  PROVE  /\ [plymouth EXCEPT !.is_running = FALSE] \in [is_running : BOOLEAN, is_active : BOOLEAN]
         /\ [plymouth EXCEPT !.is_active = FALSE] \in [is_running : BOOLEAN, is_active : BOOLEAN]
OBVIOUS

(* Every step preserves the invariant.                                     *)
LEMMA XNextIInv == XIInv /\ [XNext]_xVars => XIInv'
<1> SUFFICES ASSUME XIInv, [XNext]_xVars PROVE XIInv'
  OBVIOUS
<1> USE XServerAssumption, ProcessAssumption DEF NoVT
<1>0. /\ ProcIInv /\ XTypeOK /\ Lives /\ SplashFirst
      /\ VTInv /\ NumberInv /\ HeldWhileRunning /\ SplashHandedOver
  BY DEF XIInv, XResourcesInv
<1>00. ProcIInv'
  BY <1>0, XStepsAreProcSteps
<1>1. ASSUME NEW s \in Servers, create_x_server(s) PROVE XIInv'
  <2>0. plymouth' \in [is_running : BOOLEAN, is_active : BOOLEAN]
    BY <1>0, <1>1, SplashTyped DEF XTypeOK, create_x_server, get_unused_display_number,
         display_number_in_use, get_vt, vt_ref, vt_get_unused, plymouth_quit,
         plymouth_get_is_active, procVars
  <2>1. XTypeOK'
    <3>1. get_vt(s)
      BY <1>1 DEF create_x_server
    <3>2. /\ vt' \in [Servers -> VTs \union {NoVT}] /\ have_vt_ref' \in [Servers -> BOOLEAN]
          /\ used_vts' \in [VTs -> Nat] /\ transition' \in Servers \union {None}
      <4>1. \/ UNCHANGED <<vt, have_vt_ref, used_vts, transition>>
            \/ \E v \in VTs : /\ vt_ref(v) /\ transition' \in {s, transition}
                              /\ vt' = [vt EXCEPT ![s] = v]
                              /\ have_vt_ref' = [have_vt_ref EXCEPT ![s] = TRUE]
        BY <3>1, Zenon DEF get_vt
      <4>2. /\ vt \in [Servers -> VTs \union {NoVT}] /\ have_vt_ref \in [Servers -> BOOLEAN]
            /\ used_vts \in [VTs -> Nat] /\ transition \in Servers \union {None}
        BY <1>0 DEF XTypeOK
      <4>3. CASE UNCHANGED <<vt, have_vt_ref, used_vts, transition>>
        BY <4>2, <4>3
      <4>4. ASSUME NEW v \in VTs, vt_ref(v), transition' \in {s, transition},
                   vt' = [vt EXCEPT ![s] = v], have_vt_ref' = [have_vt_ref EXCEPT ![s] = TRUE]
            PROVE  /\ vt' \in [Servers -> VTs \union {NoVT}] /\ have_vt_ref' \in [Servers -> BOOLEAN]
                   /\ used_vts' \in [VTs -> Nat] /\ transition' \in Servers \union {None}
        BY <4>2, <4>4 DEF vt_ref
      <4> QED BY <4>1, <4>3, <4>4
    <3>3. number' \in [Servers -> DisplayNumbers \union {None}] /\ display_numbers' \in [DisplayNumbers -> Nat]
      BY <1>0, <1>1 DEF create_x_server, get_unused_display_number, XTypeOK
    <3> QED BY <1>0, <1>00, <1>1, <2>0, <3>2, <3>3 DEF create_x_server, XTypeOK, ProcIInv
  <2>2. Lives'
    BY <1>0, <1>00, <1>1 DEF create_x_server, get_unused_display_number, display_number_in_use,
         get_vt, vt_ref, vt_get_unused, plymouth_quit, plymouth_get_is_active, procVars, Lives,
         Unmade, AnXServer, AWaylandSession, Gone, XTypeOK, ProcIInv, ProcTypeOK, TableInv,
         ChildStates
  <2>3. SplashFirst'
    BY <1>0, <1>00, <1>1 DEF create_x_server, get_unused_display_number, display_number_in_use,
         get_vt, vt_ref, vt_get_unused, plymouth_quit, plymouth_get_is_active, procVars,
         SplashFirst, plymouth_get_is_active, XTypeOK, SplashHandedOver
  <2>4. VTInv'
    <3>1. get_vt(s) /\ ~have_vt_ref[s]
      BY <1>0, <1>1 DEF create_x_server, Lives, Unmade
    <3> QED
      BY <1>0, <3>1 DEF get_vt, vt_ref, vt_get_unused, plymouth_quit, VTInv, Holders, SplashFirst,
           plymouth_get_is_active, XTypeOK
  <2>5. NumberInv'
    BY <1>0, <1>00, <1>1 DEF create_x_server, get_unused_display_number, display_number_in_use,
         get_vt, vt_ref, vt_get_unused, plymouth_quit, plymouth_get_is_active, procVars, NumberInv,
         HasNumber, XTypeOK, Lives, AnXServer, Unmade
  <2>6. HeldWhileRunning'
    BY <1>0, <1>00, <1>1 DEF create_x_server, get_unused_display_number, display_number_in_use,
         get_vt, vt_ref, vt_get_unused, plymouth_quit, plymouth_get_is_active, procVars,
         HeldWhileRunning, HasNumber, XTypeOK, Lives, Unmade, AnXServer, NumberInv, ProcIInv,
         ProcTypeOK, TableInv
  <2>7. SplashHandedOver'
    BY <1>0, <1>00, <1>1 DEF create_x_server, get_unused_display_number, display_number_in_use,
         get_vt, vt_ref, vt_get_unused, plymouth_quit, plymouth_get_is_active, procVars,
         SplashHandedOver, XTypeOK, Lives, Unmade
  <2> QED BY <1>00, <2>1, <2>2, <2>3, <2>4, <2>5, <2>6, <2>7 DEF XIInv, XResourcesInv
<1>2. ASSUME NEW s \in Servers, create_wayland_session(s) PROVE XIInv'
  <2>0. plymouth' \in [is_running : BOOLEAN, is_active : BOOLEAN]
    BY <1>0, <1>2, SplashTyped DEF XTypeOK, create_wayland_session, get_vt, vt_ref, vt_get_unused,
         plymouth_quit, plymouth_get_is_active, procVars
  <2>1. XTypeOK'
    <3>1. get_vt(s)
      BY <1>2 DEF create_wayland_session
    <3>2. /\ vt' \in [Servers -> VTs \union {NoVT}] /\ have_vt_ref' \in [Servers -> BOOLEAN]
          /\ used_vts' \in [VTs -> Nat] /\ transition' \in Servers \union {None}
      <4>1. \/ UNCHANGED <<vt, have_vt_ref, used_vts, transition>>
            \/ \E v \in VTs : /\ vt_ref(v) /\ transition' \in {s, transition}
                              /\ vt' = [vt EXCEPT ![s] = v]
                              /\ have_vt_ref' = [have_vt_ref EXCEPT ![s] = TRUE]
        BY <3>1, Zenon DEF get_vt
      <4>2. /\ vt \in [Servers -> VTs \union {NoVT}] /\ have_vt_ref \in [Servers -> BOOLEAN]
            /\ used_vts \in [VTs -> Nat] /\ transition \in Servers \union {None}
        BY <1>0 DEF XTypeOK
      <4>3. CASE UNCHANGED <<vt, have_vt_ref, used_vts, transition>>
        BY <4>2, <4>3
      <4>4. ASSUME NEW v \in VTs, vt_ref(v), transition' \in {s, transition},
                   vt' = [vt EXCEPT ![s] = v], have_vt_ref' = [have_vt_ref EXCEPT ![s] = TRUE]
            PROVE  /\ vt' \in [Servers -> VTs \union {NoVT}] /\ have_vt_ref' \in [Servers -> BOOLEAN]
                   /\ used_vts' \in [VTs -> Nat] /\ transition' \in Servers \union {None}
        BY <4>2, <4>4 DEF vt_ref
      <4> QED BY <4>1, <4>3, <4>4
    <3>3. number' \in [Servers -> DisplayNumbers \union {None}] /\ display_numbers' \in [DisplayNumbers -> Nat]
      BY <1>0, <1>2 DEF create_wayland_session, XTypeOK
    <3> QED BY <1>0, <1>00, <1>2, <2>0, <3>2, <3>3 DEF create_wayland_session, XTypeOK, ProcIInv
  <2>2. Lives'
    BY <1>0, <1>00, <1>2 DEF create_wayland_session, get_vt, vt_ref, vt_get_unused, plymouth_quit,
         plymouth_get_is_active, procVars, Lives, Unmade, AnXServer, AWaylandSession, Gone, XTypeOK,
         ProcIInv, ProcTypeOK, TableInv, ChildStates
  <2>3. SplashFirst'
    BY <1>0, <1>00, <1>2 DEF create_wayland_session, get_vt, vt_ref, vt_get_unused, plymouth_quit,
         plymouth_get_is_active, procVars, SplashFirst, plymouth_get_is_active, XTypeOK,
         SplashHandedOver
  <2>4. VTInv'
    <3>1. get_vt(s) /\ ~have_vt_ref[s]
      BY <1>0, <1>2 DEF create_wayland_session, Lives, Unmade
    <3> QED
      BY <1>0, <3>1 DEF get_vt, vt_ref, vt_get_unused, plymouth_quit, VTInv, Holders, SplashFirst,
           plymouth_get_is_active, XTypeOK
  <2>5. NumberInv'
    BY <1>0, <1>00, <1>2 DEF create_wayland_session, get_vt, vt_ref, vt_get_unused, plymouth_quit,
         plymouth_get_is_active, procVars, NumberInv, HasNumber, XTypeOK, Lives, AnXServer, Unmade
  <2>6. HeldWhileRunning'
    BY <1>0, <1>00, <1>2 DEF create_wayland_session, get_vt, vt_ref, vt_get_unused, plymouth_quit,
         plymouth_get_is_active, procVars, HeldWhileRunning, HasNumber, XTypeOK, Lives, Unmade,
         AnXServer, NumberInv, ProcIInv, ProcTypeOK, TableInv
  <2>7. SplashHandedOver'
    BY <1>0, <1>00, <1>2 DEF create_wayland_session, get_vt, vt_ref, vt_get_unused, plymouth_quit,
         plymouth_get_is_active, procVars, SplashHandedOver, XTypeOK, Lives, Unmade
  <2> QED BY <1>00, <2>1, <2>2, <2>3, <2>4, <2>5, <2>6, <2>7 DEF XIInv, XResourcesInv
<1>3. ASSUME NEW s \in Servers, x_server_local_start(s) PROVE XIInv'
  <2>1. XTypeOK'
    BY <1>0, <1>00, <1>3 DEF x_server_local_start, process_start, XTypeOK, ProcIInv
  <2>2. Lives'
    BY <1>0, <1>00, <1>3 DEF x_server_local_start, process_start, Lives, Unmade, AnXServer,
         AWaylandSession, Gone, XTypeOK, ProcIInv, ProcTypeOK, TableInv, ChildStates
  <2>3. SplashFirst'
    BY <1>0, <1>00, <1>3 DEF x_server_local_start, process_start, SplashFirst,
         plymouth_get_is_active, XTypeOK, SplashHandedOver
  <2>4. VTInv'
    BY <1>0, <1>00, <1>3 DEF x_server_local_start, process_start, VTInv, Holders, SplashFirst,
         plymouth_get_is_active, XTypeOK, Lives, Unmade
  <2>5. NumberInv'
    BY <1>0, <1>00, <1>3 DEF x_server_local_start, process_start, NumberInv, HasNumber, XTypeOK,
         Lives, AnXServer, Unmade
  <2>6. HeldWhileRunning'
    <3>1. /\ HasNumber(s) /\ ~pid[s] /\ number[s] \in DisplayNumbers
          /\ vt[s] # NoVT => have_vt_ref[s]
      BY <1>0, <1>3 DEF x_server_local_start, process_start, HasNumber, XTypeOK, Lives, AnXServer,
           ProcIInv, TableInv
    <3>2. /\ pid' = [pid EXCEPT ![s] = TRUE]
          /\ disk' = [disk EXCEPT ![number[s]] = s]
          /\ UNCHANGED <<kind, ds_stopped, number, vt, have_vt_ref>>
      BY <1>3 DEF x_server_local_start, process_start
    <3>3. pid \in [Procs -> BOOLEAN] /\ disk \in [DisplayNumbers -> Servers \union {None}]
      BY <1>0 DEF XTypeOK, ProcTypeOK
    <3>4. \A t \in Servers : HasNumber(t)' <=> HasNumber(t)
      BY <3>2 DEF HasNumber
    <3>5. \A t \in Servers \ {s} : HasNumber(t) => number[t] # number[s]
      BY <1>0, <3>1 DEF NumberInv
    <3>6. ASSUME NEW t \in Servers, pid'[t] PROVE HasNumber(t)' /\ (vt[t] # NoVT => have_vt_ref[t]) /\ disk'[number[t]] = t
      BY <1>0, <3>1, <3>2, <3>3, <3>4, <3>5, <3>6 DEF HeldWhileRunning
    <3>7. ASSUME NEW n \in DisplayNumbers, disk'[n] # None PROVE pid'[disk'[n]] /\ number[disk'[n]] = n
      BY <1>0, <3>1, <3>2, <3>3, <3>7 DEF HeldWhileRunning
    <3> QED BY <3>2, <3>6, <3>7 DEF HeldWhileRunning
  <2>7. SplashHandedOver'
    BY <1>0, <1>00, <1>3 DEF x_server_local_start, process_start, SplashHandedOver, XTypeOK, Lives,
         Unmade
  <2> QED BY <1>00, <2>1, <2>2, <2>3, <2>4, <2>5, <2>6, <2>7 DEF XIInv, XResourcesInv
<1>4. ASSUME NEW s \in Servers, x_server_local_start_fails(s) PROVE XIInv'
  <2>0. plymouth' \in [is_running : BOOLEAN, is_active : BOOLEAN]
    BY <1>0, <1>4, SplashTyped DEF XTypeOK, x_server_local_start_fails, process_start_fails,
         stopped_cb, emit_stopped, vt_unref, release_display_number, plymouth_quit
  <2>1. XTypeOK'
    <3>1. stopped_cb(s)
      BY <1>4 DEF x_server_local_start_fails
    <3>2. used_vts' \in [VTs -> Nat] /\ have_vt_ref' \in [Servers -> BOOLEAN]
      BY <1>0, <3>1 DEF stopped_cb, vt_unref, XTypeOK
    <3>3. display_numbers' \in [DisplayNumbers -> Nat]
      <4>1. number[s] \in DisplayNumbers
        BY <1>0, <1>4 DEF x_server_local_start_fails, Lives, AnXServer
      <4>2. display_numbers' = [display_numbers EXCEPT ![number[s]] = IF @ > 0 THEN @ - 1 ELSE 0]
        BY <3>1 DEF stopped_cb, release_display_number
      <4>3. display_numbers \in [DisplayNumbers -> Nat]
        BY <1>0 DEF XTypeOK
      <4>4. \A k \in Nat : (IF k > 0 THEN k - 1 ELSE 0) \in Nat
        OBVIOUS
      <4>5. display_numbers[number[s]] \in Nat
        BY <4>1, <4>3
      <4> QED BY <4>2, <4>3, <4>4, <4>5, Zenon
    <3>4. disk' \in [DisplayNumbers -> Servers \union {None}] /\ authority_file' \in [Servers -> BOOLEAN]
      BY <1>0, <3>1 DEF stopped_cb, XTypeOK
    <3>5. ds_stopped' \in [Servers -> Nat] /\ transition' \in Servers \union {None}
      BY <1>0, <3>1 DEF stopped_cb, emit_stopped, XTypeOK
    <3> QED BY <1>0, <1>00, <2>0, <3>1, <3>2, <3>3, <3>4, <3>5 DEF stopped_cb, XTypeOK, ProcIInv
  <2>2. Lives'
    BY <1>0, <1>00, <1>4 DEF x_server_local_start_fails, process_start_fails, stopped_cb,
         emit_stopped, vt_unref, release_display_number, plymouth_quit, Lives, Unmade, AnXServer,
         AWaylandSession, Gone, XTypeOK, ProcIInv, ProcTypeOK, TableInv, ChildStates
  <2>3. SplashFirst'
    BY <1>0, <1>00, <1>4 DEF x_server_local_start_fails, process_start_fails, stopped_cb,
         emit_stopped, vt_unref, release_display_number, plymouth_quit, SplashFirst,
         plymouth_get_is_active, XTypeOK, SplashHandedOver
  <2>4. VTInv'
    BY <1>0, <1>00, <1>4 DEF x_server_local_start_fails, process_start_fails, stopped_cb,
         emit_stopped, vt_unref, release_display_number, plymouth_quit, VTInv, Holders, SplashFirst,
         plymouth_get_is_active, XTypeOK, Lives, Unmade
  <2>5. NumberInv'
    BY SMTT(60), <1>0, <1>00, <1>4 DEF x_server_local_start_fails, process_start_fails, stopped_cb,
         emit_stopped, vt_unref, release_display_number, plymouth_quit, NumberInv, HasNumber,
         XTypeOK, Lives, AnXServer, Unmade
  <2>6. HeldWhileRunning'
    BY SMTT(60), <1>0, <1>00, <1>4 DEF x_server_local_start_fails, process_start_fails, stopped_cb,
         emit_stopped, vt_unref, release_display_number, plymouth_quit, HeldWhileRunning, HasNumber,
         XTypeOK, Lives, Unmade, AnXServer, NumberInv, ProcIInv, ProcTypeOK, TableInv
  <2>7. SplashHandedOver'
    BY <1>0, <1>00, <1>4 DEF x_server_local_start_fails, process_start_fails, stopped_cb,
         emit_stopped, vt_unref, release_display_number, plymouth_quit, SplashHandedOver, XTypeOK,
         Lives, Unmade
  <2> QED BY <1>00, <2>1, <2>2, <2>3, <2>4, <2>5, <2>6, <2>7 DEF XIInv, XResourcesInv
<1>5. ASSUME NEW s \in Servers, wayland_start(s) PROVE XIInv'
  <2>0. plymouth' \in [is_running : BOOLEAN, is_active : BOOLEAN]
    BY <1>0, <1>5, SplashTyped DEF XTypeOK, wayland_start, emit_ready, plymouth_quit, procVars
  <2>1. XTypeOK'
    BY <1>0, <1>00, <1>5, <2>0 DEF wayland_start, emit_ready, plymouth_quit, procVars, XTypeOK,
         ProcIInv
  <2>2. Lives'
    BY <1>0, <1>00, <1>5 DEF wayland_start, emit_ready, plymouth_quit, procVars, Lives, Unmade,
         AnXServer, AWaylandSession, Gone, XTypeOK, ProcIInv, ProcTypeOK, TableInv, ChildStates
  <2>3. SplashFirst'
    BY <1>0, <1>00, <1>5 DEF wayland_start, emit_ready, plymouth_quit, procVars, SplashFirst,
         plymouth_get_is_active, XTypeOK, SplashHandedOver
  <2>4. VTInv'
    BY <1>0, <1>00, <1>5 DEF wayland_start, emit_ready, plymouth_quit, procVars, VTInv, Holders,
         SplashFirst, plymouth_get_is_active, XTypeOK, Lives, Unmade
  <2>5. NumberInv'
    BY <1>0, <1>00, <1>5 DEF wayland_start, emit_ready, plymouth_quit, procVars, NumberInv,
         HasNumber, XTypeOK, Lives, AnXServer, Unmade
  <2>6. HeldWhileRunning'
    BY <1>0, <1>00, <1>5 DEF wayland_start, emit_ready, plymouth_quit, procVars, HeldWhileRunning,
         HasNumber, XTypeOK, Lives, Unmade, AnXServer, NumberInv, ProcIInv, ProcTypeOK, TableInv
  <2>7. SplashHandedOver'
    BY <1>0, <1>00, <1>5 DEF wayland_start, emit_ready, plymouth_quit, procVars, SplashHandedOver,
         XTypeOK, Lives, Unmade
  <2> QED BY <1>00, <2>1, <2>2, <2>3, <2>4, <2>5, <2>6, <2>7 DEF XIInv, XResourcesInv
<1>6. ASSUME NEW s \in Servers, display_server_stop(s) PROVE XIInv'
  <2>0. plymouth' \in [is_running : BOOLEAN, is_active : BOOLEAN]
    BY <1>0, <1>6, SplashTyped DEF XTypeOK, display_server_stop, process_stop, process_signal,
         emit_stopped, plymouth_quit, started, procVars
  <2>1. XTypeOK'
    BY <1>0, <1>00, <1>6, <2>0 DEF display_server_stop, process_stop, process_signal, emit_stopped,
         plymouth_quit, started, procVars, XTypeOK, ProcIInv
  <2>2. Lives'
    BY <1>0, <1>00, <1>6 DEF display_server_stop, process_stop, process_signal, emit_stopped,
         plymouth_quit, started, procVars, Lives, Unmade, AnXServer, AWaylandSession, Gone, XTypeOK,
         ProcIInv, ProcTypeOK, TableInv, ChildStates
  <2>3. SplashFirst'
    BY <1>0, <1>00, <1>6 DEF display_server_stop, process_stop, process_signal, emit_stopped,
         plymouth_quit, started, procVars, SplashFirst, plymouth_get_is_active, XTypeOK,
         SplashHandedOver
  <2>4. VTInv'
    BY <1>0, <1>00, <1>6 DEF display_server_stop, process_stop, process_signal, emit_stopped,
         plymouth_quit, started, procVars, VTInv, Holders, SplashFirst, plymouth_get_is_active,
         XTypeOK, Lives, Unmade
  <2>5. NumberInv'
    BY <1>0, <1>00, <1>6 DEF display_server_stop, process_stop, process_signal, emit_stopped,
         plymouth_quit, started, procVars, NumberInv, HasNumber, XTypeOK, Lives, AnXServer, Unmade
  <2>6. HeldWhileRunning'
    BY <1>0, <1>00, <1>6 DEF display_server_stop, process_stop, process_signal, emit_stopped,
         plymouth_quit, started, procVars, HeldWhileRunning, HasNumber, XTypeOK, Lives, Unmade,
         AnXServer, NumberInv, ProcIInv, ProcTypeOK, TableInv
  <2>7. SplashHandedOver'
    BY <1>0, <1>00, <1>6 DEF display_server_stop, process_stop, process_signal, emit_stopped,
         plymouth_quit, started, procVars, SplashHandedOver, XTypeOK, Lives, Unmade
  <2> QED BY <1>00, <2>1, <2>2, <2>3, <2>4, <2>5, <2>6, <2>7 DEF XIInv, XResourcesInv
<1>7. ASSUME NEW s \in Servers, x_server_exits(s) PROVE XIInv'
  <2>0. plymouth' \in [is_running : BOOLEAN, is_active : BOOLEAN]
    BY <1>0, <1>7, SplashTyped DEF XTypeOK, x_server_exits, process_watch_cb, stopped_cb,
         emit_stopped, vt_unref, release_display_number, plymouth_quit
  <2>1. XTypeOK'
    <3>1. stopped_cb(s)
      BY <1>7 DEF x_server_exits
    <3>2. used_vts' \in [VTs -> Nat] /\ have_vt_ref' \in [Servers -> BOOLEAN]
      BY <1>0, <3>1 DEF stopped_cb, vt_unref, XTypeOK
    <3>3. display_numbers' \in [DisplayNumbers -> Nat]
      <4>1. number[s] \in DisplayNumbers
        BY <1>0, <1>7 DEF x_server_exits, Lives, AnXServer
      <4>2. display_numbers' = [display_numbers EXCEPT ![number[s]] = IF @ > 0 THEN @ - 1 ELSE 0]
        BY <3>1 DEF stopped_cb, release_display_number
      <4>3. display_numbers \in [DisplayNumbers -> Nat]
        BY <1>0 DEF XTypeOK
      <4>4. \A k \in Nat : (IF k > 0 THEN k - 1 ELSE 0) \in Nat
        OBVIOUS
      <4>5. display_numbers[number[s]] \in Nat
        BY <4>1, <4>3
      <4> QED BY <4>2, <4>3, <4>4, <4>5, Zenon
    <3>4. disk' \in [DisplayNumbers -> Servers \union {None}] /\ authority_file' \in [Servers -> BOOLEAN]
      BY <1>0, <3>1 DEF stopped_cb, XTypeOK
    <3>5. ds_stopped' \in [Servers -> Nat] /\ transition' \in Servers \union {None}
      BY <1>0, <3>1 DEF stopped_cb, emit_stopped, XTypeOK
    <3> QED BY <1>0, <1>00, <2>0, <3>1, <3>2, <3>3, <3>4, <3>5 DEF stopped_cb, XTypeOK, ProcIInv
  <2>2. Lives'
    BY SMTT(60), <1>0, <1>00, <1>7 DEF x_server_exits, process_watch_cb, stopped_cb, emit_stopped, vt_unref,
         release_display_number, plymouth_quit, Lives, Unmade, AnXServer, AWaylandSession, Gone,
         XTypeOK, ProcIInv, ProcTypeOK, TableInv, ChildStates
  <2>3. SplashFirst'
    BY <1>0, <1>00, <1>7 DEF x_server_exits, process_watch_cb, stopped_cb, emit_stopped, vt_unref,
         release_display_number, plymouth_quit, SplashFirst, plymouth_get_is_active, XTypeOK,
         SplashHandedOver
  <2>4. VTInv'
    BY <1>0, <1>00, <1>7 DEF x_server_exits, process_watch_cb, stopped_cb, emit_stopped, vt_unref,
         release_display_number, plymouth_quit, VTInv, Holders, SplashFirst, plymouth_get_is_active,
         XTypeOK, Lives, Unmade
  <2>5. NumberInv'
    <3>1. /\ HasNumber(s) /\ ~HasNumber(s)'
          /\ \A t \in Servers \ {s} : HasNumber(t)' <=> HasNumber(t)
          /\ number' = number /\ number[s] \in DisplayNumbers
      BY <1>0, <1>7 DEF x_server_exits, process_watch_cb, stopped_cb, emit_stopped, HasNumber,
           XTypeOK, Lives, AnXServer
    <3>2. display_numbers' = [display_numbers EXCEPT ![number[s]] = IF @ > 0 THEN @ - 1 ELSE 0]
      BY <1>7 DEF x_server_exits, stopped_cb, release_display_number
    <3> QED BY <1>0, <3>1, <3>2 DEF NumberInv, XTypeOK
  <2>6. HeldWhileRunning'
    BY <1>0, <1>00, <1>7 DEF x_server_exits, process_watch_cb, stopped_cb, emit_stopped, vt_unref,
         release_display_number, plymouth_quit, HeldWhileRunning, HasNumber, XTypeOK, Lives, Unmade,
         AnXServer, NumberInv, ProcIInv, ProcTypeOK, TableInv
  <2>7. SplashHandedOver'
    BY <1>0, <1>00, <1>7 DEF x_server_exits, process_watch_cb, stopped_cb, emit_stopped, vt_unref,
         release_display_number, plymouth_quit, SplashHandedOver, XTypeOK, Lives, Unmade
  <2> QED BY <1>00, <2>1, <2>2, <2>3, <2>4, <2>5, <2>6, <2>7 DEF XIInv, XResourcesInv
<1>8. ASSUME NEW s \in Servers, finalize(s) PROVE XIInv'
  <2>1. XTypeOK'
    BY <1>0, <1>00, <1>8 DEF finalize, vt_unref, procVars, XTypeOK, ProcIInv
  <2>2. Lives'
    BY <1>0, <1>00, <1>8 DEF finalize, vt_unref, procVars, Lives, Unmade, AnXServer,
         AWaylandSession, Gone, XTypeOK, ProcIInv, ProcTypeOK, TableInv, ChildStates
  <2>3. SplashFirst'
    BY <1>0, <1>00, <1>8 DEF finalize, vt_unref, procVars, SplashFirst, plymouth_get_is_active,
         XTypeOK, SplashHandedOver
  <2>4. VTInv'
    BY <1>0, <1>00, <1>8 DEF finalize, vt_unref, procVars, VTInv, Holders, SplashFirst,
         plymouth_get_is_active, XTypeOK, Lives, Unmade
  <2>5. NumberInv'
    BY <1>0, <1>00, <1>8 DEF finalize, vt_unref, procVars, NumberInv, HasNumber, XTypeOK, Lives,
         AnXServer, Unmade
  <2>6. HeldWhileRunning'
    BY <1>0, <1>00, <1>8 DEF finalize, vt_unref, procVars, HeldWhileRunning, HasNumber, XTypeOK,
         Lives, Unmade, AnXServer, NumberInv, ProcIInv, ProcTypeOK, TableInv
  <2>7. SplashHandedOver'
    BY <1>0, <1>00, <1>8 DEF finalize, vt_unref, procVars, SplashHandedOver, XTypeOK, Lives, Unmade
  <2> QED BY <1>00, <2>1, <2>2, <2>3, <2>4, <2>5, <2>6, <2>7 DEF XIInv, XResourcesInv
<1>9. CASE got_signal_cb
  <2>0. plymouth' \in [is_running : BOOLEAN, is_active : BOOLEAN]
    BY <1>0, <1>9, SplashTyped DEF XTypeOK, got_signal_cb, handle_signal, SignalTarget, emit_ready,
         plymouth_quit
  <2>1. XTypeOK'
    BY <1>0, <1>00, <1>9, <2>0 DEF got_signal_cb, handle_signal, SignalTarget, emit_ready,
         plymouth_quit, XTypeOK, ProcIInv
  <2>2. Lives'
    <3>1. UNCHANGED <<pid, child, kind, vt, have_vt_ref, number, authority_file, ds_stopping, ds_stopped>>
      BY <1>9 DEF got_signal_cb, handle_signal
    <3>2. CASE UNCHANGED <<got_signal, is_ready>>
      BY <1>0, <3>1, <3>2 DEF Lives, Unmade, AnXServer, AWaylandSession, Gone
    <3>3. CASE ~UNCHANGED <<got_signal, is_ready>>
      <4> DEFINE t == SignalTarget
      <4>1. /\ t \in Servers /\ t \in processes
            /\ got_signal' = [got_signal EXCEPT ![t] = TRUE]
            /\ is_ready' = [is_ready EXCEPT ![t] = TRUE] \/ is_ready' = is_ready
        BY <1>9, <3>3 DEF got_signal_cb, emit_ready, SignalTarget
      <4>2. child[t] \in {"alive", "zombie"}
        BY <1>0, <4>1 DEF ProcIInv, TableInv
      <4>3. kind[t] = "x"
        BY <1>0, <4>1, <4>2 DEF Lives, Unmade, AWaylandSession, Gone, XTypeOK
      <4> QED BY <1>0, <3>1, <4>1, <4>2, <4>3 DEF Lives, Unmade, AnXServer, AWaylandSession, Gone,
                   XTypeOK
    <3> QED BY <3>2, <3>3
  <2>3. SplashFirst'
    BY <1>0, <1>00, <1>9 DEF got_signal_cb, handle_signal, SignalTarget, emit_ready, plymouth_quit,
         SplashFirst, plymouth_get_is_active, XTypeOK, SplashHandedOver
  <2>4. VTInv'
    BY <1>0, <1>00, <1>9 DEF got_signal_cb, handle_signal, SignalTarget, emit_ready, plymouth_quit,
         VTInv, Holders, SplashFirst, plymouth_get_is_active, XTypeOK, Lives, Unmade
  <2>5. NumberInv'
    BY <1>0, <1>00, <1>9 DEF got_signal_cb, handle_signal, SignalTarget, emit_ready, plymouth_quit,
         NumberInv, HasNumber, XTypeOK, Lives, AnXServer, Unmade
  <2>6. HeldWhileRunning'
    BY <1>0, <1>00, <1>9 DEF got_signal_cb, handle_signal, SignalTarget, emit_ready, plymouth_quit,
         HeldWhileRunning, HasNumber, XTypeOK, Lives, Unmade, AnXServer, NumberInv, ProcIInv,
         ProcTypeOK, TableInv
  <2>7. SplashHandedOver'
    BY <1>0, <1>00, <1>9 DEF got_signal_cb, handle_signal, SignalTarget, emit_ready, plymouth_quit,
         SplashHandedOver, XTypeOK, Lives, Unmade
  <2> QED BY <1>00, <2>1, <2>2, <2>3, <2>4, <2>5, <2>6, <2>7 DEF XIInv, XResourcesInv
<1>10. CASE ProcessStep
  <2>1. XTypeOK'
    BY <1>0, <1>00, <1>10 DEF ProcessStep, quit_timeout_cb, process_signal, ChildExits, signal_cb,
         serverVars, XTypeOK, ProcIInv
  <2>2. Lives'
    BY <1>0, <1>00, <1>10 DEF ProcessStep, quit_timeout_cb, process_signal, ChildExits, signal_cb,
         serverVars, Lives, Unmade, AnXServer, AWaylandSession, Gone, XTypeOK, ProcIInv, ProcTypeOK,
         TableInv, ChildStates
  <2>3. SplashFirst'
    BY <1>0, <1>00, <1>10 DEF ProcessStep, quit_timeout_cb, process_signal, ChildExits, signal_cb,
         serverVars, SplashFirst, plymouth_get_is_active, XTypeOK, SplashHandedOver
  <2>4. VTInv'
    BY <1>0, <1>00, <1>10 DEF ProcessStep, quit_timeout_cb, process_signal, ChildExits, signal_cb,
         serverVars, VTInv, Holders, SplashFirst, plymouth_get_is_active, XTypeOK, Lives, Unmade
  <2>5. NumberInv'
    BY <1>0, <1>00, <1>10 DEF ProcessStep, quit_timeout_cb, process_signal, ChildExits, signal_cb,
         serverVars, NumberInv, HasNumber, XTypeOK, Lives, AnXServer, Unmade
  <2>6. HeldWhileRunning'
    BY <1>0, <1>00, <1>10 DEF ProcessStep, quit_timeout_cb, process_signal, ChildExits, signal_cb,
         serverVars, HeldWhileRunning, HasNumber, XTypeOK, Lives, Unmade, AnXServer, NumberInv,
         ProcIInv, ProcTypeOK, TableInv
  <2>7. SplashHandedOver'
    BY <1>0, <1>00, <1>10 DEF ProcessStep, quit_timeout_cb, process_signal, ChildExits, signal_cb,
         serverVars, SplashHandedOver, XTypeOK, Lives, Unmade
  <2> QED BY <1>00, <2>1, <2>2, <2>3, <2>4, <2>5, <2>6, <2>7 DEF XIInv, XResourcesInv
<1>11. ASSUME NEW p \in Procs \ Servers, run_script(p) PROVE XIInv'
  <2>1. XTypeOK'
    BY <1>0, <1>00, <1>11 DEF run_script, process_start_block, serverVars, XTypeOK, ProcIInv
  <2>2. Lives'
    BY <1>0, <1>00, <1>11 DEF run_script, process_start_block, serverVars, Lives, Unmade, AnXServer,
         AWaylandSession, Gone, XTypeOK, ProcIInv, ProcTypeOK, TableInv, ChildStates
  <2>3. SplashFirst'
    BY <1>0, <1>00, <1>11 DEF run_script, process_start_block, serverVars, SplashFirst,
         plymouth_get_is_active, XTypeOK, SplashHandedOver
  <2>4. VTInv'
    BY <1>0, <1>00, <1>11 DEF run_script, process_start_block, serverVars, VTInv, Holders,
         SplashFirst, plymouth_get_is_active, XTypeOK, Lives, Unmade
  <2>5. NumberInv'
    BY <1>0, <1>00, <1>11 DEF run_script, process_start_block, serverVars, NumberInv, HasNumber,
         XTypeOK, Lives, AnXServer, Unmade
  <2>6. HeldWhileRunning'
    BY <1>0, <1>00, <1>11 DEF run_script, process_start_block, serverVars, HeldWhileRunning,
         HasNumber, XTypeOK, Lives, Unmade, AnXServer, NumberInv, ProcIInv, ProcTypeOK, TableInv
  <2>7. SplashHandedOver'
    BY <1>0, <1>00, <1>11 DEF run_script, process_start_block, serverVars, SplashHandedOver,
         XTypeOK, Lives, Unmade
  <2> QED BY <1>00, <2>1, <2>2, <2>3, <2>4, <2>5, <2>6, <2>7 DEF XIInv, XResourcesInv
<1>12. ASSUME NEW p \in Procs \ Servers, ScriptDone(p) PROVE XIInv'
  <2>1. XTypeOK'
    BY <1>0, <1>00, <1>12 DEF ScriptDone, process_watch_cb, serverVars, XTypeOK, ProcIInv
  <2>2. Lives'
    BY <1>0, <1>00, <1>12 DEF ScriptDone, process_watch_cb, serverVars, Lives, Unmade, AnXServer,
         AWaylandSession, Gone, XTypeOK, ProcIInv, ProcTypeOK, TableInv, ChildStates
  <2>3. SplashFirst'
    BY <1>0, <1>00, <1>12 DEF ScriptDone, process_watch_cb, serverVars, SplashFirst,
         plymouth_get_is_active, XTypeOK, SplashHandedOver
  <2>4. VTInv'
    BY <1>0, <1>00, <1>12 DEF ScriptDone, process_watch_cb, serverVars, VTInv, Holders, SplashFirst,
         plymouth_get_is_active, XTypeOK, Lives, Unmade
  <2>5. NumberInv'
    BY <1>0, <1>00, <1>12 DEF ScriptDone, process_watch_cb, serverVars, NumberInv, HasNumber,
         XTypeOK, Lives, AnXServer, Unmade
  <2>6. HeldWhileRunning'
    BY <1>0, <1>00, <1>12 DEF ScriptDone, process_watch_cb, serverVars, HeldWhileRunning, HasNumber,
         XTypeOK, Lives, Unmade, AnXServer, NumberInv, ProcIInv, ProcTypeOK, TableInv
  <2>7. SplashHandedOver'
    BY <1>0, <1>00, <1>12 DEF ScriptDone, process_watch_cb, serverVars, SplashHandedOver, XTypeOK,
         Lives, Unmade
  <2> QED BY <1>00, <2>1, <2>2, <2>3, <2>4, <2>5, <2>6, <2>7 DEF XIInv, XResourcesInv
<1>13. ASSUME NEW n \in ForeignNumbers, ForeignServer(n) PROVE XIInv'
  <2>1. XTypeOK'
    BY <1>0, <1>00, <1>13 DEF ForeignServer, procVars, XTypeOK, ProcIInv
  <2>2. Lives'
    BY <1>0, <1>00, <1>13 DEF ForeignServer, procVars, Lives, Unmade, AnXServer, AWaylandSession,
         Gone, XTypeOK, ProcIInv, ProcTypeOK, TableInv, ChildStates
  <2>3. SplashFirst'
    BY <1>0, <1>00, <1>13 DEF ForeignServer, procVars, SplashFirst, plymouth_get_is_active, XTypeOK,
         SplashHandedOver
  <2>4. VTInv'
    BY <1>0, <1>00, <1>13 DEF ForeignServer, procVars, VTInv, Holders, SplashFirst,
         plymouth_get_is_active, XTypeOK, Lives, Unmade
  <2>5. NumberInv'
    BY <1>0, <1>00, <1>13 DEF ForeignServer, procVars, NumberInv, HasNumber, XTypeOK, Lives,
         AnXServer, Unmade
  <2>6. HeldWhileRunning'
    BY <1>0, <1>00, <1>13 DEF ForeignServer, procVars, HeldWhileRunning, HasNumber, XTypeOK, Lives,
         Unmade, AnXServer, NumberInv, ProcIInv, ProcTypeOK, TableInv
  <2>7. SplashHandedOver'
    BY <1>0, <1>00, <1>13 DEF ForeignServer, procVars, SplashHandedOver, XTypeOK, Lives, Unmade
  <2> QED BY <1>00, <2>1, <2>2, <2>3, <2>4, <2>5, <2>6, <2>7 DEF XIInv, XResourcesInv
<1>20. CASE UNCHANGED xVars
  <2> USE <1>0, <1>20 DEF xVars, procVars, serverVars
  <2>1. XTypeOK'
    BY DEF XTypeOK, ProcTypeOK
  <2>2. Lives'
    BY DEF Lives, Unmade, AnXServer, AWaylandSession, Gone
  <2>3. SplashFirst'
    BY DEF SplashFirst, plymouth_get_is_active
  <2>4. VTInv'
    BY DEF VTInv, Holders
  <2>5. NumberInv'
    BY DEF NumberInv, HasNumber
  <2>6. HeldWhileRunning'
    BY DEF HeldWhileRunning, HasNumber
  <2>7. SplashHandedOver'
    BY DEF SplashHandedOver
  <2> QED BY <1>00, <2>1, <2>2, <2>3, <2>4, <2>5, <2>6, <2>7 DEF XIInv, XResourcesInv
<1> QED BY <1>1, <1>2, <1>3, <1>4, <1>5, <1>6, <1>7, <1>8, <1>9, <1>10, <1>11, <1>12, <1>13,
             <1>20 DEF XNext

(* What the servers hold is what they use, in every reachable state.       *)
THEOREM XServerInvariant == XSafety => []XIInv
BY XInitIInv, XNextIInv, PTL DEF XSafety

(* VTs, display numbers, authority files and the boot splash are held by   *)
(* the server that uses them, for any number of servers: the stopped_cb of *)
(* x-server-local.c and the finalizers give back, once, what get_vt and    *)
(* x_server_local_get_unused_display_number took.                          *)
THEOREM XResources == XSafety => []XResourcesInv
<1>1. XIInv => XResourcesInv
  BY DEF XIInv
<1> QED BY <1>1, XServerInvariant, PTL

----------------------------------------------------------------------------
(* The promise of DisplayServer                                            *)

(* The state of a server as the seat sees it, case by case.                *)
LEMMA StateIs ==
  ASSUME NEW s \in Servers, ds_stopped[s] \in Nat
  PROVE  /\ ds_stopped[s] > 0 => StateOf(s) = "stopped"
         /\ ds_stopped[s] = 0 /\ is_ready[s] => StateOf(s) = "ready"
         /\ ds_stopped[s] = 0 /\ ~is_ready[s] /\ child[s] # "none" => StateOf(s) = "starting"
         /\ ds_stopped[s] = 0 /\ ~is_ready[s] /\ child[s] = "none" => StateOf(s) = "new"
BY DEF StateOf

(* The same after a step that starts or ends a server.                     *)
LEMMA StateIsNext ==
  ASSUME NEW s \in Servers, ds_stopped'[s] \in Nat
  PROVE  /\ ds_stopped'[s] > 0 => StateOf(s)' = "stopped"
         /\ ds_stopped'[s] = 0 /\ is_ready'[s] => StateOf(s)' = "ready"
         /\ ds_stopped'[s] = 0 /\ ~is_ready'[s] /\ child'[s] # "none" => StateOf(s)' = "starting"
BY DEF StateOf

(* A step that leaves the fields of a server alone leaves its state.       *)
LEMMA StateSame ==
  ASSUME NEW s \in Servers,
         ds_stopped'[s] = ds_stopped[s], is_ready'[s] = is_ready[s],
         child'[s] = "none" <=> child[s] = "none"
  PROVE  StateOf(s)' = StateOf(s)
BY DEF StateOf

(* A step that changes the state of one server moves it.                   *)
LEMMA StateMoves ==
  ASSUME NEW s \in Servers, NEW from, NEW to,
         StateOf(s) \in from, StateOf(s)' = to,
         \A t \in Servers \ {s} : StateOf(t)' = StateOf(t)
  PROVE  SeatView!Move(s, from, to)
<1> DEFINE f == SeatState
<1>1. f = [t \in Servers |-> StateOf(t)] /\ f' = [t \in Servers |-> StateOf(t)']
  BY DEF SeatState
<1>2. f[s] \in from
  BY <1>1
<1>3. f' = [f EXCEPT ![s] = to]
  BY <1>1
<1> QED BY <1>2, <1>3 DEF SeatView!Move

(* Every step of the servers is a step of DisplayServer, or is not seen.   *)
LEMMA XStepsAreDSSteps ==
  ASSUME XIInv, XIInv', [XNext]_xVars
  PROVE  [SeatView!DSNext]_(SeatView!dsVars)
<1> USE XServerAssumption, ProcessAssumption
<1>0. /\ ProcIInv /\ XTypeOK /\ Lives
      /\ ds_stopped \in [Servers -> Nat] /\ ds_stopped' \in [Servers -> Nat]
      /\ is_ready \in [Servers -> BOOLEAN] /\ child \in [Procs -> ChildStates]
      /\ ds_stopping \in [Servers -> BOOLEAN]
  BY DEF XIInv, XTypeOK, ProcTypeOK
<1>1. ASSUME UNCHANGED <<ds_stopped, is_ready, ds_stopping>>,
             \A t \in Servers : child'[t] = "none" <=> child[t] = "none"
      PROVE  UNCHANGED SeatView!dsVars
  <2>1. \A t \in Servers : StateOf(t)' = StateOf(t)
    BY <1>1, StateSame
  <2> QED BY <1>1, <2>1 DEF SeatState, SeatView!dsVars
<1>2. ASSUME NEW s \in Servers, x_server_local_start(s) PROVE SeatView!Start(s)
  <2> USE DEF x_server_local_start, process_start
  <2>1. StateOf(s) = "new"
    BY <1>0, <1>2, StateIs DEF Lives, AnXServer
  <2>2. StateOf(s)' = "starting"
    BY <1>0, <1>2, StateIsNext DEF Lives, AnXServer
  <2>3. \A t \in Servers \ {s} : StateOf(t)' = StateOf(t)
    BY <1>0, <1>2, StateSame
  <2>4. SeatView!Move(s, {"new"}, "starting")
    BY <2>1, <2>2, <2>3, StateMoves
  <2> QED BY <1>2, <2>4 DEF SeatView!Start
<1>3. ASSUME NEW s \in Servers, x_server_local_start_fails(s) PROVE SeatView!StartFails(s)
  <2> USE DEF x_server_local_start_fails, process_start_fails, stopped_cb, emit_stopped
  <2>1. StateOf(s) = "new"
    BY <1>0, <1>3, StateIs DEF Lives, AnXServer
  <2>2. StateOf(s)' = "stopped"
    BY <1>0, <1>3, StateIsNext
  <2>3. \A t \in Servers \ {s} : StateOf(t)' = StateOf(t)
    BY <1>0, <1>3, StateSame
  <2>4. SeatView!Move(s, {"new"}, "stopped")
    BY <2>1, <2>2, <2>3, StateMoves
  <2> QED BY <1>3, <2>4 DEF SeatView!StartFails
<1>4. ASSUME NEW s \in Servers, wayland_start(s) PROVE SeatView!StartReady(s)
  <2> USE DEF wayland_start, emit_ready
  <2>1. StateOf(s) = "new"
    BY <1>0, <1>4, StateIs DEF Lives, AWaylandSession
  <2>2. StateOf(s)' = "ready"
    <3>1. ds_stopped'[s] = 0 /\ is_ready'[s]
      BY <1>0, <1>4 DEF Lives, AWaylandSession
    <3> QED BY <1>0, <3>1, StateIsNext
  <2>3. \A t \in Servers \ {s} : StateOf(t)' = StateOf(t)
    BY <1>0, <1>4, StateSame DEF procVars
  <2>4. SeatView!Move(s, {"new"}, "ready")
    BY <2>1, <2>2, <2>3, StateMoves
  <2> QED BY <1>4, <2>4 DEF SeatView!StartReady, SeatView!Announce
<1>5. ASSUME got_signal_cb PROVE (\E s \in Servers : SeatView!Ready(s)) \/ UNCHANGED SeatView!dsVars
  <2>1. CASE UNCHANGED is_ready
    BY <1>1, <1>5, <2>1 DEF got_signal_cb, handle_signal
  <2>2. CASE ~UNCHANGED is_ready
    <3>1. PICK s \in Servers :
             /\ s \in processes /\ ~got_signal[s]
             /\ is_ready' = [is_ready EXCEPT ![s] = TRUE]
             /\ UNCHANGED <<child, ds_stopped, ds_stopping>>
      BY <1>5, <2>2 DEF got_signal_cb, handle_signal, emit_ready, SignalTarget
    <3>2. child[s] \in {"alive", "zombie"}
      BY <1>0, <3>1 DEF ProcIInv, TableInv
    <3>3. kind[s] = "x"
      BY <1>0, <3>1, <3>2 DEF Lives, Unmade, AWaylandSession, Gone, XTypeOK
    <3>4. ds_stopped[s] = 0 /\ ~is_ready[s]
      BY <1>0, <3>1, <3>2, <3>3 DEF Lives, AnXServer
    <3>5. StateOf(s) = "starting"
      BY <1>0, <3>1, <3>2, <3>4, StateIs
    <3>6. StateOf(s)' = "ready"
      BY <1>0, <3>1, <3>4, StateIsNext
    <3>7. \A t \in Servers \ {s} : StateOf(t)' = StateOf(t)
      BY <1>0, <3>1, StateSame
    <3>8. SeatView!Move(s, {"starting"}, "ready")
      BY <3>1, <3>5, <3>6, <3>7, StateMoves
    <3>9. SeatView!Ready(s)
      BY <3>1, <3>4, <3>8 DEF SeatView!Ready, SeatView!Announce
    <3> QED BY <3>1, <3>9
  <2> QED BY <2>1, <2>2
<1>6. ASSUME NEW s \in Servers, x_server_exits(s) PROVE SeatView!Stopped(s)
  <2> USE DEF x_server_exits, process_watch_cb, stopped_cb, emit_stopped
  <2>1. StateOf(s) \in {"starting", "ready"}
    <3>1. ds_stopped[s] = 0 /\ child[s] # "none"
      BY <1>0, <1>6 DEF Lives, AnXServer
    <3> QED BY <1>0, <3>1, StateIs
  <2>2. StateOf(s)' = "stopped"
    BY <1>0, <1>6, StateIsNext
  <2>3. \A t \in Servers \ {s} : StateOf(t)' = StateOf(t)
    BY <1>0, <1>6, StateSame
  <2>4. SeatView!Move(s, {"starting", "ready"}, "stopped")
    BY <2>1, <2>2, <2>3, StateMoves
  <2> QED BY <1>6, <2>4 DEF SeatView!Stopped
<1>7. ASSUME NEW s \in Servers, display_server_stop(s) PROVE SeatView!Stop(s)
  <2>1. /\ ~ds_stopping[s] /\ ds_stopping' = [ds_stopping EXCEPT ![s] = TRUE]
        /\ UNCHANGED <<child, is_ready>>
        /\ child[s] # "none" \/ is_ready[s]
    BY <1>7 DEF display_server_stop, process_stop, started, procVars
  <2>2. StateOf(s) # "new"
    BY <1>0, <2>1, StateIs
  <2>3. SeatState[s] # "new"
    BY <2>2 DEF SeatState
  <2>4. CASE UNCHANGED ds_stopped
    <3>1. \A t \in Servers : StateOf(t)' = StateOf(t)
      BY <2>1, <2>4, StateSame
    <3>2. UNCHANGED SeatState
      BY <3>1 DEF SeatState
    <3> QED BY <2>1, <2>3, <3>2 DEF SeatView!Stop
  <2>5. CASE ~UNCHANGED ds_stopped
    <3>1. kind[s] = "wayland" /\ ds_stopped' = [ds_stopped EXCEPT ![s] = @ + 1]
      BY <1>7, <2>5 DEF display_server_stop, emit_stopped
    <3>2. ds_stopped[s] = 0 /\ child[s] = "none"
      BY <1>0, <2>1, <3>1 DEF Lives, AWaylandSession
    <3>3. StateOf(s) = "ready"
      BY <1>0, <2>1, <3>2, StateIs
    <3>4. StateOf(s)' = "stopped"
      BY <1>0, <3>1, StateIsNext
    <3>5. \A t \in Servers \ {s} : StateOf(t)' = StateOf(t)
      BY <1>0, <2>1, <3>1, StateSame
    <3>6. SeatView!Move(s, {"ready"}, "stopped")
      BY <3>3, <3>4, <3>5, StateMoves
    <3> QED BY <2>1, <2>3, <3>6 DEF SeatView!Stop
  <2> QED BY <2>4, <2>5
<1>8. ASSUME \/ ProcessStep \/ UNCHANGED xVars
             \/ \E n \in ForeignNumbers : ForeignServer(n)
             \/ \E p \in Procs \ Servers : run_script(p) \/ ScriptDone(p)
             \/ \E s \in Servers : create_x_server(s) \/ create_wayland_session(s) \/ finalize(s)
      PROVE  UNCHANGED SeatView!dsVars
  <2>1. UNCHANGED <<ds_stopped, is_ready, ds_stopping>>
    BY <1>8 DEF ProcessStep, xVars, serverVars, ForeignServer, run_script, ScriptDone,
                create_x_server, create_wayland_session, finalize
  <2>2. \A t \in Servers : child'[t] = "none" <=> child[t] = "none"
    <3>1. CASE ProcessStep
      BY <1>0, <3>1 DEF ProcessStep, quit_timeout_cb, ChildExits, signal_cb
    <3>2. CASE \E p \in Procs \ Servers : run_script(p) \/ ScriptDone(p)
      BY <1>0, <3>2 DEF run_script, process_start_block, ScriptDone, process_watch_cb
    <3>3. CASE \/ UNCHANGED xVars
               \/ \E n \in ForeignNumbers : ForeignServer(n)
               \/ \E s \in Servers : create_x_server(s) \/ create_wayland_session(s) \/ finalize(s)
      BY <3>3 DEF xVars, procVars, ForeignServer, create_x_server, create_wayland_session, finalize
    <3> QED BY <1>8, <3>1, <3>2, <3>3
  <2> QED BY <1>1, <2>1, <2>2
<1> QED
  BY <1>2, <1>3, <1>4, <1>5, <1>6, <1>7, <1>8 DEF XNext, SeatView!DSNext

(* The servers implement DisplayServer: whatever the order in which        *)
(* SIGUSR1, the exit of the child and the stop request arrive, the seat    *)
(* hears READY at most once, never after STOPPED, and one STOPPED.         *)
THEOREM XKeepsPromise == XSafety => KeepsPromise
<1>1. XInit => SeatView!DSInit
  <2> SUFFICES ASSUME XInit PROVE SeatView!DSInit
    OBVIOUS
  <2>1. \A s \in Servers : StateOf(s) = "new"
    BY XServerAssumption, StateIs DEF XInit, ProcInit, StateOf
  <2> QED BY <2>1 DEF XInit, SeatState, SeatView!DSInit
<1>2. XIInv /\ XIInv' /\ [XNext]_xVars => [SeatView!DSNext]_(SeatView!dsVars)
  BY XStepsAreDSSteps
<1> QED BY <1>1, <1>2, XServerInvariant, PTL DEF XSafety, KeepsPromise, SeatView!DSSafety
============================================================================
