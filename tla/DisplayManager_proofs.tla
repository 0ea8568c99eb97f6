------------------------ MODULE DisplayManager_proofs ------------------------
(***************************************************************************)
(* Proofs about DisplayManager, Login1 and DisplayManagerService together, *)
(* for any finite set of logind seats, any list of types, and any number   *)
(* of changes, remote seats and sessions.  DMStops needs fairness and is   *)
(* left to TLC.                                                            *)
(***************************************************************************)
EXTENDS DisplayManagerService, FiniteSetTheorems, TLAPS

(***************************************************************************)
(* The list of seats                                                       *)
(***************************************************************************)

(* The seats there may be when k remote ones have been added.              *)
NamesUpTo(k) == Names \union {Seat0, XRemote} \union {RemoteName(j) : j \in 1..k}

SeatsUpTo(k) ==
  [serial : Nat, name : NamesUpTo(k), types : 1..NTypes, exit_on_failure : BOOLEAN,
   stopping : BOOLEAN, fault : BOOLEAN, waiting : BOOLEAN, stale : SUBSET BOOLEAN, late : BOOLEAN]

(* A list with at most m seats started for it: no seat is in it twice, nor *)
(* a name of logind, and a handler that outlived its logind seat waits for *)
(* a seat that is stopping.                                                *)
Sound(list, k, m) ==
  /\ list \in Seq(SeatsUpTo(k))
  /\ \A i \in 1..Len(list) : list[i].serial \in 1..m
  /\ \A i, j \in 1..Len(list) : list[i].serial = list[j].serial => i = j
  /\ \A i, j \in 1..Len(list) : list[i].name = list[j].name /\ list[i].name \in Names => i = j
  /\ \A i \in 1..Len(list) : list[i].stale # {} => list[i].stopping

(* Once the daemon is stopping every seat of the list is.                  *)
AllStopping(list) == \A i \in 1..Len(list) : list[i].stopping

(* The daemon's list and its shutdown.                                     *)
ListInv ==
  /\ required \subseteq Names
  /\ {dm_stopping, dm_stopped, exit_failure} \subseteq BOOLEAN
  /\ remote_count \in Nat /\ made \in Nat
  /\ failed \subseteq Names
  /\ Sound(seats, remote_count, made)
  /\ dm_stopping => AllStopping(seats)
  /\ dm_stopped => seats = <<>>

(***************************************************************************)
(* Serving what logind offers                                              *)
(***************************************************************************)

(* A seat that runs, or is awaited, or went wrong.                         *)
Covers(s) == ~s.stopping \/ s.waiting \/ s.fault
Covered(n, list) == \E i \in 1..Len(list) : list[i].name = n /\ Covers(list[i])

(* logind has the seat, and the daemon wants a seat for it.                *)
Offered(n, pres, graph) == n \in pres /\ wanted(n \in graph)

(* What is offered again while a seat of its last time is stopping is      *)
(* waited for.                                                             *)
StaleWaits(list, pres, graph) ==
  \A i \in 1..Len(list) : list[i].stale # {} /\ Offered(list[i].name, pres, graph) => list[i].waiting

(* What is offered of S has a seat that covers it, or has failed.          *)
AllServed(S, list, pres, graph, fail) ==
  \A n \in S : Offered(n, pres, graph) => n \in fail \/ Covered(n, list)

(* How far main may have come; no seat is added early.                     *)
Early == {"connect", "list", "default", "properties"}
Phases == Early \union {"seats", "running", "exited"}

(* What is in a list.                                                      *)
Elements(s) == {s[i] : i \in 1..Len(s)}

(* What main has done in each phase: no seat is known before the list of   *)
(* seats is there, none is added before all are known, and a call is       *)
(* waited for only while they are being asked for, or later.               *)
PhaseInv ==
  /\ phase \in Phases /\ connected \in BOOLEAN
  /\ todo \in Seq(Names)
  /\ asking \in Names \union {NoName}
  /\ present \subseteq Names /\ graphical \subseteq present
  /\ phase \in {"connect", "list", "default"} => present = {}
  /\ phase \in Early => seats = <<>> /\ ~connected
  /\ phase = "seats" => connected
  /\ dm_stopping => phase \in {"running", "exited"}
  /\ dm_stopped => dm_stopping /\ asking = NoName
  /\ phase \notin {"properties", "running"} => asking = NoName
  /\ phase = "properties" => present \subseteq Elements(todo)
  /\ phase = "properties" /\ asking # NoName => asking \in Elements(todo)

(* What is offered is served: all of it once main runs, and before that    *)
(* what main has dealt with.                                               *)
ServingInv ==
  /\ StaleWaits(seats, present, graphical)
  /\ ~dm_stopping /\ phase = "seats" =>
       AllServed(present \ Elements(todo), seats, present, graphical, failed)
  /\ ~dm_stopping /\ phase = "running" => AllServed(present, seats, present, graphical, failed)

(***************************************************************************)
(* Following logind                                                        *)
(***************************************************************************)

(* The signals of logind.                                                  *)
Signal ==
  [t : {"SeatNew", "SeatRemoved"}, seat : Names]
    \union [t : {"PropertiesChanged"}, seat : Names, valid : BOOLEAN, lit : BOOLEAN, to : Nat]

(* Signal number i of b is of kind t and about seat n; one is under way.   *)
Says(b, t, n, i) == b[i].t = t /\ b[i].seat = n
UnderWay(b, t, n) == \E i \in 1..Len(b) : Says(b, t, n, i)

(* A change that the object number k of seat n is told of.                 *)
Tells(b, n, k, i) == Says(b, "PropertiesChanged", n, i) /\ b[i].to = k

(* Signals of a seat's coming and going end with the last of them.         *)
InOrder(b, n, state) ==
  \A i \in 1..Len(b) :
    /\ Says(b, "SeatNew", n, i) /\ state = "absent" =>
         \E j \in 1..Len(b) : i < j /\ Says(b, "SeatRemoved", n, j)
    /\ Says(b, "SeatRemoved", n, i) /\ state # "absent" =>
         \E j \in 1..Len(b) : i < j /\ Says(b, "SeatNew", n, j)

(* What the daemon does not know yet it will be told of.                   *)
Heard(b, n, state, known) ==
  /\ state = "absent" /\ known => UnderWay(b, "SeatRemoved", n)
  /\ state # "absent" /\ ~known => UnderWay(b, "SeatNew", n)

(* The last change that its object is told of is right ...                 *)
LastRight(b, n, k, state) ==
  ~UnderWay(b, "SeatRemoved", n) =>
    \A i \in 1..Len(b) :
      /\ Tells(b, n, k, i) /\ b[i].valid
      /\ \A j \in 1..Len(b) : i < j => ~Tells(b, n, k, j)
      => (b[i].lit <=> state = "lit")

(* ... and when there is none the daemon's picture is.                     *)
PictureRight(b, n, k, state, bright) ==
  /\ ~UnderWay(b, "SeatRemoved", n)
  /\ \A i \in 1..Len(b) : ~Tells(b, n, k, i)
  => (bright <=> state = "lit")

(* main has the answer of ListSeats, and logind's signals will be handled. *)
Following == phase = "properties" \/ (phase \in {"seats", "running"} /\ connected)

(* The seats that main is asking about or will, or that the daemon has.    *)
KnownSeats == IF phase = "properties" THEN Elements(todo) ELSE present \union {asking}

(* What the daemon knows of logind and what is under way make up what      *)
(* logind is.                                                              *)
SignalInv ==
  /\ logind \in [Names -> {"absent", "dark", "lit"}]
  /\ bus \in Seq(Signal)
  /\ objects \in [Names -> Nat]
  /\ phase = "connect" => bus = <<>> /\ \A n \in Names : objects[n] = 0
  /\ \A n \in Names : n \in present \/ n = asking => objects[n] > 0
  /\ \A i \in 1..Len(bus) : bus[i].t = "PropertiesChanged" => bus[i].to <= objects[bus[i].seat]
  /\ \A n \in Names : InOrder(bus, n, logind[n])
  /\ Following => \A n \in Names :
       /\ Heard(bus, n, logind[n], n \in KnownSeats)
       /\ n \in present \/ n = asking => LastRight(bus, n, objects[n], logind[n])
       /\ n \in present => PictureRight(bus, n, objects[n], logind[n], n \in graphical)

(***************************************************************************)
(* Objects on the bus                                                      *)
(***************************************************************************)

(* What the variables of the service hold.                                 *)
UserSession == [seat : Nat, runs : BOOLEAN, seen : BOOLEAN]
Entry == [path : Nat, seat_path : Nat]

(* Paths are counted up, and a session that runs has its seat.             *)
EntryInv ==
  /\ acquired \in BOOLEAN
  /\ seat_index \in Nat /\ session_index \in Nat
  /\ user_sessions \in Seq(UserSession)
  /\ \A s \in 1..Len(user_sessions) : user_sessions[s].seat \in 1..made
  /\ seat_entries \in [DOMAIN seat_entries -> Nat]
  /\ DOMAIN seat_entries \subseteq 1..made
  /\ \A x \in DOMAIN seat_entries : seat_entries[x] < seat_index
  /\ session_entries \in [DOMAIN session_entries -> Entry]
  /\ DOMAIN session_entries \subseteq 1..Len(user_sessions)
  /\ \A s \in DOMAIN session_entries : session_entries[s].seat_path < seat_index
  /\ ~acquired => DOMAIN seat_entries = {} /\ DOMAIN session_entries = {}
  /\ \A s \in 1..Len(user_sessions) : user_sessions[s].runs =>
       user_sessions[s].seat \in Serials(seats)

(* The inductive invariant.                                                *)
DMIInv == ListInv /\ PhaseInv /\ ServingInv /\ SignalInv /\ EntryInv /\ BusShowsSeats


(* A function on 1..n is a list.                                           *)
LEMMA MappedList ==
  ASSUME NEW n \in Nat, NEW S, NEW l, DOMAIN l = 1..n, l = [i \in DOMAIN l |-> l[i]],
         \A i \in 1..n : l[i] \in S
  PROVE  l \in Seq(S) /\ Len(l) = n
OBVIOUS

(* The seats there may be only become more.                                *)
LEMMA NamesGrow ==
  ASSUME NEW k \in Nat, NEW l \in Nat, k <= l
  PROVE  NamesUpTo(k) \subseteq NamesUpTo(l) /\ SeatsUpTo(k) \subseteq SeatsUpTo(l)
<1>1. 1..k \subseteq 1..l
  OBVIOUS
<1>2. NamesUpTo(k) \subseteq NamesUpTo(l)
  BY <1>1 DEF NamesUpTo
<1> QED
  BY <1>2 DEF SeatsUpTo

(* The same seats, which may be stopping now.                              *)
Like(l, list) ==
  /\ Len(l) = Len(list)
  /\ \A i \in 1..Len(list) :
       /\ l[i].serial = list[i].serial /\ l[i].name = list[i].name
       /\ list[i].stopping => l[i].stopping

(* A list of the same seats is as sound.                                   *)
LEMMA LikeSound ==
  ASSUME NEW k, NEW m, NEW list, NEW l, Sound(list, k, m), l \in Seq(SeatsUpTo(k)), Like(l, list),
         \A i \in 1..Len(l) : l[i].stale # {} => l[i].stopping
  PROVE  /\ Sound(l, k, m)
         /\ NamesIn(l) = NamesIn(list) /\ Serials(l) = Serials(list)
         /\ AllStopping(list) => AllStopping(l)
<1>1. Sound(l, k, m)
  BY DEF Sound, Like
<1>2. NamesIn(l) = NamesIn(list) /\ Serials(l) = Serials(list)
  BY DEF NamesIn, Serials, Like
<1> QED
  BY <1>1, <1>2 DEF AllStopping, Like

(* The list after seat_stop on the seats of one name, and on all, and      *)
(* after a handler has been connected to those of a name that are stopping.*)
Stopped(list, n) == [i \in 1..Len(list) |-> [list[i] EXCEPT !.stopping = @ \/ list[i].name = n]]
AllStopped(list) == [i \in 1..Len(list) |-> [list[i] EXCEPT !.stopping = @ \/ TRUE]]
Awaited(list, n) ==
  [i \in 1..Len(list) |-> [list[i] EXCEPT !.waiting = @ \/ (list[i].name = n /\ list[i].stopping)]]

(* seat_stop on the seats of one name changes nothing else.                *)
LEMMA StopNamed ==
  ASSUME NEW k, NEW m, NEW list, Sound(list, k, m), NEW n, NEW l, l = Stopped(list, n)
  PROVE  /\ Like(l, list)
         /\ Sound(l, k, m)
         /\ \A i \in 1..Len(list) :
              /\ l[i].waiting = list[i].waiting /\ l[i].fault = list[i].fault
              /\ l[i].stale = list[i].stale
              /\ l[i].stopping <=> (list[i].stopping \/ list[i].name = n)
<1>1. l = [i \in 1..Len(list) |-> [list[i] EXCEPT !.stopping = @ \/ list[i].name = n]]
  BY DEF Stopped
<1>0. list \in Seq(SeatsUpTo(k)) /\ Len(list) \in Nat
  BY DEF Sound
<1>2. ASSUME NEW i \in 1..Len(list)
      PROVE  /\ l[i] \in SeatsUpTo(k)
             /\ l[i].serial = list[i].serial /\ l[i].name = list[i].name
             /\ l[i].waiting = list[i].waiting /\ l[i].fault = list[i].fault
             /\ l[i].stale = list[i].stale
             /\ l[i].stopping <=> (list[i].stopping \/ list[i].name = n)
  <2>1. list[i] \in SeatsUpTo(k)
    BY <1>0
  <2> DEFINE b == list[i].stopping \/ list[i].name = n
  <2>2. b \in BOOLEAN
    OBVIOUS
  <2>3. l[i] = [list[i] EXCEPT !.stopping = b]
    BY <1>1
  <2>4. b <=> (list[i].stopping \/ list[i].name = n)
    OBVIOUS
  <2> HIDE DEF b
  <2> QED
    BY <2>1, <2>2, <2>3, <2>4 DEF SeatsUpTo
<1>6. DOMAIN l = 1..Len(list) /\ l = [i \in DOMAIN l |-> l[i]]
  BY <1>1, Zenon
<1>3. Len(l) = Len(list) /\ l \in Seq(SeatsUpTo(k))
  <2>1. \A i \in 1..Len(list) : l[i] \in SeatsUpTo(k)
    BY <1>2
  <2> QED BY <1>0, <1>6, <2>1, MappedList
<1>4. Like(l, list)
  BY <1>2, <1>3 DEF Like
<1>5. \A i \in 1..Len(l) : l[i].stale # {} => l[i].stopping
  BY <1>2, <1>3 DEF Sound
<1> QED
  BY <1>2, <1>3, <1>4, <1>5, LikeSound

(* seat_stop on all seats leaves them stopping.                            *)
LEMMA StopAll ==
  ASSUME NEW k, NEW m, NEW list, Sound(list, k, m), NEW l, l = AllStopped(list)
  PROVE  /\ Like(l, list) /\ Sound(l, k, m) /\ AllStopping(l)
<1>1. l = [i \in 1..Len(list) |-> [list[i] EXCEPT !.stopping = @ \/ TRUE]]
  BY DEF AllStopped
<1>0. list \in Seq(SeatsUpTo(k)) /\ Len(list) \in Nat
  BY DEF Sound
<1>2. ASSUME NEW i \in 1..Len(list)
      PROVE  /\ l[i] \in SeatsUpTo(k)
             /\ l[i].serial = list[i].serial /\ l[i].name = list[i].name
             /\ l[i].waiting = list[i].waiting /\ l[i].fault = list[i].fault
             /\ l[i].stale = list[i].stale
             /\ l[i].stopping
  <2>1. list[i] \in SeatsUpTo(k)
    BY <1>0
  <2>3. l[i] = [list[i] EXCEPT !.stopping = TRUE]
    BY <1>1
  <2> QED
    BY <2>1, <2>3 DEF SeatsUpTo
<1>3. Len(l) = Len(list) /\ l \in Seq(SeatsUpTo(k))
  BY <1>0, <1>1, <1>2
<1>4. Like(l, list)
  BY <1>2, <1>3 DEF Like
<1> QED
  BY <1>2, <1>3, <1>4, LikeSound DEF AllStopping

(* A list with a seat more, of a name it has not got.                      *)
LEMMA AppendSound ==
  ASSUME NEW k, NEW m \in Nat, NEW list, Sound(list, k, m), NEW s \in SeatsUpTo(k), s.serial = m + 1,
         s.stale = {}, s.name \in Names => s.name \notin NamesIn(list)
  PROVE  LET l == Append(list, s) IN
         /\ Sound(l, k, m + 1)
         /\ Len(l) = Len(list) + 1 /\ l[Len(l)] = s /\ \A i \in 1..Len(list) : l[i] = list[i]
         /\ NamesIn(l) = NamesIn(list) \union {s.name}
         /\ Serials(l) = Serials(list) \union {m + 1}
<1> DEFINE l == Append(list, s)
<1>0. list \in Seq(SeatsUpTo(k)) /\ Len(list) \in Nat
  BY DEF Sound
<1>1. /\ l \in Seq(SeatsUpTo(k)) /\ Len(l) = Len(list) + 1
      /\ l[Len(l)] = s /\ \A i \in 1..Len(list) : l[i] = list[i]
  BY <1>0
<1> HIDE DEF l
<1>2. \A i \in 1..Len(l) : i \in 1..Len(list) \/ i = Len(l)
  BY <1>0, <1>1
<1>3. 1..Len(list) \subseteq 1..Len(l) /\ Len(l) \in 1..Len(l)
  BY <1>0, <1>1
<1>4. NamesIn(l) = NamesIn(list) \union {s.name}
  BY <1>1, <1>2, <1>3 DEF NamesIn
<1>5. Serials(l) = Serials(list) \union {m + 1}
  BY <1>1, <1>2, <1>3 DEF Serials
<1>6. \A i \in 1..Len(l) : l[i].serial \in 1..(m + 1)
  BY <1>1, <1>2 DEF Sound
<1>7. ASSUME NEW i \in 1..Len(l), NEW j \in 1..Len(l), l[i].serial = l[j].serial
      PROVE  i = j
  BY <1>1, <1>2, <1>7 DEF Sound
<1>8. ASSUME NEW i \in 1..Len(l), NEW j \in 1..Len(l), l[i].name = l[j].name, l[i].name \in Names
      PROVE  i = j
  BY <1>1, <1>2, <1>8 DEF Sound, NamesIn
<1>9. \A i \in 1..Len(l) : l[i].stale # {} => l[i].stopping
  BY <1>1, <1>2 DEF Sound
<1>10. Sound(l, k, m + 1)
  BY <1>1, <1>6, <1>7, <1>8, <1>9 DEF Sound
<1> QED
  BY <1>1, <1>4, <1>5, <1>10 DEF l

(* The places of a list made of two.                                       *)
LEMMA ConcatAt ==
  ASSUME NEW S, NEW a \in Seq(S), NEW b \in Seq(S), NEW j \in 1..(Len(a) + Len(b))
  PROVE  (a \o b)[j] = IF j <= Len(a) THEN a[j] ELSE b[j - Len(a)]
OBVIOUS

(* l has the seats of the list except the one at i.                        *)
Others(l, list, i) ==
  /\ \A j \in 1..Len(l) : \E p \in 1..Len(list) : p # i /\ l[j] = list[p]
  /\ \A p \in 1..Len(list) : p # i => \E j \in 1..Len(l) : l[j] = list[p]

(* A list without the seat that has stopped.                               *)
LEMMA RemoveSound ==
  ASSUME NEW k, NEW m \in Nat, NEW list, Sound(list, k, m), NEW i \in 1..Len(list),
         NEW l, l = RemoveAt(list, i)
  PROVE  /\ Sound(l, k, m)
         /\ Others(l, list, i)
         /\ list[i].name \in Names => list[i].name \notin NamesIn(l)
         /\ NamesIn(l) \subseteq NamesIn(list)
         /\ Serials(l) = Serials(list) \ {list[i].serial}
         /\ AllStopping(list) => AllStopping(l)
<1>0. list \in Seq(SeatsUpTo(k)) /\ Len(list) \in Nat /\ i \in Nat /\ i >= 1 /\ i <= Len(list)
  BY DEF Sound
<1>1. /\ l \in Seq(SeatsUpTo(k)) /\ Len(l) = Len(list) - 1
      /\ \A j \in 1..Len(l) : l[j] = IF j < i THEN list[j] ELSE list[j + 1]
  <2> DEFINE a == SubSeq(list, 1, i - 1)
             b == SubSeq(list, i + 1, Len(list))
  <2>1. a \in Seq(SeatsUpTo(k)) /\ Len(a) = i - 1 /\ \A j \in 1..(i - 1) : a[j] = list[j]
    BY <1>0
  <2>2. b \in Seq(SeatsUpTo(k)) /\ Len(b) = Len(list) - i /\ \A j \in 1..(Len(list) - i) : b[j] = list[i + j]
    BY <1>0
  <2>3. l = a \o b
    BY DEF RemoveAt
  <2> HIDE DEF a, b
  <2>4. l \in Seq(SeatsUpTo(k)) /\ Len(l) = Len(a) + Len(b)
    <3>1. a \in Seq(SeatsUpTo(k)) /\ b \in Seq(SeatsUpTo(k))
      BY <2>1, <2>2
    <3> QED BY <2>3, <3>1
  <2>5. \A j \in 1..Len(l) : l[j] = IF j <= Len(a) THEN a[j] ELSE b[j - Len(a)]
    <3>1. Len(a) \in Nat /\ Len(b) \in Nat
      BY <2>1, <2>2
    <3> QED BY <2>1, <2>2, <2>3, <2>4, <3>1, ConcatAt
  <2> QED BY <1>0, <2>1, <2>2, <2>4, <2>5
<1>2. \A j \in 1..Len(l) : \E p \in 1..Len(list) : p # i /\ l[j] = list[p] /\ p = IF j < i THEN j ELSE j + 1
  BY <1>0, <1>1
<1>3. ASSUME NEW p \in 1..Len(list), p # i PROVE \E j \in 1..Len(l) : l[j] = list[p]
  <2>1. CASE p < i
    BY <1>0, <1>1, <2>1
  <2>2. CASE ~(p < i)
    <3>1. p - 1 \in 1..Len(l) /\ ~(p - 1 < i) /\ (p - 1) + 1 = p
      BY <1>0, <1>1, <1>3, <2>2
    <3> QED BY <1>1, <3>1
  <2> QED BY <2>1, <2>2
<1>4. list[i].name \in Names => list[i].name \notin NamesIn(l)
  BY SMTT(60), <1>2 DEF NamesIn, Sound
<1>5. NamesIn(l) \subseteq NamesIn(list)
  BY <1>2 DEF NamesIn
<1>6. Serials(l) = Serials(list) \ {list[i].serial}
  <2>1. ASSUME NEW x \in Serials(l) PROVE x \in Serials(list) \ {list[i].serial}
    <3>1. PICK j \in 1..Len(l) : x = l[j].serial
      BY <2>1 DEF Serials
    <3>2. PICK p \in 1..Len(list) : p # i /\ l[j] = list[p]
      BY <1>2
    <3> QED BY <3>1, <3>2 DEF Serials, Sound
  <2>2. ASSUME NEW x \in Serials(list), x # list[i].serial PROVE x \in Serials(l)
    <3>1. PICK p \in 1..Len(list) : x = list[p].serial
      BY <2>2 DEF Serials
    <3> QED BY <1>3, <2>2, <3>1 DEF Serials
  <2> QED BY <2>1, <2>2
<1>7. AllStopping(list) => AllStopping(l)
  BY <1>2 DEF AllStopping
<1>8. ASSUME NEW j \in 1..Len(l), NEW q \in 1..Len(l)
      PROVE  /\ l[j].serial = l[q].serial => j = q
             /\ l[j].name = l[q].name /\ l[j].name \in Names => j = q
  <2>1. PICK p \in 1..Len(list) : p # i /\ l[j] = list[p] /\ p = IF j < i THEN j ELSE j + 1
    BY <1>2
  <2>2. PICK r \in 1..Len(list) : r # i /\ l[q] = list[r] /\ r = IF q < i THEN q ELSE q + 1
    BY <1>2
  <2>3. p = r => j = q
    BY <1>0, <1>1, <2>1, <2>2
  <2> QED BY <2>1, <2>2, <2>3 DEF Sound
<1>9. Sound(l, k, m)
  BY <1>1, <1>2, <1>8 DEF Sound
<1>10. Others(l, list, i)
  BY <1>2, <1>3 DEF Others
<1> QED
  BY <1>4, <1>5, <1>6, <1>7, <1>9, <1>10

(* Waiting for the seats of a name that are stopping changes nothing else. *)
LEMMA WaitNamed ==
  ASSUME NEW k, NEW m, NEW list, Sound(list, k, m), NEW n, NEW l, l = Awaited(list, n)
  PROVE  /\ Like(l, list)
         /\ Sound(l, k, m)
         /\ \A i \in 1..Len(list) :
              /\ l[i].fault = list[i].fault /\ l[i].stale = list[i].stale
              /\ l[i].stopping = list[i].stopping
              /\ l[i].waiting <=> (list[i].waiting \/ (list[i].name = n /\ list[i].stopping))
<1>0. list \in Seq(SeatsUpTo(k)) /\ Len(list) \in Nat
  BY DEF Sound
<1>2. ASSUME NEW i \in 1..Len(list)
      PROVE  /\ l[i] \in SeatsUpTo(k)
             /\ l[i].serial = list[i].serial /\ l[i].name = list[i].name
             /\ l[i].stopping = list[i].stopping /\ l[i].fault = list[i].fault
             /\ l[i].stale = list[i].stale
             /\ l[i].waiting <=> (list[i].waiting \/ (list[i].name = n /\ list[i].stopping))
  <2>1. list[i] \in SeatsUpTo(k)
    BY <1>0
  <2> DEFINE b == list[i].waiting \/ (list[i].name = n /\ list[i].stopping)
  <2>2. b \in BOOLEAN
    OBVIOUS
  <2>3. l[i] = [list[i] EXCEPT !.waiting = b]
    BY DEF Awaited
  <2>4. b <=> (list[i].waiting \/ (list[i].name = n /\ list[i].stopping))
    OBVIOUS
  <2> HIDE DEF b
  <2> QED
    BY <2>1, <2>2, <2>3, <2>4 DEF SeatsUpTo
<1>6. DOMAIN l = 1..Len(list) /\ l = [i \in DOMAIN l |-> l[i]]
  BY Zenon DEF Awaited
<1>3. Len(l) = Len(list) /\ l \in Seq(SeatsUpTo(k))
  <2>1. \A i \in 1..Len(list) : l[i] \in SeatsUpTo(k)
    BY <1>2
  <2> QED BY <1>0, <1>6, <2>1, MappedList
<1>4. Like(l, list)
  BY <1>2, <1>3 DEF Like
<1>5. \A i \in 1..Len(l) : l[i].stale # {} => l[i].stopping
  BY <1>2, <1>3 DEF Sound
<1> QED
  BY <1>2, <1>3, <1>4, <1>5, LikeSound

(* A list in the middle of a step for seat n, which has started one seat   *)
(* at most, of that name.                                                  *)
Chain(list, n, k, m) ==
  /\ Sound(list, k, m + 1)
  /\ m + 1 \in Serials(list) => n \in NamesIn(list)

(* What a step in which one seat is started at most leaves of a list.      *)
Updates(l, list, m) ==
  /\ Serials(list) \subseteq Serials(l) /\ Serials(l) \subseteq Serials(list) \union {m + 1}
  /\ NamesIn(list) \subseteq NamesIn(l)
  /\ \A i \in 1..Len(l) : l[i].stale # {} =>
       \E j \in 1..Len(list) : /\ list[j].stale # {} /\ list[j].name = l[i].name
                               /\ list[j].waiting => l[i].waiting

(* It leaves the other logind seats served.                                *)
Spares(l, list, n) == \A p : p # n /\ Covered(p, list) => Covered(p, l)

(* A sound list can be updated, and has no seat of this step.              *)
LEMMA ChainStart ==
  ASSUME NEW k, NEW m \in Nat, NEW list, Sound(list, k, m), NEW n
  PROVE  Chain(list, n, k, m) /\ m + 1 \notin Serials(list)
<1>1. \A i \in 1..Len(list) : list[i].serial \in 1..(m + 1) /\ list[i].serial # m + 1
  BY DEF Sound
<1>2. m + 1 \notin Serials(list)
  BY <1>1 DEF Serials
<1> QED BY <1>1, <1>2 DEF Chain, Sound

(* A list that got no seat in this step is as sound as before.             *)
LEMMA ChainBack ==
  ASSUME NEW k, NEW m \in Nat, NEW list, Sound(list, k, m + 1), m + 1 \notin Serials(list)
  PROVE  Sound(list, k, m)
<1>1. \A i \in 1..Len(list) : list[i].serial \in 1..(m + 1) /\ list[i].serial # m + 1
  BY DEF Sound, Serials
<1>2. \A i \in 1..Len(list) : list[i].serial \in 1..m
  BY <1>1
<1> QED BY <1>2 DEF Sound

(* The same seats, with their handlers: no seat was lost, and the other    *)
(* names are served as before.                                             *)
LEMMA LikeUpdates ==
  ASSUME NEW l, NEW list, NEW n, NEW m, Like(l, list),
         \A i \in 1..Len(list) :
           /\ l[i].stale = list[i].stale
           /\ list[i].waiting => l[i].waiting
           /\ list[i].name # n /\ Covers(list[i]) => Covers(l[i])
  PROVE  Updates(l, list, m) /\ Spares(l, list, n) /\ NamesIn(l) = NamesIn(list) /\ Serials(l) = Serials(list)
<1>1. Serials(l) = Serials(list) /\ NamesIn(l) = NamesIn(list)
  BY DEF Like, Serials, NamesIn
<1>2. ASSUME NEW p, p # n, Covered(p, list) PROVE Covered(p, l)
  BY <1>2 DEF Covered, Like
<1>3. \A i \in 1..Len(l) : l[i].stale # {} =>
       \E j \in 1..Len(list) : /\ list[j].stale # {} /\ list[j].name = l[i].name
                               /\ list[j].waiting => l[i].waiting
  BY DEF Like
<1> QED BY <1>1, <1>2, <1>3 DEF Updates, Spares

(* A seat more: no seat was lost, and the other names are served as        *)
(* before.                                                                 *)
LEMMA AppendUpdates ==
  ASSUME NEW k, NEW m \in Nat, NEW list, Sound(list, k, m), NEW s \in SeatsUpTo(k), s.serial = m + 1,
         s.stale = {}, s.name \in Names => s.name \notin NamesIn(list), NEW l, l = Append(list, s)
  PROVE  Chain(l, s.name, k, m) /\ Updates(l, list, m) /\ Spares(l, list, s.name)
<1>1. /\ Sound(l, k, m + 1)
      /\ Len(l) = Len(list) + 1 /\ l[Len(l)] = s /\ \A i \in 1..Len(list) : l[i] = list[i]
      /\ NamesIn(l) = NamesIn(list) \union {s.name}
      /\ Serials(l) = Serials(list) \union {m + 1}
  BY AppendSound
<1>0. Len(list) \in Nat
  BY DEF Sound
<1>2. \A i \in 1..Len(l) : i \in 1..Len(list) \/ i = Len(l)
  BY <1>0, <1>1
<1>3. 1..Len(list) \subseteq 1..Len(l)
  BY <1>0, <1>1
<1>4. ASSUME NEW p, Covered(p, list) PROVE Covered(p, l)
  BY <1>1, <1>3, <1>4 DEF Covered
<1>5. ASSUME NEW i \in 1..Len(l), l[i].stale # {}
      PROVE  \E j \in 1..Len(list) : /\ list[j].stale # {} /\ list[j].name = l[i].name
                                     /\ list[j].waiting => l[i].waiting
  BY <1>1, <1>2, <1>5
<1> QED BY <1>1, <1>4, <1>5 DEF Chain, Updates, Spares

(* What the operators for seats read of the state.                         *)
Constants ==
  remote_count \in Nat /\ made \in Nat /\ required \subseteq Names

(* A seat that has just been started runs, and nobody waits for it.        *)
LEMMA NewSeatFacts ==
  ASSUME Constants, NEW n, NEW types \in 1..NTypes, NEW exit \in BOOLEAN, NEW k,
         n \in NamesUpTo(k)
  PROVE  LET s == NewSeat(n, types, exit) IN
         /\ s \in SeatsUpTo(k) /\ s.serial = made + 1 /\ s.name = n
         /\ ~s.stopping /\ ~s.waiting /\ s.stale = {}
<1>1. made + 1 \in Nat /\ {} \in SUBSET BOOLEAN /\ FALSE \in BOOLEAN
  BY DEF Constants
<1> QED BY <1>1 DEF NewSeat, SeatsUpTo

(* So does one for a seat of logind.                                       *)
LEMMA Login1SeatFacts ==
  ASSUME Constants, NEW n, NEW k, n \in NamesUpTo(k)
  PROVE  LET s == Login1Seat(n) IN
         /\ s \in SeatsUpTo(k) /\ s.serial = made + 1 /\ s.name = n
         /\ ~s.stopping /\ ~s.waiting /\ s.stale = {}
<1> DEFINE exit == n = Seat0 \/ n \in required
           s == NewSeat(n, NTypes, exit)
<1>1. exit \in BOOLEAN
  OBVIOUS
<1>2. Login1Seat(n) = s
  BY DEF Login1Seat
<1>3. NTypes \in 1..NTypes
  BY DMAssumption
<1> HIDE DEF exit
<1>4. /\ s \in SeatsUpTo(k) /\ s.serial = made + 1 /\ s.name = n
      /\ ~s.stopping /\ ~s.waiting /\ s.stale = {}
  BY ZenonT(60), <1>1, <1>3, NewSeatFacts
<1> HIDE DEF s
<1> QED BY <1>2, <1>4

(* update_login1_seat leaves a sound list with the other names served; if  *)
(* a seat is wanted, one that is stopping is waited for.                   *)
LEMMA UpdateList ==
  ASSUME Constants, NEW list, NEW n \in NamesUpTo(remote_count), NEW lit, NEW st,
         Chain(list, n, remote_count, made), st => AllStopping(list),
         NEW l \in update_login1_seat(list, n, lit, st)
  PROVE  /\ Chain(l, n, remote_count, made)
         /\ Updates(l, list, made) /\ Spares(l, list, n)
         /\ st => AllStopping(l)
         /\ wanted(lit) => \A i \in 1..Len(l) : l[i].name = n /\ l[i].stopping => l[i].waiting
<1>0. Sound(list, remote_count, made + 1) /\ made \in Nat
  BY DEF Chain, Constants
<1>1. CASE ~wanted(lit)
  <2>1. l = Stopped(list, n)
    BY <1>1 DEF update_login1_seat, StopSeats, Stopped
  <2>2. /\ Like(l, list)
        /\ Sound(l, remote_count, made + 1)
        /\ \A i \in 1..Len(list) :
              /\ l[i].waiting = list[i].waiting /\ l[i].fault = list[i].fault
              /\ l[i].stale = list[i].stale
              /\ l[i].stopping <=> (list[i].stopping \/ list[i].name = n)
    BY <1>0, <2>1, StopNamed
  <2> HIDE <2>1
  <2>3. \A i \in 1..Len(list) :
           /\ l[i].stale = list[i].stale
           /\ list[i].waiting => l[i].waiting
           /\ list[i].name # n /\ Covers(list[i]) => Covers(l[i])
    BY <2>2 DEF Covers
  <2>4. Updates(l, list, made) /\ Spares(l, list, n) /\ NamesIn(l) = NamesIn(list) /\ Serials(l) = Serials(list)
    BY <2>2, <2>3, LikeUpdates
  <2>5. AllStopping(list) => AllStopping(l)
    BY <2>2 DEF AllStopping, Like
  <2> QED BY <1>1, <2>2, <2>4, <2>5 DEF Chain
<1>2. CASE wanted(lit) /\ n \in NamesIn(list)
  <2>1. l = Awaited(list, n)
    BY <1>2 DEF update_login1_seat, Awaited
  <2>2. /\ Like(l, list)
        /\ Sound(l, remote_count, made + 1)
        /\ \A i \in 1..Len(list) :
              /\ l[i].fault = list[i].fault /\ l[i].stale = list[i].stale
              /\ l[i].stopping = list[i].stopping
              /\ l[i].waiting <=> (list[i].waiting \/ (list[i].name = n /\ list[i].stopping))
    BY <1>0, <2>1, WaitNamed
  <2> HIDE <2>1
  <2>3. \A i \in 1..Len(list) :
           /\ l[i].stale = list[i].stale
           /\ list[i].waiting => l[i].waiting
           /\ list[i].name # n /\ Covers(list[i]) => Covers(l[i])
    BY <2>2 DEF Covers
  <2>4. Updates(l, list, made) /\ Spares(l, list, n) /\ NamesIn(l) = NamesIn(list) /\ Serials(l) = Serials(list)
    BY <2>2, <2>3, LikeUpdates
  <2>5. AllStopping(list) => AllStopping(l)
    BY <2>2 DEF AllStopping, Like
  <2>6. \A i \in 1..Len(l) : l[i].name = n /\ l[i].stopping => l[i].waiting
    BY <2>2 DEF Like
  <2> QED BY <1>2, <2>2, <2>4, <2>5, <2>6 DEF Chain
<1>3. CASE wanted(lit) /\ n \notin NamesIn(list) /\ l = list
  <2>1. Updates(l, list, made) /\ Spares(l, list, n)
    BY <1>3 DEF Updates, Spares
  <2>2. \A i \in 1..Len(l) : l[i].name # n
    BY <1>3 DEF NamesIn
  <2> QED BY <1>3, <2>1, <2>2
<1>4. CASE wanted(lit) /\ n \notin NamesIn(list) /\ l # list
  <2>1. ~st /\ l = Append(list, Login1Seat(n))
    BY <1>4 DEF update_login1_seat, AddSeat
  <2>2. Sound(list, remote_count, made)
    BY <1>0, <1>4, ChainBack DEF Chain
  <2> DEFINE s == Login1Seat(n)
  <2>3. /\ s \in SeatsUpTo(remote_count) /\ s.serial = made + 1 /\ s.name = n
        /\ ~s.stopping /\ ~s.waiting /\ s.stale = {}
    BY Login1SeatFacts
  <2> HIDE DEF s
  <2>4. Chain(l, n, remote_count, made) /\ Updates(l, list, made) /\ Spares(l, list, n)
    BY <1>0, <1>4, <2>1, <2>2, <2>3, AppendUpdates DEF s
  <2>5. Len(l) = Len(list) + 1 /\ l[Len(l)] = s /\ \A i \in 1..Len(list) : l[i] = list[i]
    BY <1>0, <1>4, <2>1, <2>2, <2>3, AppendSound DEF s
  <2>6. \A i \in 1..Len(l) : i \in 1..Len(list) \/ i = Len(l)
    BY <2>2, <2>5 DEF Sound
  <2>7. \A i \in 1..Len(l) : l[i].name = n /\ l[i].stopping => l[i].waiting
    BY <1>4, <2>3, <2>5, <2>6 DEF NamesIn
  <2> QED BY <2>1, <2>4, <2>7
<1> QED BY <1>1, <1>2, <1>3, <1>4

(* The list that a step leaves, and the count of seats started.            *)
LEMMA SeatsFacts ==
  ASSUME made \in Nat, NEW k, NEW list, Sound(list, k, made + 1), Seats(list)
  PROVE  /\ seats' = list /\ made' \in Nat
         /\ Sound(seats', k, made')
         /\ \/ made' = made /\ made + 1 \notin Serials(list)
            \/ made' = made + 1 /\ made + 1 \in Serials(list)
<1>1. CASE \E i \in 1..Len(list) : list[i].serial > made
  <2>1. made + 1 \in Serials(list)
    BY <1>1 DEF Sound, Serials
  <2> QED BY <1>1, <2>1 DEF Seats
<1>2. CASE ~ \E i \in 1..Len(list) : list[i].serial > made
  <2>1. made + 1 \notin Serials(list)
    BY <1>2 DEF Sound, Serials
  <2>2. Sound(list, k, made)
    BY <2>1, ChainBack
  <2> QED BY <1>2, <2>1, <2>2 DEF Seats
<1> QED BY <1>1, <1>2

(* The same seats with no handler lost.                                    *)
LEMMA LikeKeeps ==
  ASSUME NEW l, NEW list, NEW m, Like(l, list),
         \A i \in 1..Len(list) : /\ l[i].stale # {} => list[i].stale # {}
                                 /\ list[i].waiting => l[i].waiting
  PROVE  Updates(l, list, m)
<1>1. Serials(l) = Serials(list) /\ NamesIn(l) = NamesIn(list)
  BY DEF Like, Serials, NamesIn
<1>3. \A i \in 1..Len(l) : l[i].stale # {} =>
       \E j \in 1..Len(list) : /\ list[j].stale # {} /\ list[j].name = l[i].name
                               /\ list[j].waiting => l[i].waiting
  BY DEF Like
<1> QED BY <1>1, <1>3 DEF Updates

(* Stopping all seats loses no handler.                                    *)
LEMMA StopAllKeeps ==
  ASSUME NEW k, NEW m, NEW list, Sound(list, k, m), NEW l, l = AllStopped(list), NEW x
  PROVE  Updates(l, list, x)
<1>1. Like(l, list) /\ list \in Seq(SeatsUpTo(k))
  BY StopAll DEF Sound
<1>2. l = [i \in 1..Len(list) |-> [list[i] EXCEPT !.stopping = @ \/ TRUE]]
  BY DEF AllStopped
<1>3. ASSUME NEW i \in 1..Len(list)
      PROVE  (l[i].stale # {} => list[i].stale # {}) /\ (list[i].waiting => l[i].waiting)
  <2>1. list[i] \in SeatsUpTo(k)
    BY <1>1
  <2>2. l[i] = [list[i] EXCEPT !.stopping = TRUE]
    BY <1>2
  <2> QED BY <2>1, <2>2 DEF SeatsUpTo
<1> QED BY <1>1, <1>3, LikeKeeps

(* Two updates are one update.                                             *)
LEMMA UpdatesTwice ==
  ASSUME NEW l1, NEW l2, NEW l3, NEW m, Updates(l2, l1, m), Updates(l3, l2, m)
  PROVE  Updates(l3, l1, m)
BY DEF Updates

(* The same for the other names.                                           *)
LEMMA SparesTwice ==
  ASSUME NEW l1, NEW l2, NEW l3, NEW n, Spares(l2, l1, n), Spares(l3, l2, n)
  PROVE  Spares(l3, l1, n)
BY DEF Spares

(* After an update for seat n what outlived its logind seat is still       *)
(* waited for, if it is for n now.                                         *)
LEMMA StaleKept ==
  ASSUME NEW list, NEW l, NEW n, NEW m, NEW k, Updates(l, list, m), Sound(l, k, m + 1),
         NEW pres, NEW graph, NEW pres2, NEW graph2, StaleWaits(list, pres, graph),
         \A p : p # n /\ Offered(p, pres2, graph2) => Offered(p, pres, graph),
         Offered(n, pres2, graph2) =>
           \A i \in 1..Len(l) : l[i].name = n /\ l[i].stopping => l[i].waiting
  PROVE  StaleWaits(l, pres2, graph2)
<1>1. SUFFICES ASSUME NEW i \in 1..Len(l), l[i].stale # {}, Offered(l[i].name, pres2, graph2)
               PROVE  l[i].waiting
  BY DEF StaleWaits
<1>2. CASE l[i].name = n
  BY <1>1, <1>2 DEF Sound
<1>3. CASE l[i].name # n
  <2>1. PICK j \in 1..Len(list) : /\ list[j].stale # {} /\ list[j].name = l[i].name
                                  /\ list[j].waiting => l[i].waiting
    BY <1>1 DEF Updates
  <2> QED BY <1>1, <1>3, <2>1 DEF StaleWaits
<1> QED BY <1>2, <1>3

(* After an update for seat n all is served, if n is.                      *)
LEMMA ServedKept ==
  ASSUME NEW S, NEW list, NEW l, NEW n, Spares(l, list, n),
         NEW pres, NEW graph, NEW fail, NEW pres2, NEW graph2, NEW fail2,
         AllServed(S, list, pres, graph, fail),
         \A p : p # n /\ Offered(p, pres2, graph2) => Offered(p, pres, graph),
         \A p : p # n /\ p \in fail => p \in fail2,
         Offered(n, pres2, graph2) => n \in fail2 \/ Covered(n, l)
  PROVE  AllServed(S \union {n}, l, pres2, graph2, fail2)
BY DEF AllServed, Spares

(* A seat that runs or is waited for covers its name.                      *)
LEMMA WaitingCovers ==
  ASSUME NEW n, NEW l, n \in NamesIn(l),
         \A i \in 1..Len(l) : l[i].name = n /\ l[i].stopping => l[i].waiting
  PROVE  Covered(n, l)
BY DEF NamesIn, Covered, Covers

(* A step of the daemon, as far as the objects on the bus are concerned:   *)
(* one seat is started at most, and a shutdown is not taken back.          *)
Moved ==
  /\ ListInv'
  /\ \/ made' = made /\ Serials(seats') \subseteq Serials(seats)
     \/ /\ made' = made + 1 /\ made' \in Serials(seats')
        /\ Serials(seats') \subseteq Serials(seats) \union {made'}
  /\ dm_stopping => dm_stopping'

(* A step whose list is an update keeps the daemon's list sound.           *)
LEMMA UpdatesMove ==
  ASSUME ListInv, NEW list, NEW from, Updates(list, from, made), Serials(from) \subseteq Serials(seats),
         Sound(list, remote_count', made + 1), Seats(list),
         required' = required, remote_count' \in Nat, failed' \subseteq Names,
         {dm_stopping', dm_stopped', exit_failure'} \subseteq BOOLEAN,
         dm_stopping => dm_stopping', dm_stopping' => AllStopping(list), dm_stopped' => list = <<>>
  PROVE  Moved
<1>1. made \in Nat
  BY DEF ListInv
<1>2. /\ seats' = list /\ made' \in Nat
      /\ Sound(seats', remote_count', made')
      /\ \/ made' = made /\ made + 1 \notin Serials(list)
         \/ made' = made + 1 /\ made + 1 \in Serials(list)
  BY <1>1, SeatsFacts
<1>3. ListInv'
  BY <1>2 DEF ListInv
<1> QED BY <1>2, <1>3 DEF Moved, Updates

(* login1_service_seat_added_cb and login1_add_seat: what was served still *)
(* is, and n is now.                                                       *)
LEMMA UpdateStep ==
  ASSUME ListInv, ~dm_stopped, StaleWaits(seats, present, graphical),
         NEW n \in Names, NEW lit \in BOOLEAN, Login1Update(n, lit), n \in graphical' <=> lit,
         \A p : p # n /\ p \in present' => p \in present,
         \A p : p # n => (p \in graphical' <=> p \in graphical)
  PROVE  /\ Moved /\ Serials(seats) \subseteq Serials(seats')
         /\ StaleWaits(seats', present', graphical')
         /\ \A S : AllServed(S, seats, present, graphical, failed)
                     => AllServed(S \union {n}, seats', present', graphical', failed')
<1>1. PICK list \in update_login1_seat(seats, n, lit, dm_stopping) :
        /\ Seats(list)
        /\ IF wanted(lit) THEN Failures(n, list) ELSE UNCHANGED failed
  BY DEF Login1Update
<1>2. UNCHANGED <<required, dm_stopping, dm_stopped, exit_failure, remote_count>> /\ seats' = list
  BY <1>1 DEF Login1Update, Seats
<1>3. Constants /\ made \in Nat /\ failed \subseteq Names /\ Sound(seats, remote_count, made)
  BY DEF Constants, ListInv
<1>4. n \in NamesUpTo(remote_count)
  BY DEF NamesUpTo
<1>5. Chain(seats, n, remote_count, made)
  BY <1>3, ChainStart
<1>6. dm_stopping => AllStopping(seats)
  BY DEF ListInv
<1>7. /\ Chain(list, n, remote_count, made)
      /\ Updates(list, seats, made) /\ Spares(list, seats, n)
      /\ dm_stopping => AllStopping(list)
      /\ wanted(lit) => \A i \in 1..Len(list) : list[i].name = n /\ list[i].stopping => list[i].waiting
  BY <1>1, <1>3, <1>4, <1>5, <1>6, UpdateList
<1>8. failed' \subseteq Names /\ \A p : p # n /\ p \in failed => p \in failed'
  BY <1>1, <1>3 DEF Failures
<1>9. Sound(list, remote_count', made + 1) /\ remote_count' \in Nat
  BY <1>2, <1>3, <1>7 DEF Chain, Constants
<1>10. Moved
  <2>1. {dm_stopping', dm_stopped', exit_failure'} \subseteq BOOLEAN /\ ~dm_stopped'
    BY <1>2 DEF ListInv
  <2> QED BY <1>1, <1>2, <1>7, <1>8, <1>9, <2>1, UpdatesMove
<1>11. \A p : p # n /\ Offered(p, present', graphical') => Offered(p, present, graphical)
  BY DEF Offered, wanted
<1>12. Offered(n, present', graphical') => wanted(lit)
  BY DEF Offered, wanted
<1>13. StaleWaits(list, present', graphical')
  BY <1>7, <1>9, <1>11, <1>12, StaleKept
<1>14. Offered(n, present', graphical') => n \in failed' \/ Covered(n, list)
  <2>1. CASE wanted(lit) /\ n \in NamesIn(list)
    BY <1>7, <2>1, WaitingCovers
  <2>2. CASE wanted(lit) /\ n \notin NamesIn(list)
    BY <1>1, <2>2 DEF Failures
  <2> QED BY <1>12, <2>1, <2>2
<1>15. ASSUME NEW S, AllServed(S, seats, present, graphical, failed)
       PROVE  AllServed(S \union {n}, list, present', graphical', failed')
  BY <1>7, <1>8, <1>11, <1>14, <1>15, ServedKept
<1> QED BY <1>2, <1>7, <1>10, <1>13, <1>15 DEF Updates

(* The list after the objects of seat n have been told that it is lit, and *)
(* after logind has removed it.                                            *)
Told(list, n, lit) ==
  [i \in 1..Len(list) |->
     [list[i] EXCEPT !.stale = IF list[i].name = n /\ @ # {} THEN {lit} ELSE @]]

(* ... and once logind has removed it.                                     *)
Gone(list, n, graph) ==
  [i \in 1..Len(list) |->
     IF list[i].name = n
       THEN [list[i] EXCEPT !.stopping = TRUE, !.waiting = FALSE,
                            !.stale = IF list[i].waiting THEN {n \in graph} ELSE @]
       ELSE list[i]]

(* A new value of the property changes only what the old objects say.      *)
LEMMA TellSound ==
  ASSUME NEW k, NEW m, NEW list, Sound(list, k, m), NEW n, NEW lit \in BOOLEAN, NEW l,
         l = Told(list, n, lit)
  PROVE  /\ Like(l, list) /\ Sound(l, k, m)
         /\ \A i \in 1..Len(list) :
              /\ l[i].fault = list[i].fault /\ l[i].waiting = list[i].waiting
              /\ l[i].stopping = list[i].stopping
              /\ l[i].stale # {} => list[i].stale # {}
<1>0. list \in Seq(SeatsUpTo(k)) /\ Len(list) \in Nat
  BY DEF Sound
<1>2. ASSUME NEW i \in 1..Len(list)
      PROVE  /\ l[i] \in SeatsUpTo(k)
             /\ l[i].serial = list[i].serial /\ l[i].name = list[i].name
             /\ l[i].stopping = list[i].stopping /\ l[i].fault = list[i].fault
             /\ l[i].waiting = list[i].waiting
             /\ l[i].stale # {} => list[i].stale # {}
  <2>1. list[i] \in SeatsUpTo(k)
    BY <1>0
  <2> DEFINE b == IF list[i].name = n /\ list[i].stale # {} THEN {lit} ELSE list[i].stale
  <2>2. b \in SUBSET BOOLEAN
    BY <2>1 DEF SeatsUpTo
  <2>3. l[i] = [list[i] EXCEPT !.stale = b]
    BY DEF Told
  <2>4. b # {} => list[i].stale # {}
    OBVIOUS
  <2> HIDE DEF b
  <2> QED
    BY <2>1, <2>2, <2>3, <2>4 DEF SeatsUpTo
<1>6. DOMAIN l = 1..Len(list) /\ l = [i \in DOMAIN l |-> l[i]]
  BY Zenon DEF Told
<1>3. Len(l) = Len(list) /\ l \in Seq(SeatsUpTo(k))
  <2>1. \A i \in 1..Len(list) : l[i] \in SeatsUpTo(k)
    BY <1>2
  <2> QED BY <1>0, <1>6, <2>1, MappedList
<1>4. Like(l, list)
  BY <1>2, <1>3 DEF Like
<1>5. \A i \in 1..Len(l) : l[i].stale # {} => l[i].stopping
  BY <1>2, <1>3 DEF Sound
<1> QED
  BY <1>2, <1>3, <1>4, <1>5, LikeSound

(* The removal of a logind seat touches only seats of its name.            *)
LEMMA GoneSound ==
  ASSUME NEW k, NEW m, NEW list, Sound(list, k, m), NEW n, NEW graph, NEW l,
         l = Gone(list, n, graph)
  PROVE  /\ Like(l, list) /\ Sound(l, k, m)
         /\ \A i \in 1..Len(list) : list[i].name # n => l[i] = list[i]
<1>0. list \in Seq(SeatsUpTo(k)) /\ Len(list) \in Nat
  BY DEF Sound
<1>2. ASSUME NEW i \in 1..Len(list)
      PROVE  /\ l[i] \in SeatsUpTo(k)
             /\ l[i].serial = list[i].serial /\ l[i].name = list[i].name
             /\ list[i].stopping => l[i].stopping
             /\ list[i].name # n => l[i] = list[i]
             /\ list[i].name = n => l[i].stopping
  <2>1. list[i] \in SeatsUpTo(k)
    BY <1>0
  <2>2. CASE list[i].name # n
    <3>1. l[i] = list[i]
      BY <2>2, Zenon DEF Gone
    <3> QED BY <2>1, <2>2, <3>1
  <2>3. CASE list[i].name = n
    <3> DEFINE b == IF list[i].waiting THEN {n \in graph} ELSE list[i].stale
    <3>1. b \in SUBSET BOOLEAN
      <4>1. {n \in graph} \in SUBSET BOOLEAN
        BY Zenon
      <4>2. list[i].stale \in SUBSET BOOLEAN
        BY <2>1 DEF SeatsUpTo
      <4> QED BY <4>1, <4>2, Zenon
    <3>2. l[i] = [list[i] EXCEPT !.stopping = TRUE, !.waiting = FALSE, !.stale = b]
      BY <2>3, Zenon DEF Gone
    <3> HIDE DEF b
    <3> QED BY <2>1, <2>3, <3>1, <3>2 DEF SeatsUpTo
  <2> QED BY <2>2, <2>3
<1>6. DOMAIN l = 1..Len(list) /\ l = [i \in DOMAIN l |-> l[i]]
  BY Zenon DEF Gone
<1>3. Len(l) = Len(list) /\ l \in Seq(SeatsUpTo(k))
  <2>1. \A i \in 1..Len(list) : l[i] \in SeatsUpTo(k)
    BY <1>2
  <2> QED BY <1>0, <1>6, <2>1, MappedList
<1>4. Like(l, list)
  BY <1>2, <1>3 DEF Like
<1>5. \A i \in 1..Len(l) : l[i].stale # {} => l[i].stopping
  BY <1>2, <1>3 DEF Sound
<1> QED
  BY <1>2, <1>3, <1>4, <1>5, LikeSound

(* login1_can_graphical_changed_cb: what was served still is.              *)
LEMMA GraphicalStep ==
  ASSUME ListInv, ~dm_stopped, StaleWaits(seats, present, graphical),
         NEW n \in Names, NEW lit \in BOOLEAN, NEW current \in BOOLEAN,
         login1_can_graphical_changed_cb(n, lit, current)
  PROVE  /\ Moved /\ Serials(seats) \subseteq Serials(seats')
         /\ StaleWaits(seats', present', graphical')
         /\ \A S : AllServed(S, seats, present, graphical, failed)
                     => AllServed(S, seats', present', graphical', failed')
<1> DEFINE known == Told(seats, n, lit)
<1>1. PICK list : /\ list \in IF current /\ CheckGraphical
                                THEN update_login1_seat(known, n, lit, dm_stopping) ELSE {known}
                  /\ Seats(list)
                  /\ IF current /\ CheckGraphical /\ lit THEN Failures(n, list) ELSE UNCHANGED failed
  BY DEF login1_can_graphical_changed_cb, Told
<1>2. /\ UNCHANGED <<required, dm_stopping, dm_stopped, exit_failure, present, remote_count>>
      /\ seats' = list
      /\ IF current THEN CanGraphical(n, lit) ELSE UNCHANGED graphical
  BY <1>1 DEF login1_can_graphical_changed_cb, Seats
<1>3. Constants /\ made \in Nat /\ failed \subseteq Names /\ Sound(seats, remote_count, made)
  BY DEF Constants, ListInv
<1>4. /\ Like(known, seats) /\ Sound(known, remote_count, made)
      /\ \A i \in 1..Len(seats) :
           /\ known[i].fault = seats[i].fault /\ known[i].waiting = seats[i].waiting
           /\ known[i].stopping = seats[i].stopping
           /\ known[i].stale # {} => seats[i].stale # {}
  BY <1>3, TellSound
<1> HIDE DEF known
<1>5. Updates(known, seats, made)
  BY <1>4, LikeKeeps
<1>6. Spares(known, seats, n) /\ \A p : Covered(p, seats) => Covered(p, known)
  BY <1>4 DEF Spares, Covered, Covers, Like
<1>7. dm_stopping => AllStopping(known)
  BY <1>4 DEF ListInv, AllStopping, Like
<1>8. failed' \subseteq Names /\ \A p : p # n /\ p \in failed => p \in failed'
  BY <1>1, <1>3 DEF Failures
<1>9. remote_count' \in Nat /\ {dm_stopping', dm_stopped', exit_failure'} \subseteq BOOLEAN /\ ~dm_stopped'
  BY <1>2 DEF ListInv
<1>10. \A p : p # n /\ Offered(p, present', graphical') => Offered(p, present, graphical)
  BY <1>2 DEF Offered, CanGraphical, wanted
<1>11. CASE current /\ CheckGraphical
  <2>1. Chain(known, n, remote_count, made)
    BY <1>3, <1>4, ChainStart
  <2>2. n \in NamesUpTo(remote_count) /\ list \in update_login1_seat(known, n, lit, dm_stopping)
    BY <1>1, <1>11 DEF NamesUpTo
  <2>3. /\ Chain(list, n, remote_count, made)
        /\ Updates(list, known, made) /\ Spares(list, known, n)
        /\ dm_stopping => AllStopping(list)
        /\ wanted(lit) => \A i \in 1..Len(list) : list[i].name = n /\ list[i].stopping => list[i].waiting
    BY <1>3, <1>7, <2>1, <2>2, UpdateList
  <2>4. Updates(list, seats, made) /\ Spares(list, seats, n)
    BY <1>5, <1>6, <2>3, UpdatesTwice, SparesTwice
  <2>5. Sound(list, remote_count', made + 1)
    BY <1>2, <2>3 DEF Chain
  <2>6. Moved
    BY <1>1, <1>2, <1>8, <1>9, <2>3, <2>4, <2>5, UpdatesMove
  <2>7. Offered(n, present', graphical') => lit /\ wanted(lit)
    BY <1>2, <1>11 DEF Offered, wanted, CanGraphical
  <2>8. StaleWaits(list, present', graphical')
    BY <1>10, <2>3, <2>4, <2>5, <2>7, StaleKept
  <2>9. Offered(n, present', graphical') => n \in failed' \/ Covered(n, list)
    <3>1. CASE lit /\ n \in NamesIn(list)
      BY <2>3, <2>7, <3>1, WaitingCovers
    <3>2. CASE lit /\ n \notin NamesIn(list)
      BY <1>1, <1>11, <3>2 DEF Failures
    <3> QED BY <2>7, <3>1, <3>2
  <2>10. ASSUME NEW S, AllServed(S, seats, present, graphical, failed)
         PROVE  AllServed(S \union {n}, list, present', graphical', failed')
    BY <1>8, <1>10, <2>4, <2>9, <2>10, ServedKept
  <2>11. ASSUME NEW S, AllServed(S, seats, present, graphical, failed)
         PROVE  AllServed(S, list, present', graphical', failed')
    BY <2>10, <2>11 DEF AllServed
  <2> QED BY <1>2, <2>4, <2>6, <2>8, <2>11 DEF Updates
<1>12. CASE ~(current /\ CheckGraphical)
  <2>1. list = known /\ failed' = failed
    BY <1>1, <1>12
  <2>2. Sound(list, remote_count', made + 1)
    BY <1>2, <1>3, <1>4, <2>1, ChainStart DEF Chain
  <2>3. Moved
    BY <1>1, <1>2, <1>5, <1>7, <1>8, <1>9, <2>1, <2>2, UpdatesMove
  <2>4. \A p : Offered(p, present', graphical') => Offered(p, present, graphical)
    BY <1>2, <1>12 DEF Offered, CanGraphical, wanted
  <2>5. StaleWaits(list, present', graphical')
    BY <1>4, <2>1, <2>4 DEF StaleWaits, Like
  <2>6. ASSUME NEW S, AllServed(S, seats, present, graphical, failed)
        PROVE  AllServed(S, list, present', graphical', failed')
    BY <1>6, <2>1, <2>4, <2>6 DEF AllServed
  <2> QED BY <1>2, <1>5, <2>1, <2>3, <2>5, <2>6 DEF Updates
<1> QED BY <1>11, <1>12

(* login1_service_seat_removed_cb: what was served still is.               *)
LEMMA RemovedStep ==
  ASSUME ListInv, ~dm_stopped, StaleWaits(seats, present, graphical), NEW n \in Names,
         login1_service_seat_removed_cb(n)
  PROVE  /\ Moved /\ Serials(seats) \subseteq Serials(seats')
         /\ StaleWaits(seats', present', graphical')
         /\ \A S : AllServed(S, seats, present, graphical, failed)
                     => AllServed(S, seats', present', graphical', failed')
<1> DEFINE list == Gone(seats, n, graphical)
<1>2. Seats(list)
  BY Zenon DEF login1_service_seat_removed_cb, Gone
<1>3. /\ UNCHANGED <<required, dm_stopping, dm_stopped, exit_failure, remote_count, failed>>
      /\ present' = present \ {n} /\ graphical' = graphical \ {n} /\ seats' = list
  BY <1>2 DEF login1_service_seat_removed_cb, Seats
<1>4. Constants /\ made \in Nat /\ failed \subseteq Names /\ Sound(seats, remote_count, made)
  BY DEF Constants, ListInv
<1>5. /\ Like(list, seats) /\ Sound(list, remote_count, made)
      /\ \A i \in 1..Len(seats) : seats[i].name # n => list[i] = seats[i]
  BY <1>4, GoneSound
<1> HIDE DEF list
<1>6. Serials(list) = Serials(seats)
  BY <1>5 DEF Like, Serials
<1>7. Moved
  <2>1. made' = made
    BY <1>2, <1>4, <1>5 DEF Seats, Sound
  <2>2. dm_stopping => AllStopping(list)
    BY <1>5 DEF ListInv, AllStopping, Like
  <2>3. ListInv'
    BY <1>3, <1>5, <2>1, <2>2 DEF ListInv
  <2> QED BY <1>3, <1>6, <2>1, <2>3 DEF Moved
<1>8. StaleWaits(list, present', graphical')
  <2>1. ASSUME NEW i \in 1..Len(list), list[i].stale # {}, Offered(list[i].name, present', graphical')
        PROVE  list[i].waiting
    <3>1. list[i].name # n
      BY <1>3, <2>1 DEF Offered
    <3>2. i \in 1..Len(seats) /\ list[i] = seats[i] /\ Offered(seats[i].name, present, graphical)
      BY <1>3, <1>5, <2>1, <3>1 DEF Offered, Like, wanted
    <3> QED BY <2>1, <3>2 DEF StaleWaits
  <2> QED BY <2>1 DEF StaleWaits
<1>9. ASSUME NEW S, AllServed(S, seats, present, graphical, failed)
      PROVE  AllServed(S, list, present', graphical', failed')
  <2>1. ASSUME NEW p \in S, Offered(p, present', graphical') PROVE p \in failed' \/ Covered(p, list)
    <3>1. p # n /\ Offered(p, present, graphical)
      BY <1>3, <2>1 DEF Offered, wanted
    <3>2. p \in failed \/ Covered(p, seats)
      BY <1>9, <3>1 DEF AllServed
    <3>3. Covered(p, seats) => Covered(p, list)
      BY <1>5, <3>1 DEF Covered, Like
    <3> QED BY <1>3, <3>2, <3>3
  <2> QED BY <2>1 DEF AllServed
<1> QED BY <1>3, <1>6, <1>7, <1>8, <1>9

(* A seat that fails: its name is still accounted for.                     *)
LEMMA FailsStep ==
  ASSUME ListInv, StaleWaits(seats, present, graphical), NEW i \in 1..Len(seats), SeatFails(i)
  PROVE  /\ Moved /\ Serials(seats) \subseteq Serials(seats')
         /\ StaleWaits(seats', present', graphical')
         /\ \A S : AllServed(S, seats, present, graphical, failed)
                     => AllServed(S, seats', present', graphical', failed')
<1>1. /\ UNCHANGED <<required, dm_stopping, dm_stopped, exit_failure, present, graphical, remote_count, made, failed>>
      /\ ~dm_stopped /\ ~seats[i].stopping
      /\ seats' = [seats EXCEPT ![i].stopping = TRUE, ![i].fault = TRUE]
  BY DEF SeatFails
<1>2. Sound(seats, remote_count, made) /\ seats \in Seq(SeatsUpTo(remote_count))
  BY DEF ListInv, Sound
<1> DEFINE s == [seats[i] EXCEPT !.stopping = TRUE, !.fault = TRUE]
<1>3. seats' = [seats EXCEPT ![i] = s]
  BY <1>1, <1>2
<1>4. /\ s \in SeatsUpTo(remote_count) /\ s.serial = seats[i].serial /\ s.name = seats[i].name
      /\ s.stopping /\ s.fault /\ s.waiting = seats[i].waiting /\ s.stale = seats[i].stale
  <2>1. seats[i] \in SeatsUpTo(remote_count)
    BY <1>2
  <2> QED BY <2>1 DEF SeatsUpTo
<1> HIDE DEF s
<1>5. /\ seats' \in Seq(SeatsUpTo(remote_count)) /\ Len(seats') = Len(seats) /\ seats'[i] = s
      /\ \A j \in 1..Len(seats) : j # i => seats'[j] = seats[j]
  BY <1>2, <1>3, <1>4
<1>6. Like(seats', seats)
  BY <1>4, <1>5 DEF Like
<1>7. \A j \in 1..Len(seats') : seats'[j].stale # {} => seats'[j].stopping
  BY <1>2, <1>4, <1>5 DEF Sound
<1>8. Sound(seats', remote_count, made) /\ Serials(seats') = Serials(seats)
  <2>1. seats' \in Seq(SeatsUpTo(remote_count))
    BY <1>5
  <2> QED BY <1>2, <1>6, <1>7, <2>1, LikeSound
<1>9. Moved
  <2>1. ~dm_stopping
    BY <1>1 DEF ListInv, AllStopping
  <2>2. ListInv'
    BY <1>1, <1>8, <2>1 DEF ListInv
  <2> QED BY <1>1, <1>8, <2>2 DEF Moved
<1>10. StaleWaits(seats', present', graphical')
  BY <1>1, <1>4, <1>5 DEF StaleWaits
<1>11. \A p : Covered(p, seats) => Covered(p, seats')
  BY <1>4, <1>5 DEF Covered, Covers
<1> QED BY <1>1, <1>8, <1>9, <1>10, <1>11 DEF AllServed

(* A seat that is stopping and is asked for something: it is as stopping   *)
(* as before.                                                              *)
LEMMA AskedStep ==
  ASSUME ListInv, StaleWaits(seats, present, graphical), NEW i \in 1..Len(seats), SeatAsked(i)
  PROVE  /\ Moved /\ Serials(seats) \subseteq Serials(seats')
         /\ StaleWaits(seats', present', graphical')
         /\ \A S : AllServed(S, seats, present, graphical, failed)
                     => AllServed(S, seats', present', graphical', failed')
<1>1. /\ UNCHANGED <<required, dm_stopping, dm_stopped, exit_failure, present, graphical, remote_count, made, failed>>
      /\ ~dm_stopped
      /\ seats' = [seats EXCEPT ![i].late = TRUE]
  BY DEF SeatAsked
<1>2. Sound(seats, remote_count, made) /\ seats \in Seq(SeatsUpTo(remote_count))
  BY DEF ListInv, Sound
<1> DEFINE s == [seats[i] EXCEPT !.late = TRUE]
<1>3. seats' = [seats EXCEPT ![i] = s]
  BY <1>1, <1>2
<1>4. /\ s \in SeatsUpTo(remote_count) /\ s.serial = seats[i].serial /\ s.name = seats[i].name
      /\ s.stopping = seats[i].stopping /\ s.fault = seats[i].fault
      /\ s.waiting = seats[i].waiting /\ s.stale = seats[i].stale
  <2>1. seats[i] \in SeatsUpTo(remote_count)
    BY <1>2
  <2> QED BY <2>1 DEF SeatsUpTo
<1> HIDE DEF s
<1>5. /\ seats' \in Seq(SeatsUpTo(remote_count)) /\ Len(seats') = Len(seats) /\ seats'[i] = s
      /\ \A j \in 1..Len(seats) : j # i => seats'[j] = seats[j]
  BY <1>2, <1>3, <1>4
<1>6. Like(seats', seats)
  BY <1>4, <1>5 DEF Like
<1>7. \A j \in 1..Len(seats') : seats'[j].stale # {} => seats'[j].stopping
  BY <1>2, <1>4, <1>5 DEF Sound
<1>8. Sound(seats', remote_count, made) /\ Serials(seats') = Serials(seats)
  <2>1. seats' \in Seq(SeatsUpTo(remote_count))
    BY <1>5
  <2> QED BY <1>2, <1>6, <1>7, <2>1, LikeSound
<1>9. Moved
  <2>1. dm_stopping => AllStopping(seats')
    BY <1>4, <1>5 DEF ListInv, AllStopping
  <2>2. ListInv'
    BY <1>1, <1>8, <2>1 DEF ListInv
  <2> QED BY <1>1, <1>8, <2>2 DEF Moved
<1>10. StaleWaits(seats', present', graphical')
  BY <1>1, <1>4, <1>5 DEF StaleWaits
<1>11. \A p : Covered(p, seats) => Covered(p, seats')
  BY <1>4, <1>5 DEF Covered, Covers
<1> QED BY <1>1, <1>8, <1>9, <1>10, <1>11 DEF AllServed

(* SIGTERM, or a server that has no key.                                   *)
LEMMA StopStep ==
  ASSUME ListInv, ~dm_stopped, StaleWaits(seats, present, graphical),
         display_manager_stop \/ start_display_manager(FALSE)
  PROVE  /\ Moved /\ Serials(seats') = Serials(seats) /\ made' = made
         /\ StaleWaits(seats', present', graphical')
         /\ dm_stopping' /\ UNCHANGED <<present, graphical>>
<1>1. Sound(seats, remote_count, made) /\ made \in Nat
  BY DEF ListInv
<1> DEFINE list == AllStopped(seats)
<1>2. Like(list, seats) /\ Sound(list, remote_count, made) /\ AllStopping(list)
  BY <1>1, StopAll
<1>9. Updates(list, seats, made)
  BY <1>1, StopAllKeeps
<1>3. /\ UNCHANGED <<required, remote_count, failed, present, graphical>>
      /\ dm_stopping' = TRUE /\ check_stopped(seats, TRUE)
      /\ exit_failure' \in BOOLEAN
      /\ seats' = list /\ (made' = made \/ Seats(list))
  <2>1. CASE display_manager_stop
    BY <2>1 DEF display_manager_stop, ListInv, StopSeats, AllStopped
  <2>2. CASE start_display_manager(FALSE)
    BY <2>2 DEF start_display_manager, Seats, StopSeats, AllStopped
  <2> QED BY <2>1, <2>2
<1> HIDE DEF list
<1>4. Serials(list) = Serials(seats)
  BY <1>2 DEF Like, Serials
<1>5. made' = made
  BY <1>1, <1>2, <1>3 DEF Seats, Sound
<1>6. dm_stopped' \in BOOLEAN /\ (dm_stopped' => list = <<>>)
  <2>1. dm_stopped' = (seats = <<>>)
    BY <1>3 DEF check_stopped
  <2>2. seats = <<>> => list = <<>>
    BY <1>1, <1>2 DEF Like, Sound
  <2> QED BY <2>1, <2>2
<1>7. ListInv'
  BY <1>2, <1>3, <1>5, <1>6 DEF ListInv
<1>8. StaleWaits(list, present', graphical')
  <2>1. ASSUME NEW j \in 1..Len(list), list[j].stale # {}, Offered(list[j].name, present, graphical)
        PROVE  list[j].waiting
    BY <1>9, <2>1 DEF Updates, StaleWaits
  <2> QED BY <1>3, <2>1 DEF StaleWaits
<1> QED BY <1>3, <1>4, <1>5, <1>7, <1>8 DEF Moved

(* A seat that the daemon names itself, and the default seat.              *)
LEMMA AddStep ==
  ASSUME ListInv, ~dm_stopping, ~dm_stopped, StaleWaits(seats, present, graphical),
         present \subseteq Names, NEW n \in NamesUpTo(remote_count'), n \in Names => seats = <<>>,
         NEW types \in 1..NTypes, NEW exit \in BOOLEAN,
         NEW list \in AddSeat(seats, NewSeat(n, types, exit)), Seats(list),
         remote_count' \in Nat, remote_count' >= remote_count,
         UNCHANGED <<required, dm_stopping, dm_stopped, exit_failure, present, graphical, failed>>
  PROVE  /\ Moved /\ Serials(seats) \subseteq Serials(seats')
         /\ StaleWaits(seats', present', graphical')
         /\ n \notin Names => \A S : AllServed(S, seats, present, graphical, failed)
                     => AllServed(S, seats', present', graphical', failed')
<1> DEFINE s == NewSeat(n, types, exit)
           k == remote_count'
<1>1. Constants /\ made \in Nat /\ failed \subseteq Names /\ Sound(seats, remote_count, made)
  BY DEF Constants, ListInv
<1>2. Sound(seats, k, made)
  <2>1. SeatsUpTo(remote_count) \subseteq SeatsUpTo(k)
    BY <1>1, NamesGrow DEF Constants
  <2> QED BY <1>1, <2>1 DEF Sound
<1>3. s \in SeatsUpTo(k) /\ s.serial = made + 1 /\ s.name = n /\ ~s.stopping /\ ~s.waiting /\ s.stale = {}
  BY ZenonT(60), <1>1, NewSeatFacts
<1> HIDE DEF s
<1>4. n \in Names => n \notin NamesIn(seats)
  BY DEF NamesIn
<1>5. Sound(list, k, made + 1) /\ Updates(list, seats, made) /\ Spares(list, seats, n)
  <2>1. CASE list = seats
    <3>1. Updates(list, seats, made) /\ Spares(list, seats, n)
      BY <2>1 DEF Updates, Spares
    <3>2. Sound(list, k, made + 1)
      BY <1>1, <1>2, <2>1, ChainStart DEF Chain
    <3> QED BY <3>1, <3>2
  <2>2. CASE list = Append(seats, s)
    BY <1>1, <1>2, <1>3, <1>4, <2>2, AppendUpdates DEF Chain
  <2> QED BY <2>1, <2>2 DEF AddSeat, s
<1>6. Moved
  <2>1. failed' \subseteq Names /\ {dm_stopping', dm_stopped', exit_failure'} \subseteq BOOLEAN
        /\ ~dm_stopping' /\ ~dm_stopped'
    BY DEF ListInv
  <2> QED BY <1>5, <2>1, UpdatesMove
<1>7. seats' = list
  BY DEF Seats
<1>8. StaleWaits(list, present', graphical')
  <2>1. ASSUME NEW j \in 1..Len(list), list[j].stale # {}, Offered(list[j].name, present, graphical)
        PROVE  list[j].waiting
    BY <1>5, <2>1 DEF Updates, StaleWaits
  <2> QED BY <2>1 DEF StaleWaits
<1>9. ASSUME n \notin Names, NEW S, AllServed(S, seats, present, graphical, failed)
      PROVE  AllServed(S, list, present', graphical', failed')
  <2>1. ASSUME NEW p \in S, Offered(p, present, graphical) PROVE p \in failed \/ Covered(p, list)
    <3>1. p \in failed \/ Covered(p, seats)
      BY <1>9, <2>1 DEF AllServed
    <3>2. p # n
      BY <1>9, <2>1 DEF Offered
    <3> QED BY <1>5, <3>1, <3>2 DEF Spares
  <2> QED BY <2>1 DEF AllServed
<1> QED BY <1>5, <1>6, <1>7, <1>8, <1>9 DEF Updates

(* An update that leaves what logind offers alone.                         *)
LEMMA StaleSame ==
  ASSUME NEW list, NEW l, NEW m, NEW pres, NEW graph, Updates(l, list, m), StaleWaits(list, pres, graph)
  PROVE  StaleWaits(l, pres, graph)
<1>1. ASSUME NEW j \in 1..Len(l), l[j].stale # {}, Offered(l[j].name, pres, graph)
      PROVE  l[j].waiting
  BY <1>1 DEF Updates, StaleWaits
<1> QED BY <1>1 DEF StaleWaits

(* display_manager_seat_removed_cb: without the seat that has stopped,     *)
(* with one of the next type or without; a seat of a logind name in it is  *)
(* new and runs.                                                           *)
LEMMA NextType ==
  ASSUME ListInv, NEW i \in 1..Len(seats), NEW rest, rest = RemoveAt(seats, i),
         NEW r \in IF dm_stopping THEN {[list |-> rest, quit |-> FALSE]} ELSE seat_removed_cb(seats[i], rest)
  PROVE  LET n == seats[i].name IN
         /\ r.quit \in BOOLEAN /\ (dm_stopping => ~r.quit /\ AllStopping(r.list))
         /\ Chain(r.list, n, remote_count, made)
         /\ Updates(r.list, rest, made) /\ Spares(r.list, rest, n)
         /\ n \in Names => \A j \in 1..Len(r.list) : r.list[j].name = n => ~r.list[j].stopping
<1> DEFINE seat == seats[i]
           n == seat.name
<1>1. Constants /\ made \in Nat /\ Sound(seats, remote_count, made)
  BY DEF Constants, ListInv
<1>2. /\ n \in NamesUpTo(remote_count) /\ seat.types \in 1..NTypes /\ seat.exit_on_failure \in BOOLEAN
  <2>1. seat \in SeatsUpTo(remote_count)
    BY <1>1 DEF Sound
  <2> QED BY <2>1 DEF SeatsUpTo
<1>3. /\ Sound(rest, remote_count, made)
      /\ n \in Names => n \notin NamesIn(rest)
      /\ AllStopping(seats) => AllStopping(rest)
  BY <1>1, RemoveSound
<1>4. Chain(rest, n, remote_count, made)
  BY <1>1, <1>3, ChainStart
<1>5. Updates(rest, rest, made) /\ Spares(rest, rest, n)
  BY DEF Updates, Spares
<1>6. n \in Names => \A j \in 1..Len(rest) : rest[j].name # n
  BY <1>3 DEF NamesIn
<1>7. CASE dm_stopping
  <2>1. r.list = rest /\ r.quit = FALSE
    BY <1>7
  <2> QED BY <1>3, <1>4, <1>5, <1>6, <1>7, <2>1 DEF ListInv
<1>8. CASE ~dm_stopping /\ ~(seat.types > 1)
  <2>1. r.list = rest /\ r.quit = seat.exit_on_failure
    BY <1>8 DEF seat_removed_cb
  <2> QED BY <1>2, <1>4, <1>5, <1>6, <1>8, <2>1
<1>9. CASE ~dm_stopping /\ seat.types > 1
  <2> DEFINE types == seat.types - 1
             exit == seat.exit_on_failure \/ (n \notin Names \union {Seat0} /\ "name" \in RemoteRequired)
             s == NewSeat(n, types, exit)
  <2>1. r.quit = FALSE /\ r.list \in {rest, Append(rest, s)}
    BY <1>9 DEF seat_removed_cb, AddSeat, FallbackSeat
  <2>2. types \in 1..NTypes /\ exit \in BOOLEAN
    BY <1>2, <1>9, DMAssumption
  <2> HIDE DEF types, exit
  <2>3. /\ s \in SeatsUpTo(remote_count) /\ s.serial = made + 1 /\ s.name = n
        /\ ~s.stopping /\ ~s.waiting /\ s.stale = {}
    <3>1. n \in NamesUpTo(remote_count) /\ Constants
      BY <1>1, <1>2
    <3> HIDE DEF n
    <3> QED BY <2>2, <3>1, NewSeatFacts
  <2> HIDE DEF s
  <2>4. CASE r.list = rest
    BY <1>4, <1>5, <1>6, <1>9, <2>1, <2>4
  <2>5. CASE r.list = Append(rest, s)
    <3>1. Chain(r.list, n, remote_count, made) /\ Updates(r.list, rest, made) /\ Spares(r.list, rest, n)
      BY <1>1, <1>3, <2>3, <2>5, AppendUpdates
    <3>2. Len(r.list) = Len(rest) + 1 /\ r.list[Len(r.list)] = s /\ \A j \in 1..Len(rest) : r.list[j] = rest[j]
      BY <1>1, <1>3, <2>3, <2>5, AppendSound
    <3>3. \A j \in 1..Len(r.list) : j \in 1..Len(rest) \/ j = Len(r.list)
      BY <1>3, <3>2 DEF Sound
    <3>4. n \in Names => \A j \in 1..Len(r.list) : r.list[j].name = n => ~r.list[j].stopping
      BY <1>6, <2>3, <3>2, <3>3
    <3> QED BY <1>9, <2>1, <3>1, <3>4
  <2> QED BY <2>1, <2>4, <2>5
<1> QED BY <1>7, <1>8, <1>9

(* The handlers that waited for the seat update what that left.            *)
LEMMA HandlersRun ==
  ASSUME Constants, NEW seat, NEW left, NEW quits \in BOOLEAN, NEW list \in seat_stopped_cb(seat, left, quits),
         seat.name \in NamesUpTo(remote_count), Chain(left, seat.name, remote_count, made),
         quits => AllStopping(left)
  PROVE  /\ Chain(list, seat.name, remote_count, made)
         /\ Updates(list, left, made) /\ Spares(list, left, seat.name)
         /\ quits => AllStopping(list)
         /\ seat.waiting /\ wanted(seat.name \in graphical) =>
              \A j \in 1..Len(list) : list[j].name = seat.name /\ list[j].stopping => list[j].waiting
         /\ ~seat.waiting /\ seat.stale = {} => list = left
<1> DEFINE n == seat.name
           lit == n \in graphical
<1>1. PICK mid : /\ \/ mid = left
                    \/ seat.stale # {} /\ \E b \in seat.stale : mid \in update_login1_seat(left, n, b, quits)
                 /\ \/ ~seat.waiting /\ list = mid
                    \/ seat.waiting /\ list \in update_login1_seat(mid, n, lit, quits)
                 /\ seat.stale = {} => mid = left
  BY DEF seat_stopped_cb
<1> HIDE DEF n, lit
<1>2. /\ Chain(mid, n, remote_count, made) /\ Updates(mid, left, made) /\ Spares(mid, left, n)
      /\ quits => AllStopping(mid)
  <2>1. CASE mid = left
    BY <2>1 DEF n, Updates, Spares
  <2>2. ASSUME NEW b, mid \in update_login1_seat(left, n, b, quits)
        PROVE  /\ Chain(mid, n, remote_count, made) /\ Updates(mid, left, made) /\ Spares(mid, left, n)
               /\ quits => AllStopping(mid)
    BY <2>2, UpdateList DEF n
  <2> QED BY <1>1, <2>1, <2>2
<1>3. CASE ~seat.waiting /\ list = mid
  BY <1>1, <1>2, <1>3 DEF n
<1>4. CASE seat.waiting /\ list \in update_login1_seat(mid, n, lit, quits)
  <2>1. n \in NamesUpTo(remote_count)
    BY DEF n
  <2>2. /\ Chain(list, n, remote_count, made) /\ Updates(list, mid, made) /\ Spares(list, mid, n)
        /\ quits => AllStopping(list)
        /\ wanted(lit) => \A j \in 1..Len(list) : list[j].name = n /\ list[j].stopping => list[j].waiting
    BY <1>2, <1>4, <2>1, UpdateList
  <2>3. Updates(list, left, made) /\ Spares(list, left, n)
    BY <1>2, <2>2, UpdatesTwice, SparesTwice
  <2> QED BY <1>4, <2>2, <2>3 DEF n, lit
<1> QED BY <1>1, <1>3, <1>4

(* A seat says STOPPED: only it is lost, and what was offered and served   *)
(* still is, unless the daemon is stopping now.                            *)
LEMMA StoppedStep ==
  ASSUME ListInv, present \subseteq Names, StaleWaits(seats, present, graphical),
         NEW i \in 1..Len(seats), SeatStopped(i)
  PROVE  /\ Moved /\ UNCHANGED <<present, graphical>>
         /\ Serials(seats) \ {seats[i].serial} \subseteq Serials(seats')
         /\ StaleWaits(seats', present, graphical)
         /\ dm_stopped' => dm_stopping'
         /\ ~dm_stopping' /\ AllServed(present, seats, present, graphical, failed)
              => AllServed(present, seats', present, graphical, failed')
<1> DEFINE seat == seats[i]
           n == seat.name
           rest == RemoveAt(seats, i)
<1>1. PICK r \in IF dm_stopping THEN {[list |-> rest, quit |-> FALSE]} ELSE seat_removed_cb(seat, rest) :
        /\ dm_stopping' = (dm_stopping \/ r.quit)
        /\ exit_failure' = (exit_failure \/ r.quit)
        /\ \E list \in seat_stopped_cb(seat, IF r.quit THEN AllStopped(r.list) ELSE r.list, dm_stopping \/ r.quit) :
             /\ Seats(list)
             /\ check_stopped(list, dm_stopping \/ r.quit)
             /\ IF n \in Names /\ (seat.fault \/ seat.types > 1 \/ seat.waiting)
                  THEN Failures(n, list) ELSE UNCHANGED failed
  BY DEF SeatStopped, StopSeats, AllStopped
<1>2. UNCHANGED <<required, present, graphical, remote_count>> /\ ~dm_stopped /\ seat.stopping
  BY DEF SeatStopped
<1> DEFINE quits == dm_stopping \/ r.quit
           left == IF r.quit THEN AllStopped(r.list) ELSE r.list
<1>3. PICK list \in seat_stopped_cb(seat, left, quits) :
        /\ Seats(list)
        /\ check_stopped(list, quits)
        /\ IF n \in Names /\ (seat.fault \/ seat.types > 1 \/ seat.waiting)
             THEN Failures(n, list) ELSE UNCHANGED failed
  BY <1>1
<1>4. Constants /\ made \in Nat /\ Sound(seats, remote_count, made) /\ failed \subseteq Names
      /\ dm_stopping \in BOOLEAN /\ exit_failure \in BOOLEAN
  BY DEF Constants, ListInv
<1>5. n \in NamesUpTo(remote_count)
  <2>1. seat \in SeatsUpTo(remote_count)
    BY <1>4 DEF Sound
  <2> QED BY <2>1 DEF SeatsUpTo
<1>6. /\ Sound(rest, remote_count, made)
      /\ Others(rest, seats, i)
      /\ Serials(rest) = Serials(seats) \ {seat.serial}
  <2>0. rest = RemoveAt(seats, i)
    OBVIOUS
  <2> HIDE DEF rest
  <2>1. Sound(rest, remote_count, made)
    BY <1>4, <2>0, RemoveSound
  <2>2. Others(rest, seats, i)
    BY <1>4, <2>0, RemoveSound
  <2>3. Serials(rest) = Serials(seats) \ {seat.serial}
    <3>1. \A x \in Serials(rest) : x \in Serials(seats) /\ x # seat.serial
      <4>1. ASSUME NEW j \in 1..Len(rest)
            PROVE  rest[j].serial \in Serials(seats) /\ rest[j].serial # seat.serial
        <5>1. PICK p \in 1..Len(seats) : p # i /\ rest[j] = seats[p]
          BY <2>2 DEF Others
        <5>2. seats[p].serial # seats[i].serial
          BY <1>4, <5>1 DEF Sound
        <5> QED BY <5>1, <5>2 DEF Serials
      <4> QED BY <4>1 DEF Serials
    <3>2. \A x \in Serials(seats) : x # seat.serial => x \in Serials(rest)
      <4>1. ASSUME NEW p \in 1..Len(seats), seats[p].serial # seat.serial
            PROVE  seats[p].serial \in Serials(rest)
        <5>1. PICK j \in 1..Len(rest) : rest[j] = seats[p]
          BY <2>2, <4>1 DEF Others
        <5> QED BY <5>1 DEF Serials
      <4> QED BY <4>1 DEF Serials
    <3> QED BY <3>1, <3>2
  <2> QED BY <2>1, <2>2, <2>3
<1>7. /\ r.quit \in BOOLEAN /\ (dm_stopping => ~r.quit /\ AllStopping(r.list))
      /\ Chain(r.list, n, remote_count, made)
      /\ Updates(r.list, rest, made) /\ Spares(r.list, rest, n)
      /\ n \in Names => \A j \in 1..Len(r.list) : r.list[j].name = n => ~r.list[j].stopping
  BY NextType
<1> HIDE DEF rest, left, quits
<1>8. quits \in BOOLEAN /\ (dm_stopping => quits) /\ (quits <=> dm_stopping') /\ dm_stopping' \in BOOLEAN
  BY <1>1, <1>4, <1>7 DEF quits
<1>9. /\ Chain(left, n, remote_count, made) /\ Updates(left, rest, made)
      /\ quits => AllStopping(left)
      /\ ~quits => left = r.list
  <2>1. CASE r.quit
    <3>1. left = AllStopped(r.list) /\ quits
      BY <2>1 DEF left, quits
    <3>2. Like(left, r.list) /\ Sound(left, remote_count, made + 1) /\ AllStopping(left)
      BY <1>7, <3>1, StopAll DEF Chain
    <3>3. Updates(left, r.list, made)
      BY <1>7, <3>1, StopAllKeeps DEF Chain
    <3>4. Serials(left) = Serials(r.list) /\ NamesIn(left) = NamesIn(r.list)
      BY <3>2 DEF Like, Serials, NamesIn
    <3>5. Chain(left, n, remote_count, made)
      BY <1>7, <3>2, <3>4 DEF Chain
    <3>6. Updates(left, rest, made)
      BY <1>7, <3>3, UpdatesTwice
    <3> QED BY <3>1, <3>2, <3>5, <3>6
  <2>2. CASE ~r.quit
    BY <1>7, <2>2 DEF left, quits
  <2> QED BY <1>7, <2>1, <2>2
<1>10. /\ Chain(list, n, remote_count, made)
       /\ Updates(list, left, made) /\ Spares(list, left, n)
       /\ quits => AllStopping(list)
       /\ seat.waiting /\ wanted(n \in graphical) =>
            \A j \in 1..Len(list) : list[j].name = n /\ list[j].stopping => list[j].waiting
       /\ ~seat.waiting /\ seat.stale = {} => list = left
  BY <1>3, <1>4, <1>5, <1>8, <1>9, HandlersRun
<1>11. Updates(list, rest, made)
  BY <1>9, <1>10, UpdatesTwice
<1>12. failed' \subseteq Names /\ \A p : p # n /\ p \in failed => p \in failed'
  BY <1>3, <1>4 DEF Failures
<1>13. dm_stopped' \in BOOLEAN /\ (dm_stopped' => list = <<>> /\ dm_stopping')
  BY <1>2, <1>3, <1>8 DEF check_stopped
<1>14. Moved
  <2>1. Sound(list, remote_count', made + 1) /\ remote_count' \in Nat /\ required' = required
    BY <1>2, <1>4, <1>10 DEF Chain, Constants
  <2>2. Serials(rest) \subseteq Serials(seats)
    BY <1>6
  <2>3. {dm_stopping', dm_stopped', exit_failure'} \subseteq BOOLEAN
    BY <1>1, <1>4, <1>7, <1>8, <1>13
  <2>4. (dm_stopping => dm_stopping') /\ (dm_stopping' => AllStopping(list)) /\ (dm_stopped' => list = <<>>)
    BY <1>8, <1>10, <1>13
  <2> QED BY <1>3, <1>11, <1>12, <2>1, <2>2, <2>3, <2>4, UpdatesMove
<1>15. seats' = list
  BY <1>3 DEF Seats
<1>16. StaleWaits(rest, present, graphical)
  BY <1>6 DEF StaleWaits, Others
<1>17. StaleWaits(list, present, graphical)
  BY <1>11, <1>16, StaleSame
<1>18. ASSUME ~dm_stopping', AllServed(present, seats, present, graphical, failed),
              NEW p \in present, Offered(p, present, graphical)
       PROVE  p \in failed' \/ Covered(p, list)
  <2>1. ~quits /\ left = r.list
    BY <1>8, <1>9, <1>18
  <2>2. p \in failed \/ Covered(p, seats)
    BY <1>18 DEF AllServed
  <2>3. CASE p # n
    <3>1. Covered(p, seats) => Covered(p, rest)
      BY <1>6, <2>3 DEF Covered, Others
    <3>2. Covered(p, rest) => Covered(p, list)
      BY <1>7, <1>10, <2>1, <2>3 DEF Spares
    <3> QED BY <1>12, <2>2, <2>3, <3>1, <3>2
  <2>4. CASE p = n /\ seat.waiting
    <3>1. n \in Names /\ wanted(n \in graphical)
      BY <1>18, <2>4 DEF Offered
    <3>2. CASE n \in NamesIn(list)
      BY <1>10, <2>4, <3>1, <3>2, WaitingCovers
    <3>3. CASE n \notin NamesIn(list)
      BY <1>3, <2>4, <3>1, <3>3 DEF Failures
    <3> QED BY <3>2, <3>3
  <2>5. CASE p = n /\ ~seat.waiting
    <3>1. n \in Names /\ seat.stale = {}
      BY <1>18, <2>5 DEF StaleWaits
    <3>2. list = r.list
      BY <1>10, <2>1, <2>5, <3>1
    <3>3. CASE seat.fault \/ seat.types > 1
      <4>1. Failures(n, list)
        BY <1>3, <3>1, <3>3
      <4>2. \A j \in 1..Len(list) : list[j].name = n /\ list[j].stopping => list[j].waiting
        BY <1>7, <3>1, <3>2
      <4>3. n \in NamesIn(list) => Covered(n, list)
        BY <4>2, WaitingCovers
      <4> QED BY <2>5, <4>1, <4>3 DEF Failures
    <3>4. CASE ~(seat.fault \/ seat.types > 1)
      <4>1. failed' = failed
        BY <1>3, <2>5, <3>4
      <4>2. ~Covered(n, seats)
        BY <1>2, <1>4, <2>5, <3>1, <3>4 DEF Covered, Covers, Sound
      <4> QED BY <2>2, <2>5, <4>1, <4>2
    <3> QED BY <3>3, <3>4
  <2> QED BY <2>3, <2>4, <2>5
<1>19. ~dm_stopping' /\ AllServed(present, seats, present, graphical, failed)
         => AllServed(present, list, present, graphical, failed')
  BY <1>18 DEF AllServed
<1>20. Serials(seats) \ {seats[i].serial} \subseteq Serials(list)
  BY <1>6, <1>11 DEF Updates
<1> QED BY <1>2, <1>13, <1>14, <1>15, <1>17, <1>19, <1>20

(* Every order of a finite set has its elements.                           *)
LEMMA ListedAll ==
  ASSUME NEW S, IsFiniteSet(S), NEW s \in SetToSeqs(S)
  PROVE  s \in Seq(S) /\ Elements(s) = S
<1> DEFINE c == Cardinality(S)
<1>1. c \in Nat
  BY FS_CardinalityType
<1>2. s \in [1..c -> S] /\ \A i, j \in 1..c : i # j => s[i] # s[j]
  BY DEF SetToSeqs
<1> HIDE DEF c
<1>3. s \in Seq(S) /\ Len(s) = c
  BY <1>1, <1>2
<1>4. s \in Injection(1..c, S)
  BY <1>2 DEF Injection, IsInjective
<1>5. IsFiniteSet(1..c) /\ Cardinality(1..c) = c
  BY <1>1, FS_Interval
<1>6. s \in Surjection(1..c, S)
  BY <1>4, <1>5, FS_Injection DEF c
<1>7. \A x \in S : \E i \in 1..c : s[i] = x
  BY <1>6 DEF Surjection
<1> QED
  BY <1>2, <1>3, <1>7 DEF Elements

(* The answer of ListSeats names the seats that logind has.                *)
LEMMA ListedSeats ==
  ASSUME NEW f, NEW s \in SetToSeqs({n \in Names : f[n] # "absent"})
  PROVE  s \in Seq(Names) /\ Elements(s) = {n \in Names : f[n] # "absent"}
<1> DEFINE S == {n \in Names : f[n] # "absent"}
<1>1. IsFiniteSet(S)
  BY DMAssumption, FS_Subset
<1>2. S \subseteq Names
  OBVIOUS
<1>3. s \in Seq(S) /\ Elements(s) = S
  <2> HIDE DEF S
  <2>1. s \in SetToSeqs(S)
    BY DEF S
  <2> QED BY <1>1, <2>1, ListedAll
<1> QED BY <1>2, <1>3

(* What every step keeps of the daemon; Kept says it of the next state.    *)
Kept == Moved /\ PhaseInv' /\ ServingInv'

(* A step that leaves the daemon alone.                                    *)
LEMMA Still ==
  ASSUME ListInv, UNCHANGED dmVars
  PROVE  /\ Moved /\ Serials(seats') = Serials(seats)
         /\ StaleWaits(seats, present, graphical) => StaleWaits(seats', present', graphical')
<1>1. UNCHANGED <<required, seats, dm_stopping, dm_stopped, exit_failure, remote_count, made, failed>>
  BY DEF dmVars
<1>2. UNCHANGED <<present, graphical>>
  BY DEF dmVars
<1>3. ListInv'
  BY <1>1 DEF ListInv
<1> QED BY <1>1, <1>2, <1>3 DEF Moved

(* One that leaves main alone as well.                                     *)
LEMMA StillKept ==
  ASSUME ListInv, PhaseInv, ServingInv, UNCHANGED dmVars, UNCHANGED <<phase, connected, todo, asking>>
  PROVE  Kept /\ Serials(seats') = Serials(seats)
<1>1. Moved /\ Serials(seats') = Serials(seats)
  BY Still
<1>2. UNCHANGED <<required, seats, dm_stopping, dm_stopped, exit_failure, present, graphical, failed>>
  BY DEF dmVars
<1>3. PhaseInv'
  BY <1>2 DEF PhaseInv
<1>4. ServingInv'
  BY <1>2 DEF ServingInv
<1> QED BY <1>1, <1>3, <1>4 DEF Kept

(* logind changes.                                                         *)
LEMMA LogindServes ==
  ASSUME ListInv, PhaseInv, ServingInv, LogindNext
  PROVE  Kept /\ Serials(seats') = Serials(seats)
<1>1. UNCHANGED dmVars /\ UNCHANGED <<phase, connected, todo, asking>>
  BY DEF LogindNext, LogindAdds, LogindRemoves, LogindChanges, Logind
<1> QED BY <1>1, StillKept

(* login1_service_connect: there are no seats yet.                         *)
LEMMA ConnectServes ==
  ASSUME ListInv, PhaseInv, ServingInv, NEW ok \in BOOLEAN, login1_service_connect(ok)
  PROVE  Kept /\ Serials(seats') = Serials(seats)
<1>1. UNCHANGED dmVars /\ UNCHANGED <<connected, asking>>
  BY DEF login1_service_connect
<1>2. UNCHANGED <<required, seats, dm_stopping, dm_stopped, exit_failure, present, graphical, failed>>
  BY <1>1 DEF dmVars
<1>3. Moved /\ Serials(seats') = Serials(seats)
      /\ (StaleWaits(seats, present, graphical) => StaleWaits(seats', present', graphical'))
  BY <1>1, Still
<1>4. /\ phase \in {"connect", "list"} /\ phase' \in Early
      /\ todo' = todo \/ todo' \in SetToSeqs({n \in Names : logind[n] # "absent"})
  BY DEF login1_service_connect, Early
<1>5. todo' \in Seq(Names)
  BY <1>4, ListedSeats DEF PhaseInv
<1>6. present = {} /\ asking = NoName
  BY <1>4 DEF PhaseInv
<1>7. PhaseInv'
  BY <1>1, <1>2, <1>4, <1>5, <1>6 DEF PhaseInv, Early, Phases
<1>8. ServingInv'
  BY <1>3, <1>4 DEF ServingInv, Early
<1> QED BY <1>3, <1>7, <1>8 DEF Kept

(* The next seat of the list is asked for, or there is none left.          *)
LEMMA ListedServes ==
  ASSUME ListInv, PhaseInv, ServingInv, add_listed_seat
  PROVE  Kept /\ Serials(seats') = Serials(seats)
<1>1. UNCHANGED dmVars /\ todo' = todo /\ phase = "properties" /\ asking = NoName
  BY DEF add_listed_seat
<1>2. UNCHANGED <<required, seats, dm_stopping, dm_stopped, exit_failure, present, graphical, failed>>
  BY <1>1 DEF dmVars
<1>3. Moved /\ Serials(seats') = Serials(seats)
      /\ (StaleWaits(seats, present, graphical) => StaleWaits(seats', present', graphical'))
  BY <1>1, Still
<1> DEFINE left == {i \in 1..Len(todo) : todo[i] \notin present}
<1>4. CASE left = {} /\ phase' = "seats" /\ connected' = TRUE /\ asking' = asking
  <2>1. Elements(todo) \subseteq present
    BY <1>4 DEF Elements
  <2>2. present \subseteq Elements(todo) /\ ~dm_stopping /\ ~dm_stopped
    BY <1>1 DEF PhaseInv
  <2>3. PhaseInv'
    BY <1>1, <1>2, <1>4, <2>2 DEF PhaseInv, Early, Phases
  <2>4. AllServed(present \ Elements(todo), seats, present, graphical, failed)
    BY <2>2 DEF AllServed
  <2>5. ServingInv'
    BY <1>1, <1>2, <1>3, <1>4, <2>4 DEF ServingInv
  <2> QED BY <1>3, <2>3, <2>5 DEF Kept
<1>5. ASSUME NEW i \in 1..Len(todo), add_seat(todo[i]), phase' = phase, connected' = connected
      PROVE  Kept
  <2>1. asking' = todo[i] /\ todo[i] \in Names /\ todo[i] \in Elements(todo)
    BY <1>5 DEF add_seat, Elements, PhaseInv
  <2>3. PhaseInv'
    BY <1>1, <1>2, <1>5, <2>1 DEF PhaseInv, Early, Phases
  <2>5. ServingInv'
    BY <1>1, <1>2, <1>3, <1>5 DEF ServingInv
  <2> QED BY <1>3, <2>3, <2>5 DEF Kept
<1> QED BY <1>3, <1>4, <1>5 DEF add_listed_seat

(* The parts of the signals' invariant that say what a signal is.          *)
Signals ==
  /\ logind \in [Names -> {"absent", "dark", "lit"}]
  /\ bus \in Seq(Signal)

(* A step while the main loop runs after which what is offered is served.  *)
LEMMA SeatsServe ==
  ASSUME ListInv, PhaseInv, Moved, StaleWaits(seats', present', graphical'),
         ~dm_stopping => AllServed(present', seats', present', graphical', failed'),
         phase = "running", asking' = NoName,
         UNCHANGED <<phase, connected, todo, dm_stopping, dm_stopped>>,
         present' \subseteq Names, graphical' \subseteq present'
  PROVE  Kept
<1>1. PhaseInv'
  BY DEF PhaseInv, Early, Phases
<1>2. ServingInv'
  BY DEF ServingInv
<1> QED BY <1>1, <1>2 DEF Kept

(* The answer to GetAll: the seat is known now, and served if the main     *)
(* loop runs.                                                              *)
LEMMA GetAllServes ==
  ASSUME ListInv, PhaseInv, ServingInv, Signals, GetAll
  PROVE  Kept /\ Serials(seats) \subseteq Serials(seats')
<1> DEFINE n == asking
           lit == Lit(n)
<1>1. n \in Names /\ asking' = NoName /\ UNCHANGED <<phase, connected, todo>> /\ ~dm_stopped
  BY DEF GetAll, PhaseInv
<1>2. lit \in BOOLEAN
  BY DEF Lit
<1>3. present' = present \union {n} /\ CanGraphical(n, lit)
  BY DEF GetAll, login1_service_seat_added_cb
<1> HIDE DEF n, lit
<1>4. present' \subseteq Names /\ graphical' \subseteq present'
  BY <1>1, <1>3 DEF CanGraphical, PhaseInv
<1>5. /\ n \in graphical' <=> lit
      /\ \A p : p # n /\ p \in present' => p \in present
      /\ \A p : p # n => (p \in graphical' <=> p \in graphical)
  BY <1>2, <1>3 DEF CanGraphical
<1>6. CASE phase = "running"
  <2>1. Login1Update(n, lit)
    BY <1>6 DEF GetAll, login1_service_seat_added_cb, n, lit
  <2>2. StaleWaits(seats, present, graphical)
    BY DEF ServingInv
  <2>3. /\ Moved /\ Serials(seats) \subseteq Serials(seats')
        /\ StaleWaits(seats', present', graphical')
        /\ \A S : AllServed(S, seats, present, graphical, failed)
                    => AllServed(S \union {n}, seats', present', graphical', failed')
    BY <1>1, <1>2, <1>5, <2>1, <2>2, UpdateStep
  <2>4. UNCHANGED <<dm_stopping, dm_stopped>>
    BY <2>1 DEF Login1Update
  <2>5. ~dm_stopping => AllServed(present', seats', present', graphical', failed')
    BY <1>3, <1>6, <2>3 DEF ServingInv
  <2>6. Kept
    BY <1>1, <1>4, <1>6, <2>3, <2>4, <2>5, SeatsServe
  <2> QED BY <2>3, <2>6
<1>7. CASE phase # "running"
  <2>1. phase = "properties" /\ seats = <<>> /\ ~dm_stopping
    BY <1>1, <1>7 DEF PhaseInv, Early, GetAll
  <2>2. UNCHANGED <<required, seats, dm_stopping, dm_stopped, exit_failure, remote_count, made, failed>>
    BY <1>7 DEF GetAll
  <2>3. ListInv'
    BY <2>2 DEF ListInv
  <2>4. Moved /\ Serials(seats') = Serials(seats)
    BY <2>2, <2>3 DEF Moved
  <2>5. StaleWaits(seats', present', graphical')
    BY <2>1, <2>2 DEF StaleWaits
  <2>6. present' \subseteq Elements(todo)
    BY <1>1, <1>3, <2>1 DEF PhaseInv, n, GetAll
  <2>7. PhaseInv'
    BY <1>1, <1>4, <2>1, <2>2, <2>6 DEF PhaseInv, Early, Phases
  <2>8. ServingInv'
    BY <1>1, <2>1, <2>5 DEF ServingInv
  <2> QED BY <2>4, <2>7, <2>8 DEF Kept
<1> QED BY <1>6, <1>7

(* main deals with one seat after the other, and then all are served.      *)
LEMMA MainServes ==
  ASSUME ListInv, PhaseInv, ServingInv, main_add_seats
  PROVE  Kept /\ Serials(seats) \subseteq Serials(seats')
<1>1. phase = "seats" /\ UNCHANGED <<connected, asking>> /\ asking = NoName /\ connected
  BY DEF main_add_seats, PhaseInv
<1>2. ~dm_stopping /\ ~dm_stopped /\ StaleWaits(seats, present, graphical)
  BY <1>1 DEF PhaseInv, ServingInv
<1>3. CASE todo = <<>>
  <2>1. phase' = "running" /\ todo' = todo /\ UNCHANGED dmVars
    BY <1>3 DEF main_add_seats
  <2>2. UNCHANGED <<required, seats, dm_stopping, dm_stopped, exit_failure, present, graphical, failed>>
    BY <2>1 DEF dmVars
  <2>3. Moved /\ Serials(seats') = Serials(seats) /\ StaleWaits(seats', present', graphical')
    BY <1>2, <2>1, Still
  <2>4. PhaseInv'
    BY <1>1, <1>2, <2>1, <2>2 DEF PhaseInv, Early, Phases
  <2>5. present \ Elements(todo) = present
    BY <1>3 DEF Elements
  <2>6. AllServed(present', seats', present', graphical', failed')
    BY <1>1, <1>2, <2>2, <2>5 DEF ServingInv
  <2>7. ServingInv'
    BY <2>1, <2>3, <2>6 DEF ServingInv
  <2> QED BY <2>3, <2>4, <2>7 DEF Kept
<1>4. CASE todo # <<>>
  <2> DEFINE n == Head(todo)
  <2>1. /\ todo' = Tail(todo) /\ Login1Update(n, n \in graphical) /\ UNCHANGED <<present, graphical>>
        /\ phase' \in {"exited", "seats"}
    BY <1>1, <1>4 DEF main_add_seats
  <2>2. n \in Names /\ Tail(todo) \in Seq(Names)
    BY <1>4 DEF PhaseInv
  <2>3. Elements(todo) \subseteq Elements(Tail(todo)) \union {n}
    <3>1. ASSUME NEW i \in 1..Len(todo) PROVE todo[i] \in Elements(Tail(todo)) \union {n}
      <4>1. todo \in Seq(Names)
        BY DEF PhaseInv
      <4>2. CASE i = 1
        BY <1>4, <4>1, <4>2
      <4>3. CASE i # 1
        BY <1>4, <4>1, <4>3 DEF Elements
      <4> QED BY <4>2, <4>3
    <3> QED BY <3>1 DEF Elements
  <2> HIDE DEF n
  <2>4. /\ Moved /\ Serials(seats) \subseteq Serials(seats')
        /\ StaleWaits(seats', present', graphical')
        /\ \A S : AllServed(S, seats, present, graphical, failed)
                    => AllServed(S \union {n}, seats', present', graphical', failed')
    <3> DEFINE lit == n \in graphical
    <3>1. lit \in BOOLEAN /\ (n \in graphical' <=> lit) /\ Login1Update(n, lit)
      BY <2>1
    <3>2. /\ \A p : p # n /\ p \in present' => p \in present
          /\ \A p : p # n => (p \in graphical' <=> p \in graphical)
      BY <2>1
    <3> HIDE DEF lit
    <3> QED BY <1>2, <2>2, <3>1, <3>2, UpdateStep
  <2>5. UNCHANGED <<dm_stopping, dm_stopped>>
    BY <2>1 DEF Login1Update
  <2>6. PhaseInv'
    BY <1>1, <1>2, <2>1, <2>2, <2>5 DEF PhaseInv, Early, Phases
  <2>7. AllServed(present \ Elements(todo), seats, present, graphical, failed)
    BY <1>1, <1>2 DEF ServingInv
  <2>8. AllServed((present \ Elements(todo)) \union {n}, seats', present', graphical', failed')
    BY <2>4, <2>7
  <2>9. AllServed(present' \ Elements(todo'), seats', present', graphical', failed')
    BY <2>1, <2>3, <2>8 DEF AllServed
  <2>10. ServingInv'
    BY <2>1, <2>4, <2>9 DEF ServingInv
  <2> QED BY <2>4, <2>6, <2>10 DEF Kept
<1> QED BY <1>3, <1>4

(* Without logind nothing is offered.                                      *)
LEMMA DefaultServes ==
  ASSUME ListInv, PhaseInv, ServingInv, main_add_default_seat
  PROVE  Kept /\ Serials(seats) \subseteq Serials(seats')
<1>1. PICK list \in AddSeat(seats, Login1Seat(Seat0)) : Seats(list)
  BY DEF main_add_default_seat
<1>2. /\ UNCHANGED <<required, dm_stopping, dm_stopped, exit_failure, present, graphical, failed>>
      /\ UNCHANGED <<connected, todo, asking, remote_count>>
      /\ phase = "default" /\ phase' \in {"exited", "running"}
  BY DEF main_add_default_seat
<1>3. ~dm_stopping /\ ~dm_stopped /\ present = {} /\ seats = <<>> /\ asking = NoName
  BY <1>2 DEF PhaseInv, Early
<1>4. StaleWaits(seats, present, graphical) /\ remote_count \in Nat
  BY DEF ServingInv, ListInv
<1>5. Seat0 \in NamesUpTo(remote_count')
  BY DEF NamesUpTo
<1> DEFINE exit == Seat0 = Seat0 \/ Seat0 \in required
<1>6. exit \in BOOLEAN /\ NTypes \in 1..NTypes
  BY DMAssumption
<1>7. list \in AddSeat(seats, NewSeat(Seat0, NTypes, exit))
  BY <1>1 DEF Login1Seat
<1> HIDE DEF exit
<1>8. /\ Moved /\ Serials(seats) \subseteq Serials(seats')
      /\ StaleWaits(seats', present', graphical')
  <2>1. present \subseteq Names /\ (Seat0 \in Names => seats = <<>>)
    BY <1>3
  <2>2. remote_count' \in Nat /\ remote_count' >= remote_count
    BY <1>2, <1>4
  <2> QED BY <1>1, <1>2, <1>3, <1>4, <1>5, <1>6, <1>7, <2>1, <2>2, AddStep
<1>9. PhaseInv'
  BY <1>2, <1>3 DEF PhaseInv, Early, Phases
<1>10. AllServed(present', seats', present', graphical', failed')
  BY <1>2, <1>3 DEF AllServed
<1>11. ServingInv'
  BY <1>2, <1>8, <1>10 DEF ServingInv
<1> QED BY <1>8, <1>9, <1>11 DEF Kept

(* The first signal is one.                                                *)
LEMMA HeadSignal ==
  ASSUME NEW b \in Seq(Signal), b # <<>>
  PROVE  /\ b[1] \in Signal /\ Head(b) = b[1] /\ b[1].seat \in Names
         /\ b[1].t = "PropertiesChanged" =>
              b[1].valid \in BOOLEAN /\ b[1].lit \in BOOLEAN /\ b[1].to \in Nat
<1>1. b[1] \in Signal /\ Head(b) = b[1]
  OBVIOUS
<1> QED BY <1>1 DEF Signal

(* SeatNew asks for the seat.                                              *)
LEMMA NewServes ==
  ASSUME ListInv, PhaseInv, ServingInv, Signals, SignalSeatNew
  PROVE  Kept /\ Serials(seats) \subseteq Serials(seats')
<1>1. /\ UNCHANGED dmVars /\ UNCHANGED <<phase, connected, todo>> /\ bus # <<>>
      /\ phase = "running" /\ asking = NoName /\ ~dm_stopped
      /\ asking' \in {asking, Head(bus).seat}
  BY DEF SignalSeatNew, Next1, Idle, add_seat
<1>2. Head(bus).seat \in Names
  BY <1>1, HeadSignal DEF Signals
<1>3. UNCHANGED <<required, seats, dm_stopping, dm_stopped, exit_failure, present, graphical, failed>>
  BY <1>1 DEF dmVars
<1>4. Moved /\ Serials(seats') = Serials(seats)
  BY <1>1, Still
<1>5. PhaseInv'
  BY <1>1, <1>2, <1>3 DEF PhaseInv, Early, Phases
<1>6. ServingInv'
  BY <1>1, <1>3 DEF ServingInv
<1> QED BY <1>4, <1>5, <1>6 DEF Kept

(* SeatRemoved: what is left is served.                                    *)
LEMMA RemovedServes ==
  ASSUME ListInv, PhaseInv, ServingInv, Signals, SignalSeatRemoved
  PROVE  Kept /\ Serials(seats) \subseteq Serials(seats')
<1> DEFINE n == Head(bus).seat
<1>1. /\ UNCHANGED <<phase, connected, todo, asking>> /\ bus # <<>>
      /\ phase = "running" /\ asking = NoName /\ ~dm_stopped
  BY DEF SignalSeatRemoved, Next1, Idle
<1>2. n \in Names
  BY <1>1, HeadSignal DEF Signals
<1>3. CASE n \notin present
  <2>1. UNCHANGED dmVars
    BY <1>3 DEF SignalSeatRemoved
  <2> QED BY <1>1, <2>1, StillKept
<1>4. CASE n \in present
  <2>1. login1_service_seat_removed_cb(n)
    BY <1>4 DEF SignalSeatRemoved
  <2> HIDE DEF n
  <2>2. StaleWaits(seats, present, graphical)
    BY DEF ServingInv
  <2>3. /\ Moved /\ Serials(seats) \subseteq Serials(seats')
        /\ StaleWaits(seats', present', graphical')
        /\ \A S : AllServed(S, seats, present, graphical, failed)
                    => AllServed(S, seats', present', graphical', failed')
    BY <1>1, <1>2, <2>1, <2>2, RemovedStep
  <2>4. /\ UNCHANGED <<dm_stopping, dm_stopped>>
        /\ present' = present \ {n} /\ graphical' = graphical \ {n}
    BY <2>1 DEF login1_service_seat_removed_cb
  <2>5. present' \subseteq Names /\ graphical' \subseteq present' /\ present' \subseteq present
    BY <2>4 DEF PhaseInv
  <2>6. ~dm_stopping => AllServed(present', seats', present', graphical', failed')
    <3>1. ~dm_stopping => AllServed(present, seats', present', graphical', failed')
      BY <1>1, <2>3 DEF ServingInv
    <3> QED BY <2>5, <3>1 DEF AllServed
  <2>7. Kept
    BY <1>1, <2>3, <2>4, <2>5, <2>6, SeatsServe
  <2> QED BY <2>3, <2>7
<1> QED BY <1>3, <1>4

(* PropertiesChanged: a seat that is graphical now is served.              *)
LEMMA ChangedServes ==
  ASSUME ListInv, PhaseInv, ServingInv, Signals, seat_properties_changed_cb
  PROVE  Kept /\ Serials(seats) \subseteq Serials(seats')
<1> DEFINE m == Head(bus)
           n == m.seat
           lit == IF m.valid THEN m.lit ELSE Lit(n)
           current == n \in present /\ m.to = objects[n]
<1>1. /\ UNCHANGED <<phase, connected, todo, asking>> /\ bus # <<>> /\ m.t = "PropertiesChanged"
      /\ phase = "running" /\ asking = NoName /\ ~dm_stopped
  BY DEF seat_properties_changed_cb, Next1, Idle
<1>2. n \in Names /\ m.valid \in BOOLEAN /\ m.lit \in BOOLEAN
  BY <1>1, HeadSignal DEF Signals
<1>3. lit \in BOOLEAN /\ current \in BOOLEAN /\ (current => n \in present)
  BY <1>2 DEF Lit
<1>4. UNCHANGED dmVars \/ login1_can_graphical_changed_cb(n, lit, current)
  BY DEF seat_properties_changed_cb
<1> HIDE DEF m, n, lit, current
<1>5. CASE UNCHANGED dmVars
  BY <1>1, <1>5, StillKept
<1>6. CASE login1_can_graphical_changed_cb(n, lit, current)
  <2>2. StaleWaits(seats, present, graphical)
    BY DEF ServingInv
  <2>3. /\ Moved /\ Serials(seats) \subseteq Serials(seats')
        /\ StaleWaits(seats', present', graphical')
        /\ \A S : AllServed(S, seats, present, graphical, failed)
                    => AllServed(S, seats', present', graphical', failed')
    BY <1>1, <1>2, <1>3, <1>6, <2>2, GraphicalStep
  <2>4. /\ UNCHANGED <<dm_stopping, dm_stopped, present>>
        /\ IF current THEN CanGraphical(n, lit) ELSE UNCHANGED graphical
    BY <1>6 DEF login1_can_graphical_changed_cb
  <2>5. present' \subseteq Names /\ graphical' \subseteq present'
    BY <1>3, <2>4 DEF PhaseInv, CanGraphical
  <2>6. ~dm_stopping => AllServed(present', seats', present', graphical', failed')
    BY <1>1, <2>3, <2>4 DEF ServingInv
  <2>7. Kept
    BY <1>1, <2>3, <2>4, <2>5, <2>6, SeatsServe
  <2> QED BY <2>3, <2>7
<1> QED BY <1>4, <1>5, <1>6

(* The daemon's own steps, taken when the main loop is idle.               *)
LEMMA IdleServes ==
  ASSUME ListInv, PhaseInv, Idle, UNCHANGED login1Vars, Moved,
         StaleWaits(seats', present', graphical'), UNCHANGED <<present, graphical>>,
         ~dm_stopping' => AllServed(present, seats', present, graphical, failed'),
         dm_stopped' => dm_stopping'
  PROVE  Kept
<1>1. UNCHANGED <<phase, connected, todo, asking>> /\ phase = "running" /\ asking = NoName
  BY DEF login1Vars, Idle
<1>2. PhaseInv'
  BY <1>1 DEF PhaseInv, Early, Phases
<1>3. ServingInv'
  BY <1>1 DEF ServingInv
<1> QED BY <1>2, <1>3 DEF Kept

(* No seat with a session that runs is lost.                               *)
Loses == \A s \in DOMAIN user_sessions :
           Runs(s) /\ user_sessions[s].seat \in Serials(seats) => user_sessions[s].seat \in Serials(seats')

(* A seat fails, is asked for something or stops, or the daemon is told to *)
(* stop.                                                                   *)
LEMMA DaemonServes ==
  ASSUME ListInv, PhaseInv, ServingInv, Idle, DaemonNext, UNCHANGED login1Vars
  PROVE  Kept /\ Loses
<1>1. /\ ~dm_stopped /\ StaleWaits(seats, present, graphical) /\ present \subseteq Names
      /\ ~dm_stopping => AllServed(present, seats, present, graphical, failed)
  BY DEF Idle, PhaseInv, ServingInv
<1>2. ASSUME NEW i \in 1..Len(seats), SeatFails(i)
      PROVE  Kept /\ Loses
  <2>1. /\ Moved /\ Serials(seats) \subseteq Serials(seats')
        /\ StaleWaits(seats', present', graphical')
        /\ \A S : AllServed(S, seats, present, graphical, failed)
                    => AllServed(S, seats', present', graphical', failed')
    BY <1>1, <1>2, FailsStep
  <2>2. UNCHANGED <<dm_stopping, dm_stopped, present, graphical>>
    BY <1>2 DEF SeatFails
  <2>3. ~dm_stopping' => AllServed(present, seats', present, graphical, failed')
    BY <1>1, <2>1, <2>2
  <2>4. Kept
    BY <1>1, <2>1, <2>2, <2>3, IdleServes
  <2> QED BY <2>1, <2>4 DEF Loses
<1>3. ASSUME NEW i \in 1..Len(seats), SeatStops(i)
      PROVE  Kept /\ Loses
  <2>1. SeatStopped(i) /\ \A s \in DOMAIN user_sessions : Runs(s) => user_sessions[s].seat # seats[i].serial
    BY <1>3 DEF SeatStops
  <2>2. /\ Moved /\ UNCHANGED <<present, graphical>>
        /\ StaleWaits(seats', present, graphical)
        /\ dm_stopped' => dm_stopping'
        /\ ~dm_stopping' /\ AllServed(present, seats, present, graphical, failed)
             => AllServed(present, seats', present, graphical, failed')
    BY <1>1, <2>1, StoppedStep
  <2>3. \A x \in Serials(seats) : x # seats[i].serial => x \in Serials(seats')
    <3>1. Serials(seats) \ {seats[i].serial} \subseteq Serials(seats')
      BY <1>1, <2>1, StoppedStep
    <3> QED BY <3>1
  <2>4. ~dm_stopping' => ~dm_stopping
    BY <2>2 DEF Moved
  <2>5. Kept
    BY <1>1, <2>2, <2>4, IdleServes
  <2> QED BY <2>1, <2>3, <2>5 DEF Loses
<1>4. CASE display_manager_stop
  <2>1. /\ Moved /\ Serials(seats') = Serials(seats)
        /\ StaleWaits(seats', present', graphical')
        /\ dm_stopping' /\ UNCHANGED <<present, graphical>>
    BY <1>1, <1>4, StopStep
  <2>2. Kept
    BY <1>1, <2>1, IdleServes
  <2> QED BY <2>1, <2>2 DEF Loses
<1>5. ASSUME NEW i \in 1..Len(seats), SeatAsked(i)
      PROVE  Kept /\ Loses
  <2>1. /\ Moved /\ Serials(seats) \subseteq Serials(seats')
        /\ StaleWaits(seats', present', graphical')
        /\ \A S : AllServed(S, seats, present, graphical, failed)
                    => AllServed(S, seats', present', graphical', failed')
    BY <1>1, <1>5, AskedStep
  <2>2. UNCHANGED <<dm_stopping, dm_stopped, present, graphical>>
    BY <1>5 DEF SeatAsked
  <2>3. ~dm_stopping' => AllServed(present, seats', present, graphical, failed')
    BY <1>1, <2>1, <2>2
  <2>4. Kept
    BY <1>1, <2>1, <2>2, <2>3, IdleServes
  <2> QED BY <2>1, <2>4 DEF Loses
<1> QED BY <1>2, <1>3, <1>4, <1>5 DEF DaemonNext

(* A remote seat takes the place of none of logind's.                      *)
LEMMA RemoteServes ==
  ASSUME ListInv, PhaseInv, ServingInv, Idle, RemoteNext, UNCHANGED login1Vars
  PROVE  Kept /\ Serials(seats) \subseteq Serials(seats')
<1>1. /\ ~dm_stopped /\ StaleWaits(seats, present, graphical) /\ present \subseteq Names
      /\ ~dm_stopping => AllServed(present, seats, present, graphical, failed)
      /\ remote_count \in Nat
  BY DEF Idle, PhaseInv, ServingInv, ListInv
<1> DEFINE exit == "Seat:*" \in RemoteRequired
<1>2. PICK n \in {RemoteName(remote_count'), XRemote} :
        \E list \in AddSeat(seats, NewSeat(n, NTypes, exit)) : Seats(list)
  BY DEF RemoteNext, add_remote_seat, handle_display_manager_call, service_add_xlocal_seat_cb, RemoteSeat
<1>3. /\ UNCHANGED <<required, dm_stopping, dm_stopped, exit_failure, present, graphical, failed>>
      /\ ~dm_stopping /\ remote_count' = remote_count + 1
  BY DEF RemoteNext, add_remote_seat, handle_display_manager_call, service_add_xlocal_seat_cb
<1>4. n \in NamesUpTo(remote_count')
  BY <1>1, <1>2, <1>3 DEF NamesUpTo
<1>5. n \notin Names
  BY <1>1, <1>2, <1>3, DMAssumption DEF RemoteName
<1>6. NTypes \in 1..NTypes /\ exit \in BOOLEAN
  BY DMAssumption
<1> HIDE DEF exit
<1>7. PICK list \in AddSeat(seats, NewSeat(n, NTypes, exit)) : Seats(list)
  BY <1>2
<1>8. remote_count' \in Nat /\ remote_count' >= remote_count
  BY <1>1, <1>3
<1>9. /\ Moved /\ Serials(seats) \subseteq Serials(seats')
      /\ StaleWaits(seats', present', graphical')
      /\ n \notin Names => \A S : AllServed(S, seats, present, graphical, failed)
                    => AllServed(S, seats', present', graphical', failed')
  BY <1>1, <1>3, <1>4, <1>5, <1>6, <1>7, <1>8, AddStep
<1>10. Kept
  <2>1. ~dm_stopping' => AllServed(present, seats', present, graphical, failed')
    BY <1>1, <1>3, <1>5, <1>9
  <2> QED BY <1>1, <1>3, <1>9, <2>1, IdleServes
<1> QED BY <1>9, <1>10

(* bus_acquired_cb, with or without a key for the XDMCP server.            *)
LEMMA AcquiredServes ==
  ASSUME ListInv, PhaseInv, ServingInv, NEW key \in BOOLEAN, bus_acquired_cb(key)
  PROVE  Kept /\ Serials(seats') = Serials(seats) /\ made' = made
<1>1. Idle /\ UNCHANGED login1Vars /\ start_display_manager(key)
  BY DEF bus_acquired_cb
<1>2. CASE key = TRUE
  <2>1. UNCHANGED dmVars
    BY <1>1, <1>2 DEF start_display_manager
  <2>2. UNCHANGED <<phase, connected, todo, asking, made>>
    BY <1>1, <2>1 DEF login1Vars, dmVars
  <2> QED BY <2>1, <2>2, StillKept
<1>3. CASE key = FALSE
  <2>1. start_display_manager(FALSE) /\ ~dm_stopped /\ StaleWaits(seats, present, graphical)
    BY <1>1, <1>3 DEF Idle, ServingInv
  <2>2. /\ Moved /\ Serials(seats') = Serials(seats) /\ made' = made
        /\ StaleWaits(seats', present', graphical')
        /\ dm_stopping' /\ UNCHANGED <<present, graphical>>
    BY <2>1, StopStep
  <2>3. Kept
    BY <1>1, <2>2, IdleServes
  <2> QED BY <2>2, <2>3
<1> QED BY <1>2, <1>3

(* name_lost_cb ends the process.                                          *)
LEMMA ExitServes ==
  ASSUME ListInv, PhaseInv, ServingInv, name_lost_cb
  PROVE  Kept /\ Serials(seats') = Serials(seats)
<1>1. /\ UNCHANGED dmVars /\ UNCHANGED <<connected, todo, asking>> /\ phase' = "exited"
      /\ phase = "running" /\ asking = NoName
  BY DEF name_lost_cb, Idle
<1>2. UNCHANGED <<required, seats, dm_stopping, dm_stopped, exit_failure, present, graphical, failed>>
  BY <1>1 DEF dmVars
<1>3. /\ Moved /\ Serials(seats') = Serials(seats)
      /\ StaleWaits(seats, present, graphical) => StaleWaits(seats', present', graphical')
  BY <1>1, Still
<1>4. PhaseInv'
  BY <1>1, <1>2 DEF PhaseInv, Early, Phases
<1>5. ServingInv'
  BY <1>1, <1>3 DEF ServingInv
<1> QED BY <1>3, <1>4, <1>5 DEF Kept

(***************************************************************************)
(* Signals                                                                 *)
(***************************************************************************)

(* A list of signals b with one more at its end.                           *)
Longer(c, b, m) ==
  /\ c \in Seq(Signal) /\ Len(b) \in Nat /\ Len(c) = Len(b) + 1
  /\ c[Len(b) + 1] = m
  /\ \A i \in 1..Len(b) : c[i] = b[i]

(* A signal is sent.                                                       *)
LEMMA OneMore ==
  ASSUME NEW b \in Seq(Signal), NEW m \in Signal
  PROVE  Longer(b \o <<m>>, b, m)
<1>1. b \o <<m>> = Append(b, m)
  OBVIOUS
<1>2. /\ Append(b, m) \in Seq(Signal) /\ Len(b) \in Nat /\ Len(Append(b, m)) = Len(b) + 1
      /\ Append(b, m)[Len(b) + 1] = m
      /\ \A i \in 1..Len(b) : Append(b, m)[i] = b[i]
  OBVIOUS
<1> QED BY <1>1, <1>2 DEF Longer

(* The places of a list with one more.                                     *)
LEMMA LongerPlaces ==
  ASSUME NEW b, NEW c, NEW m, Longer(c, b, m)
  PROVE  /\ \A i \in 1..Len(c) : i \in 1..Len(b) \/ i = Len(b) + 1
         /\ 1..Len(b) \subseteq 1..Len(c) /\ Len(b) + 1 \in 1..Len(c)
         /\ \A i \in 1..Len(b) : i < Len(b) + 1
BY DEF Longer

(* It says nothing of another seat.                                        *)
LEMMA OtherSeat ==
  ASSUME NEW b, NEW c, NEW m, Longer(c, b, m), NEW p, p # m.seat,
         NEW state, NEW known, NEW k, NEW bright
  PROVE  /\ InOrder(b, p, state) => InOrder(c, p, state)
         /\ Heard(b, p, state, known) => Heard(c, p, state, known)
         /\ LastRight(b, p, k, state) => LastRight(c, p, k, state)
         /\ PictureRight(b, p, k, state, bright) => PictureRight(c, p, k, state, bright)
<1>1. /\ \A i \in 1..Len(c) : i \in 1..Len(b) \/ i = Len(b) + 1
      /\ 1..Len(b) \subseteq 1..Len(c) /\ Len(b) + 1 \in 1..Len(c)
      /\ \A i \in 1..Len(b) : c[i] = b[i]
      /\ c[Len(b) + 1] = m
  BY LongerPlaces DEF Longer
<1>2. \A t, i : i \in 1..Len(c) /\ Says(c, t, p, i) => i \in 1..Len(b) /\ Says(b, t, p, i)
  BY <1>1 DEF Says
<1>3. \A t : \A i \in 1..Len(b) : Says(b, t, p, i) => Says(c, t, p, i)
  BY <1>1 DEF Says
<1>4. \A t : UnderWay(b, t, p) <=> UnderWay(c, t, p)
  BY <1>1, <1>2, <1>3 DEF UnderWay
<1>5. \A i : i \in 1..Len(c) /\ Tells(c, p, k, i) => i \in 1..Len(b) /\ Tells(b, p, k, i)
  BY <1>1, <1>2 DEF Tells
<1>6. \A i \in 1..Len(b) : Tells(b, p, k, i) => Tells(c, p, k, i)
  BY <1>1, <1>3 DEF Tells
<1>7. InOrder(b, p, state) => InOrder(c, p, state)
  BY <1>1, <1>2, <1>3 DEF InOrder
<1>8. Heard(b, p, state, known) => Heard(c, p, state, known)
  BY <1>4 DEF Heard
<1>9. LastRight(b, p, k, state) => LastRight(c, p, k, state)
  BY <1>1, <1>4, <1>5, <1>6 DEF LastRight
<1>10. PictureRight(b, p, k, state, bright) => PictureRight(c, p, k, state, bright)
  BY <1>1, <1>4, <1>6 DEF PictureRight
<1> QED BY <1>7, <1>8, <1>9, <1>10

(* logind adds or removes a seat.                                          *)
LEMMA ComesAndGoes ==
  ASSUME NEW b, NEW c, NEW m, Longer(c, b, m), NEW n, m.seat = n, NEW known, NEW k, NEW state,
         \/ m.t = "SeatNew" /\ state # "absent" 
         \/ m.t = "SeatRemoved" /\ state = "absent"
  PROVE  /\ InOrder(c, n, state) /\ Heard(c, n, state, known)
         /\ UnderWay(b, "SeatRemoved", n) \/ state = "absent" => UnderWay(c, "SeatRemoved", n)
<1>1. /\ \A i \in 1..Len(c) : i \in 1..Len(b) \/ i = Len(b) + 1
      /\ 1..Len(b) \subseteq 1..Len(c) /\ Len(b) + 1 \in 1..Len(c)
      /\ \A i \in 1..Len(b) : c[i] = b[i]
      /\ \A i \in 1..Len(b) : i < Len(b) + 1
      /\ c[Len(b) + 1] = m
  BY LongerPlaces DEF Longer
<1>2. CASE m.t = "SeatNew" /\ state # "absent"
  <2>1. Says(c, "SeatNew", n, Len(b) + 1) /\ ~Says(c, "SeatRemoved", n, Len(b) + 1)
    BY <1>1, <1>2 DEF Says
  <2> QED BY <1>1, <1>2, <2>1 DEF InOrder, Heard, UnderWay, Says
<1>3. CASE m.t = "SeatRemoved" /\ state = "absent"
  <2>1. Says(c, "SeatRemoved", n, Len(b) + 1) /\ ~Says(c, "SeatNew", n, Len(b) + 1)
    BY <1>1, <1>3 DEF Says
  <2> QED BY <1>1, <1>3, <2>1 DEF InOrder, Heard, UnderWay, Says
<1> QED BY <1>2, <1>3

(* logind changes a seat that has an object: the last signal to the object *)
(* is right.                                                               *)
LEMMA Changes ==
  ASSUME NEW b, NEW c, NEW m, Longer(c, b, m), NEW n, m.seat = n, m.t = "PropertiesChanged",
         NEW known, NEW k, m.to = k, NEW old, NEW state, old # "absent", state # "absent",
         m.valid => (m.lit <=> state = "lit"), NEW bright
  PROVE  /\ InOrder(b, n, old) => InOrder(c, n, state)
         /\ Heard(b, n, old, known) => Heard(c, n, state, known)
         /\ LastRight(c, n, k, state) /\ PictureRight(c, n, k, state, bright)
<1>1. /\ \A i \in 1..Len(c) : i \in 1..Len(b) \/ i = Len(b) + 1
      /\ 1..Len(b) \subseteq 1..Len(c) /\ Len(b) + 1 \in 1..Len(c)
      /\ \A i \in 1..Len(b) : c[i] = b[i]
      /\ \A i \in 1..Len(b) : i < Len(b) + 1
      /\ c[Len(b) + 1] = m
  BY LongerPlaces DEF Longer
<1>2. Tells(c, n, k, Len(b) + 1)
  BY <1>1 DEF Tells, Says
<1>3. InOrder(b, n, old) => InOrder(c, n, state)
  BY <1>1 DEF InOrder, Says
<1>4. Heard(b, n, old, known) => Heard(c, n, state, known)
  BY <1>1 DEF Heard, UnderWay, Says
<1>5. LastRight(c, n, k, state)
  BY <1>1, <1>2 DEF LastRight
<1>6. PictureRight(c, n, k, state, bright)
  BY <1>1, <1>2 DEF PictureRight
<1> QED BY <1>3, <1>4, <1>5, <1>6

(* A list of signals b without its first.                                  *)
Shorter(c, b) ==
  /\ c \in Seq(Signal) /\ Len(b) \in Nat /\ Len(c) \in Nat /\ Len(b) = Len(c) + 1
  /\ \A i \in 1..Len(c) : i + 1 \in 1..Len(b) /\ c[i] = b[i + 1]
  /\ \A i \in 1..Len(b) : i # 1 => i - 1 \in 1..Len(c) /\ b[i] = c[i - 1]

(* A signal is taken.                                                      *)
LEMMA OneLess ==
  ASSUME NEW b \in Seq(Signal), b # <<>>
  PROVE  Shorter(Tail(b), b)
<1>1. /\ Tail(b) \in Seq(Signal) /\ Len(b) \in Nat /\ Len(Tail(b)) = Len(b) - 1 /\ Len(b) > 0
  OBVIOUS
<1>2. \A i \in 1..Len(Tail(b)) : i + 1 \in 1..Len(b) /\ Tail(b)[i] = b[i + 1]
  OBVIOUS
<1>3. ASSUME NEW i \in 1..Len(b), i # 1 PROVE i - 1 \in 1..Len(Tail(b)) /\ b[i] = Tail(b)[i - 1]
  BY <1>1, <1>3
<1> QED BY <1>1, <1>2, <1>3 DEF Shorter

(* What the first says, others may say again.                              *)
LEMMA FirstTaken ==
  ASSUME NEW b, NEW c, Shorter(c, b), NEW p
  PROVE  /\ \A t : UnderWay(c, t, p) => UnderWay(b, t, p)
         /\ \A t : UnderWay(b, t, p) /\ ~Says(b, t, p, 1) => UnderWay(c, t, p)
         /\ \A state : InOrder(b, p, state) => InOrder(c, p, state)
         /\ InOrder(b, p, "absent") /\ Says(b, "SeatNew", p, 1) => UnderWay(c, "SeatRemoved", p)
         /\ \A state : state # "absent" /\ InOrder(b, p, state) /\ Says(b, "SeatRemoved", p, 1)
              => UnderWay(c, "SeatNew", p)
<1>1. \A t : \A i \in 1..Len(c) : i + 1 \in 1..Len(b) /\ (Says(c, t, p, i) => Says(b, t, p, i + 1))
  BY DEF Shorter, Says
<1>2. \A t : \A i \in 1..Len(b) : i # 1 => i - 1 \in 1..Len(c) /\ (Says(b, t, p, i) => Says(c, t, p, i - 1))
  BY DEF Shorter, Says
<1>3. \A t : UnderWay(c, t, p) => UnderWay(b, t, p)
  BY <1>1 DEF UnderWay
<1>4. \A t : UnderWay(b, t, p) /\ ~Says(b, t, p, 1) => UnderWay(c, t, p)
  BY <1>2 DEF UnderWay
<1>5. ASSUME NEW state, InOrder(b, p, state) PROVE InOrder(c, p, state)
  <2>1. ASSUME NEW i \in 1..Len(c), Says(c, "SeatNew", p, i), state = "absent"
        PROVE  \E j \in 1..Len(c) : i < j /\ Says(c, "SeatRemoved", p, j)
    <3>1. PICK j \in 1..Len(b) : i + 1 < j /\ Says(b, "SeatRemoved", p, j)
      BY <1>1, <1>5, <2>1 DEF InOrder
    <3>2. j # 1 /\ i < j - 1
      BY <3>1 DEF Shorter
    <3> QED BY <1>2, <3>1, <3>2
  <2>2. ASSUME NEW i \in 1..Len(c), Says(c, "SeatRemoved", p, i), state # "absent"
        PROVE  \E j \in 1..Len(c) : i < j /\ Says(c, "SeatNew", p, j)
    <3>1. PICK j \in 1..Len(b) : i + 1 < j /\ Says(b, "SeatNew", p, j)
      BY <1>1, <1>5, <2>2 DEF InOrder
    <3>2. j # 1 /\ i < j - 1
      BY <3>1 DEF Shorter
    <3> QED BY <1>2, <3>1, <3>2
  <2> QED BY <2>1, <2>2 DEF InOrder
<1>6. 1 \in 1..Len(b)
  BY DEF Shorter
<1>7. InOrder(b, p, "absent") /\ Says(b, "SeatNew", p, 1) => UnderWay(c, "SeatRemoved", p)
  BY <1>2, <1>6 DEF InOrder, UnderWay
<1>8. \A state : state # "absent" /\ InOrder(b, p, state) /\ Says(b, "SeatRemoved", p, 1)
        => UnderWay(c, "SeatNew", p)
  BY <1>2, <1>6 DEF InOrder, UnderWay
<1> QED BY <1>3, <1>4, <1>5, <1>7, <1>8

(* After the first signal the object knows what it said, or what it knew.  *)
LEMMA FirstTold ==
  ASSUME NEW b, NEW c, Shorter(c, b), NEW p, NEW k, NEW state, ~Says(b, "SeatRemoved", p, 1)
  PROVE  /\ LastRight(b, p, k, state) => LastRight(c, p, k, state)
         /\ ~Tells(b, p, k, 1) => \A bright : PictureRight(b, p, k, state, bright)
              => PictureRight(c, p, k, state, bright)
         /\ LastRight(b, p, k, state) /\ Tells(b, p, k, 1) /\ b[1].valid
              => PictureRight(c, p, k, state, b[1].lit)
<1>1. UnderWay(b, "SeatRemoved", p) <=> UnderWay(c, "SeatRemoved", p)
  BY FirstTaken
<1>2. \A i \in 1..Len(c) : /\ i + 1 \in 1..Len(b) /\ c[i] = b[i + 1]
                           /\ Tells(c, p, k, i) <=> Tells(b, p, k, i + 1)
  BY DEF Shorter, Tells, Says
<1>3. \A i \in 1..Len(b) : i # 1 => /\ i - 1 \in 1..Len(c) /\ b[i] = c[i - 1]
                                    /\ Tells(b, p, k, i) <=> Tells(c, p, k, i - 1)
  BY DEF Shorter, Tells, Says
<1>4. 1 \in 1..Len(b)
  BY DEF Shorter
<1>5. ASSUME LastRight(b, p, k, state) PROVE LastRight(c, p, k, state)
  <2>1. ASSUME ~UnderWay(c, "SeatRemoved", p), NEW i \in 1..Len(c), Tells(c, p, k, i), c[i].valid,
               \A j \in 1..Len(c) : i < j => ~Tells(c, p, k, j)
        PROVE  c[i].lit <=> state = "lit"
    <3>1. i + 1 \in 1..Len(b) /\ Tells(b, p, k, i + 1) /\ b[i + 1].valid
      BY <1>2, <2>1
    <3>2. ASSUME NEW j \in 1..Len(b), i + 1 < j PROVE ~Tells(b, p, k, j)
      <4>1. j # 1 /\ i < j - 1
        BY <3>2
      <4> QED BY <1>3, <2>1, <4>1
    <3> QED BY <1>1, <1>2, <1>5, <2>1, <3>1, <3>2 DEF LastRight
  <2> QED BY <2>1 DEF LastRight
<1>6. ASSUME ~Tells(b, p, k, 1), NEW bright, PictureRight(b, p, k, state, bright)
      PROVE  PictureRight(c, p, k, state, bright)
  BY <1>1, <1>3, <1>6 DEF PictureRight
<1>7. ASSUME LastRight(b, p, k, state), Tells(b, p, k, 1), b[1].valid
      PROVE  PictureRight(c, p, k, state, b[1].lit)
  <2>1. ASSUME ~UnderWay(c, "SeatRemoved", p), \A i \in 1..Len(c) : ~Tells(c, p, k, i)
        PROVE  b[1].lit <=> state = "lit"
    <3>1. \A j \in 1..Len(b) : 1 < j => ~Tells(b, p, k, j)
      BY <1>3, <2>1
    <3> QED BY <1>1, <1>4, <1>7, <2>1, <3>1 DEF LastRight
  <2> QED BY <2>1 DEF PictureRight
<1> QED BY <1>5, <1>6, <1>7

(* A step that leaves logind, its signals and the daemon's picture alone.  *)
LEMMA SameSignals ==
  ASSUME SignalInv, UNCHANGED <<logind, bus, objects, present, graphical, asking>>,
         phase' = "connect" => phase = "connect",
         Following' => Following /\ \A n \in Names : n \in KnownSeats' <=> n \in KnownSeats
  PROVE  SignalInv'
<1>1. /\ logind' \in [Names -> {"absent", "dark", "lit"}]
      /\ bus' \in Seq(Signal)
      /\ objects' \in [Names -> Nat]
      /\ phase' = "connect" => bus' = <<>> /\ \A n \in Names : objects'[n] = 0
      /\ \A n \in Names : n \in present' \/ n = asking' => objects'[n] > 0
      /\ \A i \in 1..Len(bus') : bus'[i].t = "PropertiesChanged" => bus'[i].to <= objects'[bus'[i].seat]
      /\ \A n \in Names : InOrder(bus', n, logind'[n])
  BY DEF SignalInv
<1>2. ASSUME Following', NEW n \in Names
      PROVE  /\ Heard(bus', n, logind'[n], n \in KnownSeats')
             /\ n \in present' \/ n = asking' => LastRight(bus', n, objects'[n], logind'[n])
             /\ n \in present' => PictureRight(bus', n, objects'[n], logind'[n], n \in graphical')
  <2>1. Heard(bus, n, logind[n], n \in KnownSeats)
    BY <1>2 DEF SignalInv
  <2>2. Heard(bus', n, logind'[n], n \in KnownSeats')
    BY <1>2, <2>1 DEF Heard
  <2> QED BY <1>2, <2>2 DEF SignalInv
<1> QED BY <1>1, <1>2 DEF SignalInv

(* A signal about seat n, or none, to its object number k at most.         *)
Gained(c, b, n, k) ==
  \/ c = b
  \/ \E m : Longer(c, b, m) /\ m.seat = n /\ (m.t = "PropertiesChanged" => m.to <= k)

(* logind changes the state of seat n: what there is to show is about n.   *)
LEMMA LogindStep ==
  ASSUME SignalInv, NEW n \in Names, NEW state \in {"absent", "dark", "lit"},
         logind' = [logind EXCEPT ![n] = state],
         UNCHANGED <<phase, connected, todo, asking, objects, present, graphical>>,
         phase = "connect" => bus' = bus, Gained(bus', bus, n, objects[n]),
         InOrder(bus', n, state),
         Following =>
           /\ Heard(bus', n, state, n \in KnownSeats)
           /\ n \in present \/ n = asking => LastRight(bus', n, objects[n], state)
           /\ n \in present => PictureRight(bus', n, objects[n], state, n \in graphical)
  PROVE  SignalInv'
<1>1. /\ logind' \in [Names -> {"absent", "dark", "lit"}]
      /\ logind'[n] = state /\ \A p \in Names : p # n => logind'[p] = logind[p]
  BY DEF SignalInv
<1>2. bus' \in Seq(Signal)
  BY DEF SignalInv, Gained, Longer
<1>3. ASSUME NEW i \in 1..Len(bus'), bus'[i].t = "PropertiesChanged"
      PROVE  bus'[i].to <= objects[bus'[i].seat]
  <2>1. CASE bus' = bus
    BY <1>3, <2>1 DEF SignalInv
  <2>2. ASSUME NEW m, Longer(bus', bus, m), m.seat = n, m.t = "PropertiesChanged" => m.to <= objects[n]
        PROVE  bus'[i].to <= objects[bus'[i].seat]
    <3>1. i \in 1..Len(bus) \/ i = Len(bus) + 1
      BY <2>2, LongerPlaces
    <3>2. CASE i \in 1..Len(bus)
      BY <1>3, <2>2, <3>2 DEF SignalInv, Longer
    <3>3. CASE i = Len(bus) + 1
      BY <1>3, <2>2, <3>3 DEF Longer
    <3> QED BY <3>1, <3>2, <3>3
  <2> QED BY <2>1, <2>2 DEF Gained
<1>4. ASSUME NEW p \in Names, p # n
      PROVE  /\ InOrder(bus', p, logind'[p])
             /\ Following =>
                  /\ Heard(bus', p, logind'[p], p \in KnownSeats)
                  /\ p \in present \/ p = asking => LastRight(bus', p, objects[p], logind'[p])
                  /\ p \in present => PictureRight(bus', p, objects[p], logind'[p], p \in graphical)
  <2> DEFINE known == p \in KnownSeats
             bright == p \in graphical
             k == objects[p]
             s == logind[p]
  <2>1. /\ InOrder(bus, p, s)
        /\ Following => /\ Heard(bus, p, s, known)
                        /\ p \in present \/ p = asking => LastRight(bus, p, k, s)
                        /\ p \in present => PictureRight(bus, p, k, s, bright)
    BY DEF SignalInv
  <2>2. logind'[p] = s
    BY <1>1, <1>4
  <2> HIDE DEF known, bright, k, s
  <2>3. CASE bus' = bus
    BY <2>1, <2>2, <2>3 DEF known, bright, k, s
  <2>4. ASSUME NEW m, Longer(bus', bus, m), m.seat = n
        PROVE  /\ InOrder(bus, p, s) => InOrder(bus', p, s)
               /\ Heard(bus, p, s, known) => Heard(bus', p, s, known)
               /\ LastRight(bus, p, k, s) => LastRight(bus', p, k, s)
               /\ PictureRight(bus, p, k, s, bright) => PictureRight(bus', p, k, s, bright)
    BY <1>4, <2>4, OtherSeat
  <2> QED BY <2>1, <2>2, <2>3, <2>4 DEF Gained, known, bright, k, s
<1>5. ASSUME NEW p \in Names
      PROVE  /\ InOrder(bus', p, logind'[p])
             /\ Following =>
                  /\ Heard(bus', p, logind'[p], p \in KnownSeats)
                  /\ p \in present \/ p = asking => LastRight(bus', p, objects[p], logind'[p])
                  /\ p \in present => PictureRight(bus', p, objects[p], logind'[p], p \in graphical)
  BY <1>1, <1>4
<1>6. (Following' <=> Following) /\ KnownSeats' = KnownSeats
  BY DEF Following, KnownSeats
<1>7. /\ phase' = "connect" => bus' = <<>> /\ \A p \in Names : objects'[p] = 0
      /\ objects' \in [Names -> Nat]
      /\ \A p \in Names : p \in present' \/ p = asking' => objects'[p] > 0
  BY DEF SignalInv
<1> QED BY <1>1, <1>2, <1>3, <1>5, <1>6, <1>7 DEF SignalInv

(* A seat that logind does not have, but the daemon does, will be removed. *)
LEMMA KnownGoes ==
  ASSUME PhaseInv, SignalInv, Following, NEW n \in Names, logind[n] = "absent",
         n \in present \/ n = asking
  PROVE  UnderWay(bus, "SeatRemoved", n)
<1>1. n \in KnownSeats
  BY Login1Assumption DEF PhaseInv, KnownSeats
<1> QED BY <1>1 DEF SignalInv, Heard

(* No signals are in order.                                                *)
LEMMA EmptyInOrder ==
  ASSUME NEW n, NEW state PROVE InOrder(<<>>, n, state)
BY DEF InOrder

(* logind adds or removes seat n, and says so to those who have            *)
(* subscribed.                                                             *)
LEMMA LogindComes ==
  ASSUME PhaseInv, SignalInv, NEW n \in Names, NEW state \in {"absent", "dark", "lit"}, NEW m \in Signal,
         m.seat = n, m.t # "PropertiesChanged",
         \/ m.t = "SeatNew" /\ state # "absent" /\ logind[n] = "absent"
         \/ m.t = "SeatRemoved" /\ state = "absent",
         Logind(n, state, IF Subscribed THEN <<m>> ELSE <<>>)
  PROVE  SignalInv'
<1>1. /\ logind' = [logind EXCEPT ![n] = state]
      /\ UNCHANGED <<phase, connected, todo, asking, objects, present, graphical>>
      /\ bus' = bus \o IF Subscribed THEN <<m>> ELSE <<>>
  BY DEF Logind, dmVars
<1>2. CASE phase = "connect"
  <2>1. bus = <<>> /\ bus' = bus /\ ~Following
    BY <1>1, <1>2 DEF SignalInv, Subscribed, Following
  <2>2. InOrder(bus', n, state)
    BY <2>1, EmptyInOrder
  <2> QED BY <1>1, <1>2, <2>1, <2>2, LogindStep DEF Gained
<1>3. CASE phase # "connect"
  <2>1. bus \in Seq(Signal)
    BY DEF SignalInv
  <2>2. Longer(bus', bus, m)
    BY <1>1, <1>3, <2>1, OneMore DEF Subscribed
  <2> DEFINE known == n \in KnownSeats
  <2>3. /\ InOrder(bus', n, state) /\ Heard(bus', n, state, known)
        /\ UnderWay(bus, "SeatRemoved", n) \/ state = "absent" => UnderWay(bus', "SeatRemoved", n)
    <3> HIDE DEF known
    <3> QED BY <2>2, ComesAndGoes
  <2>4. Following /\ (n \in present \/ n = asking) => UnderWay(bus', "SeatRemoved", n)
    BY <2>3, KnownGoes
  <2>5. Following =>
          /\ n \in present \/ n = asking => LastRight(bus', n, objects[n], state)
          /\ n \in present => PictureRight(bus', n, objects[n], state, n \in graphical)
    BY <2>4 DEF LastRight, PictureRight
  <2>6. Gained(bus', bus, n, objects[n])
    BY <2>2 DEF Gained
  <2> QED BY <1>1, <1>3, <2>3, <2>5, <2>6, LogindStep
<1> QED BY <1>2, <1>3

(* Whatever logind changes, the daemon knows it or will hear of it.        *)
LEMMA LogindSignals ==
  ASSUME PhaseInv, SignalInv, LogindNext
  PROVE  SignalInv'
<1>1. ASSUME NEW n \in Names, NEW state \in {"dark", "lit"}, LogindAdds(n, state)
      PROVE  SignalInv'
  <2> DEFINE m == [t |-> "SeatNew", seat |-> n]
  <2>1. m \in Signal /\ m.seat = n /\ m.t = "SeatNew"
    BY DEF Signal
  <2>2. logind[n] = "absent" /\ Logind(n, state, IF Subscribed THEN <<m>> ELSE <<>>)
    BY <1>1 DEF LogindAdds
  <2> HIDE DEF m
  <2>3. state \in {"absent", "dark", "lit"} /\ state # "absent" /\ m.t # "PropertiesChanged"
    BY <2>1
  <2> QED BY <2>1, <2>2, <2>3, LogindComes
<1>2. ASSUME NEW n \in Names, LogindRemoves(n)
      PROVE  SignalInv'
  <2> DEFINE m == [t |-> "SeatRemoved", seat |-> n]
  <2>1. m \in Signal /\ m.seat = n /\ m.t = "SeatRemoved"
    BY DEF Signal
  <2>2. Logind(n, "absent", IF Subscribed THEN <<m>> ELSE <<>>)
    BY <1>2 DEF LogindRemoves
  <2> HIDE DEF m
  <2>3. m.t # "PropertiesChanged"
    BY <2>1
  <2> QED BY <2>1, <2>2, <2>3, LogindComes
<1>3. ASSUME NEW n \in Names, NEW valid \in BOOLEAN, LogindChanges(n, valid)
      PROVE  SignalInv'
  <2> DEFINE state == IF Lit(n) THEN "dark" ELSE "lit"
             k == objects[n]
             m == [t |-> "PropertiesChanged", seat |-> n, valid |-> valid,
                   lit |-> (valid /\ state = "lit"), to |-> k]
             known == n \in KnownSeats
             bright == n \in graphical
             old == logind[n]
  <2>1. k \in Nat
    BY DEF SignalInv
  <2>2. /\ m \in Signal /\ m.seat = n /\ m.t = "PropertiesChanged" /\ m.to = k
        /\ m.valid => (m.lit <=> state = "lit")
    BY <2>1 DEF Signal
  <2>3. old # "absent" /\ Logind(n, state, IF k = 0 THEN <<>> ELSE <<m>>)
    BY <1>3 DEF LogindChanges
  <2>4. state \in {"absent", "dark", "lit"} /\ state # "absent"
    OBVIOUS
  <2>5. /\ logind' = [logind EXCEPT ![n] = state]
        /\ UNCHANGED <<phase, connected, todo, asking, objects, present, graphical>>
        /\ bus' = bus \o IF k = 0 THEN <<>> ELSE <<m>>
    BY <2>3 DEF Logind, dmVars
  <2>6. /\ InOrder(bus, n, old)
        /\ Following => Heard(bus, n, old, known)
        /\ n \in present \/ n = asking => k > 0
        /\ bus \in Seq(Signal)
    BY DEF SignalInv
  <2> HIDE DEF m, state
  <2>7. CASE k = 0
    <3>1. bus' = bus
      BY <2>5, <2>6, <2>7
    <3>2. InOrder(bus', n, state) /\ (Following => Heard(bus', n, state, known))
      BY <2>3, <2>4, <2>6, <3>1 DEF InOrder, Heard
    <3>3. n \notin present /\ n # asking
      BY <2>6, <2>7
    <3>4. Gained(bus', bus, n, k)
      BY <3>1 DEF Gained
    <3> QED BY <2>4, <2>5, <3>1, <3>2, <3>3, <3>4, LogindStep
  <2>8. CASE k # 0
    <3>1. Longer(bus', bus, m)
      BY <2>2, <2>5, <2>6, <2>8, OneMore
    <3>2. /\ InOrder(bus, n, old) => InOrder(bus', n, state)
          /\ Heard(bus, n, old, known) => Heard(bus', n, state, known)
          /\ LastRight(bus', n, k, state) /\ PictureRight(bus', n, k, state, bright)
      <4> HIDE DEF known, bright, k, old
      <4> QED BY <2>2, <2>3, <2>4, <3>1, Changes
    <3>3. Gained(bus', bus, n, k)
      <4>1. m.to <= k
        BY <2>1, <2>2
      <4> HIDE DEF k
      <4> QED BY <2>2, <3>1, <4>1 DEF Gained
    <3>4. phase # "connect"
      BY <2>8 DEF SignalInv
    <3> QED BY <2>4, <2>5, <2>6, <3>2, <3>3, <3>4, LogindStep
  <2> QED BY <2>7, <2>8
<1> QED BY <1>1, <1>2, <1>3 DEF LogindNext

(* ListSeats answers after the subscription: what it does not say is       *)
(* signalled.                                                              *)
LEMMA ConnectSignals ==
  ASSUME PhaseInv, SignalInv, NEW ok \in BOOLEAN, login1_service_connect(ok)
  PROVE  SignalInv'
<1>1. UNCHANGED <<logind, bus, objects, present, graphical, asking>>
  BY DEF login1_service_connect, dmVars
<1>2. CASE phase' \in {"list", "default"}
  <2>1. ~Following' /\ phase' # "connect"
    BY <1>2 DEF Following
  <2> QED BY <1>1, <2>1, SameSignals
<1>3. CASE phase' \notin {"list", "default"}
  <2>1. /\ phase = "list" /\ phase' = "properties"
        /\ todo' \in SetToSeqs({n \in Names : logind[n] # "absent"})
    BY <1>3 DEF login1_service_connect
  <2>2. Elements(todo') = {n \in Names : logind[n] # "absent"}
    BY <2>1, ListedSeats
  <2>3. present' = {} /\ asking' = NoName
    BY <1>1, <2>1 DEF PhaseInv
  <2>4. ASSUME NEW n \in Names
        PROVE  /\ Heard(bus', n, logind'[n], n \in KnownSeats')
               /\ n \notin present' /\ n # asking'
    <3>1. n \in KnownSeats' <=> logind'[n] # "absent"
      BY <1>1, <2>1, <2>2 DEF KnownSeats
    <3> QED BY <2>3, <3>1, Login1Assumption DEF Heard
  <2>5. /\ logind' \in [Names -> {"absent", "dark", "lit"}]
        /\ bus' \in Seq(Signal)
        /\ objects' \in [Names -> Nat]
        /\ phase' # "connect"
        /\ \A n \in Names : n \in present' \/ n = asking' => objects'[n] > 0
        /\ \A i \in 1..Len(bus') : bus'[i].t = "PropertiesChanged" => bus'[i].to <= objects'[bus'[i].seat]
        /\ \A n \in Names : InOrder(bus', n, logind'[n])
    BY <1>1, <2>1 DEF SignalInv
  <2> QED BY <2>4, <2>5 DEF SignalInv
<1> QED BY <1>2, <1>3

(* No signal has been sent to an object that is yet to be made.            *)
LEMMA NewObject ==
  ASSUME NEW b \in Seq(Signal), NEW n, NEW k \in Nat, NEW state,
         \A i \in 1..Len(b) : b[i].t = "PropertiesChanged" /\ b[i].seat = n => b[i].to <= k
  PROVE  LastRight(b, n, k + 1, state)
<1>1. ASSUME NEW i \in 1..Len(b), Tells(b, n, k + 1, i) PROVE FALSE
  BY <1>1 DEF Tells, Says
<1> QED BY <1>1 DEF LastRight

(* A seat of the list gets its object before it is asked for.              *)
LEMMA ListedSignals ==
  ASSUME PhaseInv, SignalInv, add_listed_seat
  PROVE  SignalInv'
<1>1. /\ UNCHANGED <<logind, bus, present, graphical, todo>>
      /\ phase = "properties" /\ asking = NoName
  BY DEF add_listed_seat, dmVars
<1>2. CASE {i \in 1..Len(todo) : todo[i] \notin present} = {} /\ phase' = "seats" /\ connected' = TRUE
           /\ UNCHANGED <<asking, objects>>
  <2>1. Elements(todo) = present
    BY <1>1, <1>2 DEF Elements, PhaseInv
  <2>2. Following /\ \A n \in Names : n \in KnownSeats' <=> n \in KnownSeats
    BY <1>1, <1>2, <2>1, Login1Assumption DEF Following, KnownSeats
  <2> QED BY <1>1, <1>2, <2>2, SameSignals
<1>3. ASSUME NEW i \in 1..Len(todo), todo[i] \notin present, add_seat(todo[i]),
             phase' = phase, connected' = connected
      PROVE  SignalInv'
  <2> DEFINE n == todo[i]
             k == objects[n]
  <2>1. n \in Names /\ n \notin present /\ asking' = n /\ objects' = [objects EXCEPT ![n] = k + 1]
    BY <1>3 DEF add_seat, PhaseInv
  <2> HIDE DEF n
  <2>2. k \in Nat /\ objects' \in [Names -> Nat] /\ objects'[n] = k + 1
        /\ \A p \in Names : p # n => objects'[p] = objects[p]
    BY <2>1 DEF SignalInv
  <2> HIDE DEF k
  <2>3. ASSUME NEW j \in 1..Len(bus), bus[j].t = "PropertiesChanged"
        PROVE  bus[j].to <= objects'[bus[j].seat] /\ (bus[j].seat = n => bus[j].to <= k)
    <3>1. bus[j].to <= objects[bus[j].seat]
      BY <2>3 DEF SignalInv
    <3>2. bus[j] \in Signal /\ bus[j].seat \in Names /\ bus[j].to \in Nat
      <4>1. bus[j] \in Signal
        BY DEF SignalInv
      <4> QED BY <2>3, <4>1 DEF Signal
    <3> QED BY <2>2, <3>1, <3>2 DEF k
  <2>4. LastRight(bus, n, k + 1, logind[n])
    <3>1. bus \in Seq(Signal)
      BY DEF SignalInv
    <3> QED BY <2>2, <2>3, <3>1, NewObject
  <2>5. /\ logind' \in [Names -> {"absent", "dark", "lit"}]
        /\ bus' \in Seq(Signal)
        /\ phase' # "connect"
        /\ \A p \in Names : InOrder(bus', p, logind'[p])
    BY <1>1, <1>3 DEF SignalInv
  <2>6. \A p \in Names : p \in present' \/ p = asking' => objects'[p] > 0
    BY <1>1, <2>1, <2>2 DEF SignalInv
  <2>7. \A j \in 1..Len(bus') : bus'[j].t = "PropertiesChanged" => bus'[j].to <= objects'[bus'[j].seat]
    BY <1>1, <2>3
  <2>8. Following /\ KnownSeats' = KnownSeats
    BY <1>1, <1>3 DEF Following, KnownSeats
  <2>9. ASSUME NEW p \in Names
        PROVE  /\ Heard(bus', p, logind'[p], p \in KnownSeats')
               /\ p \in present' \/ p = asking' => LastRight(bus', p, objects'[p], logind'[p])
               /\ p \in present' => PictureRight(bus', p, objects'[p], logind'[p], p \in graphical')
    <3>1. CASE p = n
      BY <1>1, <2>1, <2>2, <2>4, <2>8, <3>1 DEF SignalInv
    <3>2. CASE p # n
      BY <1>1, <2>1, <2>2, <2>8, <3>2 DEF SignalInv
    <3> QED BY <3>1, <3>2
  <2> QED BY <2>2, <2>5, <2>6, <2>7, <2>9 DEF SignalInv
<1> QED BY <1>2, <1>3 DEF add_listed_seat

(* The answer to GetAll is what logind says now.                           *)
LEMMA GetAllSignals ==
  ASSUME PhaseInv, SignalInv, GetAll
  PROVE  SignalInv'
<1> DEFINE n == asking
<1>1. /\ n \in Names /\ asking' = NoName /\ UNCHANGED <<phase, connected, todo, logind, bus, objects>>
      /\ present' = present \union {n} /\ CanGraphical(n, Lit(n))
      /\ n # NoName
  BY DEF GetAll, PhaseInv, login1_service_seat_added_cb
<1>2. /\ n \in graphical' <=> logind[n] = "lit"
      /\ \A p : p # n => (p \in graphical' <=> p \in graphical)
  BY <1>1 DEF CanGraphical, Lit
<1>3. \A p \in Names : p \in present' \/ p = asking' <=> p \in present \/ p = asking
  BY <1>1, Login1Assumption
<1>4. /\ logind' \in [Names -> {"absent", "dark", "lit"}]
      /\ bus' \in Seq(Signal)
      /\ objects' \in [Names -> Nat]
      /\ phase' = "connect" => bus' = <<>> /\ \A p \in Names : objects'[p] = 0
      /\ \A p \in Names : p \in present' \/ p = asking' => objects'[p] > 0
      /\ \A i \in 1..Len(bus') : bus'[i].t = "PropertiesChanged" => bus'[i].to <= objects'[bus'[i].seat]
      /\ \A p \in Names : InOrder(bus', p, logind'[p])
  BY <1>1, <1>3 DEF SignalInv
<1>5. (Following' <=> Following) /\ \A p \in Names : p \in KnownSeats' <=> p \in KnownSeats
  BY <1>1, Login1Assumption DEF Following, KnownSeats
<1>6. ASSUME Following, NEW p \in Names
      PROVE  /\ Heard(bus', p, logind'[p], p \in KnownSeats')
             /\ p \in present' \/ p = asking' => LastRight(bus', p, objects'[p], logind'[p])
             /\ p \in present' => PictureRight(bus', p, objects'[p], logind'[p], p \in graphical')
  <2>1. /\ Heard(bus, p, logind[p], p \in KnownSeats)
        /\ p \in present \/ p = asking => LastRight(bus, p, objects[p], logind[p])
        /\ p \in present => PictureRight(bus, p, objects[p], logind[p], p \in graphical)
    BY <1>6 DEF SignalInv
  <2>2. Heard(bus', p, logind'[p], p \in KnownSeats')
    BY <1>1, <1>5, <2>1 DEF Heard
  <2>3. p \in present' \/ p = asking' => LastRight(bus', p, objects'[p], logind'[p])
    BY <1>1, <1>3, <2>1
  <2>4. p \in present' => PictureRight(bus', p, objects'[p], logind'[p], p \in graphical')
    BY <1>1, <1>2, <2>1 DEF PictureRight
  <2> QED BY <2>2, <2>3, <2>4
<1> QED BY <1>4, <1>5, <1>6 DEF SignalInv

(* main goes on, or ends, without looking at signals.                      *)
LEMMA MainSignals ==
  ASSUME PhaseInv, SignalInv, main_add_seats \/ main_add_default_seat \/ name_lost_cb
  PROVE  SignalInv'
<1>1. UNCHANGED <<logind, bus, objects, present, graphical, asking>>
  BY DEF main_add_seats, main_add_default_seat, name_lost_cb, dmVars
<1>2. CASE main_add_seats
  <2>1. connected' = connected /\ phase = "seats" /\ phase' \in {"seats", "running", "exited"}
    BY <1>2 DEF main_add_seats
  <2>2. phase' # "connect" /\ (Following' => Following) /\ KnownSeats' = KnownSeats
    BY <1>1, <2>1 DEF Following, KnownSeats
  <2> QED BY <1>1, <2>2, SameSignals
<1>3. CASE main_add_default_seat
  <2>1. ~connected' /\ phase' \in {"running", "exited"}
    BY <1>3 DEF main_add_default_seat, PhaseInv, Early
  <2>2. phase' # "connect" /\ ~Following'
    BY <2>1 DEF Following
  <2> QED BY <1>1, <2>2, SameSignals
<1>4. CASE name_lost_cb
  <2>1. phase' # "connect" /\ ~Following'
    BY <1>4 DEF name_lost_cb, Following
  <2> QED BY <1>1, <2>1, SameSignals
<1> QED BY <1>2, <1>3, <1>4

(* The main loop takes a signal about seat n: what there is to show is     *)
(* about n.                                                                *)
LEMMA TakenStep ==
  ASSUME SignalInv, bus # <<>>, bus' = Tail(bus), NEW n \in Names, bus[1].seat = n,
         phase = "running", connected, asking = NoName, UNCHANGED <<logind, phase, connected, todo>>,
         objects' \in [Names -> Nat], objects'[n] >= objects[n],
         asking' \in {NoName, n}, asking' = n => objects'[n] > 0,
         present' \subseteq present,
         \A p \in Names : p # n => /\ objects'[p] = objects[p]
                                   /\ p \in present' <=> p \in present
                                   /\ p \in graphical' <=> p \in graphical,
         /\ Heard(bus', n, logind[n], n \in present' \/ n = asking')
         /\ n \in present' \/ n = asking' => LastRight(bus', n, objects'[n], logind[n])
         /\ n \in present' => PictureRight(bus', n, objects'[n], logind[n], n \in graphical')
  PROVE  SignalInv'
<1>1. bus \in Seq(Signal) /\ Following
  BY DEF SignalInv, Following
<1>2. Shorter(bus', bus)
  BY <1>1, OneLess
<1>3. \A p \in Names : InOrder(bus', p, logind'[p])
  BY <1>2, FirstTaken DEF SignalInv
<1>4. ASSUME NEW i \in 1..Len(bus'), bus'[i].t = "PropertiesChanged"
      PROVE  bus'[i].to <= objects'[bus'[i].seat]
  <2>1. i + 1 \in 1..Len(bus) /\ bus'[i] = bus[i + 1]
    BY <1>2 DEF Shorter
  <2>2. bus'[i].to <= objects[bus'[i].seat]
    BY <1>4, <2>1 DEF SignalInv
  <2>3. bus'[i].to \in Nat /\ bus'[i].seat \in Names
    <3>1. bus'[i] \in Signal
      BY <1>1, <2>1
    <3> QED BY <1>4, <3>1 DEF Signal
  <2>4. ASSUME NEW p \in Names
        PROVE  objects[p] \in Nat /\ objects'[p] \in Nat /\ objects'[p] >= objects[p]
    <3>1. objects[p] \in Nat /\ objects'[p] \in Nat
      BY DEF SignalInv
    <3>2. CASE p = n
      BY <3>1, <3>2
    <3>3. CASE p # n
      BY <3>1, <3>3
    <3> QED BY <3>2, <3>3
  <2> QED BY <2>2, <2>3, <2>4
<1>5. \A p \in Names : p \in present' \/ p = asking' => objects'[p] > 0
  <2>1. ASSUME NEW p \in Names, p \in present' \/ p = asking' PROVE objects'[p] > 0
    <3>1. CASE p = n /\ p = asking'
      BY <3>1
    <3>2. CASE p \in present'
      <4>1. objects[p] > 0 /\ objects'[p] >= objects[p] /\ objects[p] \in Nat /\ objects'[p] \in Nat
        BY SMTT(60), <3>2 DEF SignalInv
      <4> QED BY <4>1
    <3> QED BY <2>1, <3>1, <3>2, Login1Assumption
  <2> QED BY <2>1
<1>6. \A p \in Names : p \in KnownSeats' <=> p \in present' \/ p = asking'
  BY DEF KnownSeats
<1>7. ASSUME NEW p \in Names
      PROVE  /\ Heard(bus', p, logind'[p], p \in KnownSeats')
             /\ p \in present' \/ p = asking' => LastRight(bus', p, objects'[p], logind'[p])
             /\ p \in present' => PictureRight(bus', p, objects'[p], logind'[p], p \in graphical')
  <2>1. CASE p = n
    <3>1. Heard(bus', n, logind[n], n \in KnownSeats')
      BY <1>6 DEF Heard
    <3> QED BY <2>1, <3>1
  <2>2. CASE p # n
    <3> DEFINE s == logind[p]
               k == objects[p]
    <3>1. /\ Heard(bus, p, s, p \in KnownSeats)
          /\ p \in present \/ p = asking => LastRight(bus, p, k, s)
          /\ p \in present => PictureRight(bus, p, k, s, p \in graphical)
      BY <1>1 DEF SignalInv
    <3>2. p \in KnownSeats <=> p \in KnownSeats'
      BY <1>6, <2>2, Login1Assumption DEF KnownSeats
    <3>3. \A t : ~Says(bus, t, p, 1)
      BY <2>2 DEF Says
    <3>4. ~Tells(bus, p, k, 1)
      BY <3>3 DEF Tells
    <3> HIDE DEF s, k
    <3>5. Heard(bus', p, s, p \in KnownSeats')
      <4>1. \A t : UnderWay(bus, t, p) => UnderWay(bus', t, p)
        BY <1>2, <3>3, FirstTaken
      <4> QED BY <3>1, <3>2, <4>1 DEF Heard
    <3>6. LastRight(bus, p, k, s) => LastRight(bus', p, k, s)
      BY <1>2, <3>3, FirstTold
    <3>7. ASSUME NEW bright, PictureRight(bus, p, k, s, bright) PROVE PictureRight(bus', p, k, s, bright)
      BY <1>2, <3>3, <3>4, <3>7, FirstTold
    <3>8. p \in present' => PictureRight(bus', p, k, s, p \in graphical')
      <4>1. p \in present' => PictureRight(bus', p, k, s, p \in graphical)
        BY <2>2, <3>1, <3>7
      <4> QED BY <2>2, <4>1 DEF PictureRight
    <3>9. p # asking'
      BY <2>2, Login1Assumption
    <3> QED BY <2>2, <3>1, <3>5, <3>6, <3>8, <3>9 DEF s, k
  <2> QED BY <2>1, <2>2
<1>8. logind' \in [Names -> {"absent", "dark", "lit"}] /\ bus' \in Seq(Signal) /\ phase' # "connect"
  BY <1>2 DEF SignalInv, Shorter
<1> QED BY <1>3, <1>4, <1>5, <1>7, <1>8 DEF SignalInv

(* SeatNew: if the seat is gone by now, that is signalled too.             *)
LEMMA NewSignals ==
  ASSUME PhaseInv, SignalInv, SignalSeatNew
  PROVE  SignalInv'
<1> DEFINE n == bus[1].seat
           s == logind[n]
           k == objects[n]
<1>1. /\ bus # <<>> /\ bus' = Tail(bus) /\ phase = "running" /\ connected /\ asking = NoName
      /\ UNCHANGED <<logind, phase, connected, todo, present, graphical>> /\ Head(bus).t = "SeatNew"
  BY DEF SignalSeatNew, Next1, Idle, dmVars
<1>2. bus \in Seq(Signal) /\ Following /\ objects \in [Names -> Nat]
  BY <1>1 DEF SignalInv, Following
<1>3. n \in Names /\ Head(bus) = bus[1] /\ bus[1].t = "SeatNew"
  BY <1>1, <1>2, HeadSignal
<1>4. \/ n \in present /\ asking' = asking /\ objects' = objects
      \/ n \notin present /\ asking' = n /\ objects' = [objects EXCEPT ![n] = k + 1]
  <2>1. CASE Head(bus).seat \in present
    <3>1. UNCHANGED <<asking, objects>>
      BY <2>1 DEF SignalSeatNew
    <3> QED BY <1>3, <2>1, <3>1
  <2>2. CASE Head(bus).seat \notin present
    <3>1. add_seat(Head(bus).seat)
      BY <2>2 DEF SignalSeatNew
    <3> QED BY <1>3, <2>2, <3>1 DEF add_seat
  <2> QED BY <2>1, <2>2
<1>5. Shorter(bus', bus)
  BY <1>1, <1>2, OneLess
<1>6. /\ Heard(bus, n, s, n \in KnownSeats) /\ InOrder(bus, n, s)
      /\ n \in present => LastRight(bus, n, k, s)
      /\ n \in present => PictureRight(bus, n, k, s, n \in graphical)
      /\ k \in Nat
      /\ \A i \in 1..Len(bus) : bus[i].t = "PropertiesChanged" => bus[i].to <= objects[bus[i].seat]
  BY <1>2, <1>3 DEF SignalInv
<1>7. Says(bus, "SeatNew", n, 1) /\ ~Says(bus, "SeatRemoved", n, 1) /\ ~Tells(bus, n, k, 1)
  BY <1>3 DEF Says, Tells
<1>8. s = "absent" => UnderWay(bus', "SeatRemoved", n)
  BY <1>5, <1>6, <1>7, FirstTaken
<1> HIDE DEF n, s, k
<1>9. CASE n \in present /\ asking' = asking /\ objects' = objects
  <2>1. Heard(bus', n, s, n \in present' \/ n = asking')
    BY <1>1, <1>8, <1>9 DEF Heard
  <2>2. LastRight(bus', n, k, s)
    BY <1>5, <1>6, <1>7, <1>9, FirstTold
  <2>3. ASSUME NEW bright, PictureRight(bus, n, k, s, bright) PROVE PictureRight(bus', n, k, s, bright)
    BY <1>5, <1>7, <2>3, FirstTold
  <2>4. PictureRight(bus', n, k, s, n \in graphical')
    <3>1. PictureRight(bus', n, k, s, n \in graphical)
      BY <1>6, <1>9, <2>3
    <3> QED BY <1>1, <3>1
  <2>5. objects'[n] = k /\ objects'[n] >= objects[n] /\ s = logind[n] /\ bus[1].seat = n
        /\ asking' \in {NoName, n} /\ asking' # n
    BY <1>1, <1>3, <1>6, <1>9, Login1Assumption DEF n, k, s
  <2>6. \A p \in Names : p # n => /\ objects'[p] = objects[p]
                                  /\ p \in present' <=> p \in present
                                  /\ p \in graphical' <=> p \in graphical
    BY <1>1, <1>9
  <2> QED BY <1>1, <1>2, <1>3, <1>9, <2>1, <2>2, <2>4, <2>5, <2>6, TakenStep
<1>10. CASE n \notin present /\ asking' = n /\ objects' = [objects EXCEPT ![n] = k + 1]
  <2>1. asking' = n /\ objects' = [objects EXCEPT ![n] = k + 1]
    BY <1>10
  <2>2. /\ objects' \in [Names -> Nat] /\ objects'[n] = k + 1
        /\ \A p \in Names : p # n => objects'[p] = objects[p]
    BY <1>2, <1>3, <1>6, <2>1
  <2>3. Heard(bus', n, s, n \in present' \/ n = asking')
    BY <1>8, <2>1 DEF Heard
  <2>4. LastRight(bus', n, k + 1, s)
    <3>1. ASSUME NEW i \in 1..Len(bus'), bus'[i].t = "PropertiesChanged", bus'[i].seat = n
          PROVE  bus'[i].to <= k
      <4>1. i + 1 \in 1..Len(bus) /\ bus'[i] = bus[i + 1]
        BY <1>5 DEF Shorter
      <4> QED BY <1>6, <3>1, <4>1 DEF k
    <3>2. bus' \in Seq(Signal)
      BY <1>5 DEF Shorter
    <3> QED BY <1>6, <3>1, <3>2, NewObject
  <2>5. objects'[n] >= objects[n] /\ objects'[n] > 0 /\ s = logind[n] /\ bus[1].seat = n
    BY <1>6, <2>2 DEF k, s, n
  <2>6. \A p \in Names : p # n => /\ objects'[p] = objects[p]
                                  /\ p \in present' <=> p \in present
                                  /\ p \in graphical' <=> p \in graphical
    BY <1>1, <2>2
  <2>7. n \notin present' /\ present' \subseteq present /\ asking' \in {NoName, n}
    BY <1>1, <1>10, <2>1
  <2> QED BY <1>1, <1>3, <2>2, <2>3, <2>4, <2>5, <2>6, <2>7, TakenStep
<1> QED BY <1>4, <1>9, <1>10

(* SeatRemoved: if the seat is back by now, that is signalled too.         *)
LEMMA RemovedSignals ==
  ASSUME PhaseInv, SignalInv, SignalSeatRemoved
  PROVE  SignalInv'
<1> DEFINE n == bus[1].seat
           s == logind[n]
<1>1. /\ bus # <<>> /\ bus' = Tail(bus) /\ phase = "running" /\ connected /\ asking = NoName
      /\ UNCHANGED <<logind, phase, connected, todo, asking, objects>> /\ Head(bus).t = "SeatRemoved"
  BY DEF SignalSeatRemoved, Next1, Idle
<1>2. bus \in Seq(Signal) /\ objects \in [Names -> Nat]
  BY <1>1 DEF SignalInv
<1>3. n \in Names /\ Head(bus) = bus[1] /\ bus[1].t = "SeatRemoved"
  BY <1>1, <1>2, HeadSignal
<1>4. present' = present \ {n} /\ \A p : p # n => (p \in graphical' <=> p \in graphical)
  <2>1. CASE n \in present
    BY <1>3, <2>1 DEF SignalSeatRemoved, login1_service_seat_removed_cb
  <2>2. CASE n \notin present
    BY <1>3, <2>2 DEF SignalSeatRemoved, dmVars
  <2> QED BY <2>1, <2>2
<1>5. Shorter(bus', bus)
  BY <1>1, <1>2, OneLess
<1>6. InOrder(bus, n, s) /\ Says(bus, "SeatRemoved", n, 1)
  BY <1>3 DEF SignalInv, Says
<1>7. s # "absent" => UnderWay(bus', "SeatNew", n)
  BY <1>5, <1>6, FirstTaken
<1>8. n \notin present' /\ n # asking' /\ asking' = NoName
  BY <1>1, <1>3, <1>4, Login1Assumption
<1>9. Heard(bus', n, s, n \in present' \/ n = asking')
  BY <1>7, <1>8 DEF Heard
<1>10. objects'[n] >= objects[n] /\ s = logind[n] /\ bus[1].seat = n /\ objects' \in [Names -> Nat]
  BY <1>1, <1>2, <1>3
<1> HIDE DEF n, s
<1>11. \A p \in Names : p # n => /\ objects'[p] = objects[p]
                                 /\ p \in present' <=> p \in present
                                 /\ p \in graphical' <=> p \in graphical
  BY <1>1, <1>4
<1>12. present' \subseteq present
  BY <1>4
<1> QED BY <1>1, <1>3, <1>8, <1>9, <1>10, <1>11, <1>12, TakenStep

(* PropertiesChanged: the last one to the current object makes the         *)
(* daemon's picture right.                                                 *)
LEMMA ChangedSignals ==
  ASSUME PhaseInv, SignalInv, seat_properties_changed_cb
  PROVE  SignalInv'
<1> DEFINE m == bus[1]
           n == m.seat
           s == logind[n]
           k == objects[n]
           lit == IF m.valid THEN m.lit ELSE Lit(n)
<1>1. /\ bus # <<>> /\ bus' = Tail(bus) /\ phase = "running" /\ connected /\ asking = NoName
      /\ UNCHANGED <<logind, phase, connected, todo, asking, objects>>
      /\ Head(bus).t = "PropertiesChanged"
  BY DEF seat_properties_changed_cb, Next1, Idle
<1>2. bus \in Seq(Signal) /\ objects \in [Names -> Nat] /\ Following
  BY <1>1 DEF SignalInv, Following
<1>3. /\ n \in Names /\ Head(bus) = m /\ m.t = "PropertiesChanged"
      /\ m.valid \in BOOLEAN /\ m.lit \in BOOLEAN /\ m.to \in Nat
  BY <1>1, <1>2, HeadSignal
<1>4. \/ UNCHANGED <<present, graphical>> /\ ~m.valid /\ s = "absent"
      \/ /\ present' = present
         /\ IF n \in present /\ m.to = k THEN CanGraphical(n, lit) ELSE UNCHANGED graphical
  <2>1. CASE ~m.valid /\ s = "absent"
    BY <1>3, <2>1 DEF seat_properties_changed_cb, dmVars
  <2>2. CASE ~(~m.valid /\ s = "absent")
    BY <1>3, <2>2 DEF seat_properties_changed_cb, login1_can_graphical_changed_cb
  <2> QED BY <2>1, <2>2
<1>5. Shorter(bus', bus)
  BY <1>1, <1>2, OneLess
<1>6. /\ Heard(bus, n, s, n \in KnownSeats)
      /\ n \in present => LastRight(bus, n, k, s)
      /\ n \in present => PictureRight(bus, n, k, s, n \in graphical)
      /\ k \in Nat
  BY <1>2, <1>3 DEF SignalInv
<1>7. /\ \A t : t # "PropertiesChanged" => ~Says(bus, t, n, 1)
      /\ Tells(bus, n, k, 1) <=> m.to = k
  BY <1>3 DEF Says, Tells
<1>8. present' = present /\ \A p : p # n => (p \in graphical' <=> p \in graphical)
  BY <1>4 DEF CanGraphical
<1>9. lit <=> IF m.valid THEN m.lit ELSE s = "lit"
  BY <1>3 DEF Lit
<1>10. n \in KnownSeats <=> n \in present' \/ n = asking'
  BY <1>1, <1>8 DEF KnownSeats
<1>11. n \in present /\ s = "absent" => UnderWay(bus, "SeatRemoved", n)
  BY <1>2, <1>3, KnownGoes
<1>12. n # asking'
  BY <1>1, <1>3, Login1Assumption
<1>13. objects'[n] = k /\ objects'[n] >= objects[n] /\ s = logind[n] /\ bus[1].seat = n /\ m = bus[1]
  BY <1>1, <1>6
<1> HIDE DEF m, n, s, k, lit
<1>14. \A t : t # "PropertiesChanged" /\ UnderWay(bus, t, n) => UnderWay(bus', t, n)
  BY <1>5, <1>7, FirstTaken
<1>15. Heard(bus', n, s, n \in present' \/ n = asking')
  BY <1>6, <1>10, <1>14 DEF Heard
<1>16. n \in present => LastRight(bus', n, k, s)
  BY <1>5, <1>6, <1>7, FirstTold
<1>17. ASSUME n \in present PROVE PictureRight(bus', n, k, s, n \in graphical')
  <2>1. CASE s = "absent"
    BY <1>11, <1>14, <1>17, <2>1 DEF PictureRight
  <2>2. CASE s # "absent" /\ m.to # k
    <3>1. n \in graphical' <=> n \in graphical
      BY <1>4, <2>2
    <3>2. ASSUME NEW bright, PictureRight(bus, n, k, s, bright) PROVE PictureRight(bus', n, k, s, bright)
      BY <1>5, <1>7, <2>2, <3>2, FirstTold
    <3>3. PictureRight(bus', n, k, s, n \in graphical)
      BY <1>6, <1>17, <3>2
    <3> QED BY <3>1, <3>3 DEF PictureRight
  <2>3. CASE s # "absent" /\ m.to = k
    <3>1. n \in graphical' <=> lit
      BY <1>4, <1>17, <2>3 DEF CanGraphical
    <3>2. CASE ~m.valid
      BY <1>9, <3>1, <3>2 DEF PictureRight
    <3>3. CASE m.valid
      <4>1. PictureRight(bus', n, k, s, m.lit)
        BY <1>5, <1>6, <1>7, <1>13, <1>17, <2>3, <3>3, FirstTold
      <4> QED BY <1>9, <3>1, <3>3, <4>1 DEF PictureRight
    <3> QED BY <1>3, <3>2, <3>3
  <2> QED BY <2>1, <2>2, <2>3
<1>18. \A p \in Names : p # n => /\ objects'[p] = objects[p]
                                 /\ p \in present' <=> p \in present
                                 /\ p \in graphical' <=> p \in graphical
  BY <1>1, <1>8
<1>19. objects' \in [Names -> Nat] /\ asking' \in {NoName, n} /\ present' \subseteq present
  BY <1>1, <1>2, <1>8
<1> QED BY <1>1, <1>3, <1>8, <1>12, <1>13, <1>15, <1>16, <1>17, <1>18, <1>19, TakenStep

(***************************************************************************)
(* Objects on the bus                                                      *)
(***************************************************************************)

(* The parts of the bus properties, for the entries e, the sessions' s and *)
(* the user sessions u.                                                    *)
Distinct(e) == \A x, y \in DOMAIN e : e[x] = e[y] => x = y
Named(e, s, u) ==
  \A i \in DOMAIN s, x \in DOMAIN e : s[i].seat_path = e[x] <=> u[i].seat = x
Seen(s, u) == \A i \in 1..Len(u) : u[i].runs /\ u[i].seen => i \in DOMAIN s
Alive(u, list) == \A i \in 1..Len(u) : u[i].runs => u[i].seat \in Serials(list)

(* BusShowsSeats in its parts, now ...                                     *)
LEMMA BusParts ==
  ASSUME EntryInv, BusShowsSeats
  PROVE  /\ acquired /\ ~dm_stopping => DOMAIN seat_entries = Serials(seats)
         /\ Distinct(seat_entries)
         /\ Named(seat_entries, session_entries, user_sessions)
         /\ Seen(session_entries, user_sessions)
<1>1. DOMAIN user_sessions = 1..Len(user_sessions)
  BY DEF EntryInv
<1>2. Seen(session_entries, user_sessions)
  BY <1>1 DEF BusShowsSeats, Seen, Runs
<1> QED BY <1>2 DEF BusShowsSeats, Distinct, Named

(* ... and after a step.                                                   *)
LEMMA BusPartsNext ==
  ASSUME EntryInv',
         acquired' /\ ~dm_stopping' => DOMAIN seat_entries' = Serials(seats'),
         Distinct(seat_entries'),
         Named(seat_entries', session_entries', user_sessions'),
         Seen(session_entries', user_sessions')
  PROVE  BusShowsSeats'
<1>1. DOMAIN user_sessions' = 1..Len(user_sessions')
  BY DEF EntryInv
<1>2. ASSUME NEW s \in DOMAIN user_sessions', Runs(s)'
      PROVE  get_seat_for_session(s)' # {}
  <2>1. user_sessions'[s].runs
    BY <1>2 DEF Runs
  <2>2. user_sessions'[s].seat \in Serials(seats')
    BY <1>1, <2>1 DEF EntryInv
  <2> QED BY <1>2, <2>2 DEF Serials, SeatOf, get_seat_for_session
<1>3. \A s \in DOMAIN user_sessions' : Runs(s)' /\ user_sessions'[s].seen => s \in DOMAIN session_entries'
  BY <1>1 DEF Seen, Runs
<1> QED BY <1>2, <1>3 DEF BusShowsSeats, Distinct, Named

(* The entries when seat number x gets an object ...                       *)
LEMMA WithEntry ==
  ASSUME NEW e, e \in [DOMAIN e -> Nat], NEW x, x \notin DOMAIN e, NEW v \in Nat, \A y \in DOMAIN e : e[y] < v,
         Distinct(e), NEW s, NEW u, Named(e, s, u),
         \A i \in DOMAIN s : s[i].seat_path \in Nat /\ s[i].seat_path < v /\ u[i].seat # x
  PROVE  LET f == With(e, x, v) IN
         /\ f \in [DOMAIN f -> Nat] /\ DOMAIN f = DOMAIN e \union {x}
         /\ \A y \in DOMAIN f : f[y] < v + 1
         /\ Distinct(f) /\ Named(f, s, u)
<1> DEFINE f == With(e, x, v)
<1>1. DOMAIN f = DOMAIN e \union {x} /\ f \in [DOMAIN f -> Nat]
  BY DEF With
<1>2. f[x] = v /\ \A y \in DOMAIN e : f[y] = e[y] /\ f[y] \in Nat
  BY DEF With
<1> HIDE DEF f
<1>3. \A y \in DOMAIN f : f[y] < v + 1
  BY <1>1, <1>2
<1>4. Distinct(f)
  BY <1>1, <1>2 DEF Distinct
<1>5. Named(f, s, u)
  BY <1>1, <1>2 DEF Named
<1> QED BY <1>1, <1>3, <1>4, <1>5 DEF f

(* ... and when those of S lose theirs.                                    *)
LEMMA WithoutEntries ==
  ASSUME NEW e, e \in [DOMAIN e -> Nat], NEW S, Distinct(e), NEW s, NEW u, Named(e, s, u), NEW v,
         \A y \in DOMAIN e : e[y] < v
  PROVE  LET f == Without(e, S) IN
         /\ f \in [DOMAIN f -> Nat] /\ DOMAIN f = DOMAIN e \ S
         /\ \A y \in DOMAIN f : f[y] < v
         /\ Distinct(f) /\ Named(f, s, u)
<1> DEFINE f == Without(e, S)
<1>1. DOMAIN f = DOMAIN e \ S /\ f \in [DOMAIN f -> Nat]
  BY DEF Without
<1>2. \A y \in DOMAIN f : y \in DOMAIN e /\ f[y] = e[y]
  BY DEF Without
<1> HIDE DEF f
<1> QED BY <1>1, <1>2 DEF f, Distinct, Named

(* The objects follow the seats: one for a seat that was started, with a   *)
(* path of its own, and none for a seat that is lost, which has no session *)
(* that runs.                                                              *)
LEMMA EntriesStep ==
  ASSUME ListInv, EntryInv, BusShowsSeats, Moved, Loses, SeatsTold(seats'),
         UNCHANGED <<acquired, session_entries, session_index, user_sessions>>
  PROVE  EntryInv' /\ BusShowsSeats'
<1> DEFINE e1 == IF made' = made THEN seat_entries ELSE With(seat_entries, made', seat_index)
           v == IF made' = made THEN seat_index ELSE seat_index + 1
<1>1. /\ made \in Nat /\ ListInv' /\ made' \in Nat
      /\ made' = made \/ made' = made + 1
      /\ \A x \in Serials(seats) : x \in 1..made
      /\ \A x \in Serials(seats') : x \in 1..made'
      /\ \A x \in Serials(seats') : x \in Serials(seats) \/ (made' = made + 1 /\ x = made')
      /\ made' = made + 1 => made' \in Serials(seats')
      /\ dm_stopping => dm_stopping'
      /\ dm_stopping \in BOOLEAN
  <2>1. ListInv' /\ made \in Nat /\ dm_stopping \in BOOLEAN /\ Sound(seats, remote_count, made)
    BY DEF Moved, ListInv
  <2>2. Sound(seats, remote_count, made)' /\ made' \in Nat
    BY <2>1 DEF ListInv
  <2>3. \A x \in Serials(seats) : x \in 1..made
    BY <2>1 DEF Sound, Serials
  <2>4. \A x \in Serials(seats') : x \in 1..made'
    BY <2>2 DEF Sound, Serials
  <2> QED BY <2>1, <2>2, <2>3, <2>4 DEF Moved
<1>2. /\ acquired \in BOOLEAN
      /\ seat_index \in Nat /\ session_index \in Nat
      /\ user_sessions \in Seq(UserSession)
      /\ \A s \in 1..Len(user_sessions) : user_sessions[s].seat \in 1..made
      /\ seat_entries \in [DOMAIN seat_entries -> Nat]
      /\ DOMAIN seat_entries \subseteq 1..made
      /\ \A x \in DOMAIN seat_entries : seat_entries[x] < seat_index
      /\ session_entries \in [DOMAIN session_entries -> Entry]
      /\ DOMAIN session_entries \subseteq 1..Len(user_sessions)
      /\ \A s \in DOMAIN session_entries : session_entries[s].seat_path < seat_index
      /\ ~acquired => DOMAIN seat_entries = {} /\ DOMAIN session_entries = {}
      /\ Alive(user_sessions, seats)
  BY DEF EntryInv, Alive
<1>3. /\ acquired /\ ~dm_stopping => DOMAIN seat_entries = Serials(seats)
      /\ Distinct(seat_entries)
      /\ Named(seat_entries, session_entries, user_sessions)
      /\ Seen(session_entries, user_sessions)
  BY BusParts
<1>4. \A s \in DOMAIN session_entries :
        /\ session_entries[s].seat_path \in Nat /\ session_entries[s].seat_path < seat_index
        /\ user_sessions[s].seat # made + 1
  <2>1. ASSUME NEW s \in DOMAIN session_entries
        PROVE  session_entries[s].seat_path \in Nat /\ user_sessions[s].seat # made + 1
    <3>1. session_entries[s] \in Entry /\ user_sessions[s].seat \in 1..made
      BY <1>2
    <3> QED BY <1>1, <3>1 DEF Entry
  <2> QED BY <1>2, <2>1
<1>5. /\ e1 \in [DOMAIN e1 -> Nat] /\ v \in Nat /\ v >= seat_index
      /\ DOMAIN e1 = IF made' = made THEN DOMAIN seat_entries ELSE DOMAIN seat_entries \union {made'}
      /\ \A y \in DOMAIN e1 : e1[y] < v
      /\ Distinct(e1) /\ Named(e1, session_entries, user_sessions)
  <2>1. CASE made' = made
    BY <1>2, <1>3, <2>1
  <2>2. CASE made' # made
    <3>1. made' = made + 1 /\ made' \notin DOMAIN seat_entries
      BY <1>1, <1>2, <2>2
    <3>2. LET f == With(seat_entries, made', seat_index) IN
          /\ f \in [DOMAIN f -> Nat] /\ DOMAIN f = DOMAIN seat_entries \union {made'}
          /\ \A y \in DOMAIN f : f[y] < seat_index + 1
          /\ Distinct(f) /\ Named(f, session_entries, user_sessions)
      BY <1>2, <1>3, <1>4, <3>1, WithEntry
    <3> QED BY <1>2, <2>2, <3>2
  <2> QED BY <2>1, <2>2
<1>6. CASE ~acquired
  <2>1. UNCHANGED <<seat_entries, seat_index>>
    BY <1>6 DEF SeatsTold
  <2>2. EntryInv'
    BY <1>1, <1>2, <1>6, <2>1 DEF EntryInv, Alive, Loses, Runs
  <2>3. BusShowsSeats'
    <3>1. /\ acquired' /\ ~dm_stopping' => DOMAIN seat_entries' = Serials(seats')
          /\ Distinct(seat_entries')
          /\ Named(seat_entries', session_entries', user_sessions')
          /\ Seen(session_entries', user_sessions')
      BY <1>3, <1>6, <2>1
    <3> QED BY <2>2, <3>1, BusPartsNext
  <2> QED BY <2>2, <2>3
<1>7. CASE acquired
  <2> DEFINE S == Serials(seats) \ Serials(seats')
  <2>1. seat_index' = v /\ seat_entries' = IF dm_stopping THEN e1 ELSE Without(e1, S)
    BY <1>7 DEF SeatsTold, seat_added_cb, service_seat_removed_cb
  <2> HIDE DEF e1, v
  <2>2. /\ seat_entries' \in [DOMAIN seat_entries' -> Nat]
        /\ DOMAIN seat_entries' = IF dm_stopping THEN DOMAIN e1 ELSE DOMAIN e1 \ S
        /\ \A y \in DOMAIN seat_entries' : seat_entries'[y] < v
        /\ Distinct(seat_entries') /\ Named(seat_entries', session_entries, user_sessions)
    <3>1. CASE dm_stopping
      BY <1>5, <2>1, <3>1
    <3>2. CASE ~dm_stopping
      <4> HIDE DEF S
      <4>1. LET f == Without(e1, S) IN
            /\ f \in [DOMAIN f -> Nat] /\ DOMAIN f = DOMAIN e1 \ S
            /\ \A y \in DOMAIN f : f[y] < v
            /\ Distinct(f) /\ Named(f, session_entries, user_sessions)
        BY <1>5, WithoutEntries
      <4> QED BY <2>1, <3>2, <4>1
    <3> QED BY <1>1, <3>1, <3>2
  <2>3. DOMAIN seat_entries' \subseteq 1..made'
    BY <1>1, <1>2, <1>5, <2>2
  <2>4. \A s \in DOMAIN session_entries : session_entries[s].seat_path < v
    <3>1. ASSUME NEW s \in DOMAIN session_entries PROVE session_entries[s].seat_path < v
      BY <1>2, <1>4, <1>5
    <3> QED BY <3>1
  <2>5. EntryInv'
    <3>1. Alive(user_sessions, seats')
      BY <1>2 DEF Alive, Loses, Runs
    <3>2. \A s \in 1..Len(user_sessions) : user_sessions[s].seat \in 1..made'
      BY <1>1, <1>2
    <3> QED BY <1>2, <1>5, <1>7, <2>1, <2>2, <2>3, <2>4, <3>1, <3>2 DEF EntryInv, Alive
  <2>6. ~dm_stopping' => DOMAIN seat_entries' = Serials(seats')
    <3>1. ASSUME ~dm_stopping' PROVE DOMAIN seat_entries' = Serials(seats')
      <4>1. ~dm_stopping /\ DOMAIN seat_entries = Serials(seats)
        BY <1>1, <1>3, <1>7, <3>1
      <4>2. DOMAIN seat_entries' = DOMAIN e1 \ S
        BY <2>2, <4>1
      <4>3. CASE made' = made
        BY <1>1, <1>5, <4>1, <4>2, <4>3
      <4>4. CASE made' # made
        BY <1>1, <1>5, <4>1, <4>2, <4>4
      <4> QED BY <4>3, <4>4
    <3> QED BY <3>1
  <2>7. BusShowsSeats'
    <3>1. /\ acquired' /\ ~dm_stopping' => DOMAIN seat_entries' = Serials(seats')
          /\ Distinct(seat_entries')
          /\ Named(seat_entries', session_entries', user_sessions')
          /\ Seen(session_entries', user_sessions')
      BY <1>3, <2>2, <2>6
    <3> QED BY <2>5, <3>1, BusPartsNext
  <2> QED BY <2>5, <2>7
<1> QED BY <1>2, <1>6, <1>7

(* bus_acquired_cb gives every seat of the list a path of its own.         *)
LEMMA AcquiredEntries ==
  ASSUME ListInv, EntryInv, BusShowsSeats, NEW key, bus_acquired_cb(key),
         Serials(seats') = Serials(seats), made' = made
  PROVE  EntryInv' /\ BusShowsSeats'
<1> DEFINE place(x) == CHOOSE i \in 1..Len(seats) : seats[i].serial = x
<1>1. /\ ~acquired /\ acquired' = TRUE
      /\ seat_entries' = [x \in Serials(seats) |-> place(x) - 1]
      /\ seat_index' = Len(seats)
      /\ UNCHANGED <<session_entries, session_index, user_sessions>>
  BY DEF bus_acquired_cb
<1>2. Len(seats) \in Nat /\ made \in Nat /\ \A x \in Serials(seats) : x \in 1..made
  BY DEF ListInv, Sound, Serials
<1>3. ASSUME NEW x \in Serials(seats) PROVE place(x) \in 1..Len(seats) /\ seats[place(x)].serial = x
  BY DEF Serials
<1> HIDE DEF place
<1>4. /\ DOMAIN seat_entries' = Serials(seats)
      /\ \A x \in Serials(seats) : /\ seat_entries'[x] = place(x) - 1
                                   /\ seat_entries'[x] \in Nat /\ seat_entries'[x] < Len(seats)
  BY <1>1, <1>2, <1>3
<1>5. seat_entries' \in [DOMAIN seat_entries' -> Nat]
  BY <1>1, <1>4
<1>6. ASSUME NEW x \in Serials(seats), NEW y \in Serials(seats), seat_entries'[x] = seat_entries'[y]
      PROVE  x = y
  <2>1. place(x) = place(y)
    BY <1>2, <1>3, <1>4, <1>6
  <2> QED BY <1>3, <2>1
<1>7. DOMAIN session_entries = {}
  BY <1>1 DEF EntryInv
<1>8. EntryInv'
  BY <1>1, <1>2, <1>4, <1>5, <1>7 DEF EntryInv
<1>9. Distinct(seat_entries')
  BY <1>4, <1>6 DEF Distinct
<1>10. Named(seat_entries', session_entries', user_sessions')
  BY <1>1, <1>7 DEF Named
<1>11. Seen(session_entries', user_sessions')
  BY <1>1, BusParts
<1>12. DOMAIN seat_entries' = Serials(seats')
  BY <1>4
<1> QED BY <1>8, <1>9, <1>10, <1>11, <1>12, BusPartsNext

(* A user session begins on a seat that runs, and gets an object if the    *)
(* seat has one.                                                           *)
LEMMA RunsEntries ==
  ASSUME ListInv, EntryInv, BusShowsSeats, NEW i \in 1..Len(seats), SessionRuns(i)
  PROVE  EntryInv' /\ BusShowsSeats'
<1> DEFINE x == seats[i].serial
           n == Len(user_sessions) + 1
           here == x \in DOMAIN seat_entries
           new == [seat |-> x, runs |-> TRUE, seen |-> here]
<1>1. /\ user_sessions' = Append(user_sessions, new)
      /\ running_user_session_cb(Len(user_sessions'), x)
      /\ UNCHANGED <<acquired, seat_entries, seat_index, made, seats, dm_stopping>>
  BY DEF SessionRuns, dmVars
<1>2. /\ seat_index \in Nat /\ session_index \in Nat /\ Len(user_sessions) \in Nat
      /\ user_sessions \in Seq(UserSession)
      /\ \A s \in 1..Len(user_sessions) : user_sessions[s].seat \in 1..made
      /\ seat_entries \in [DOMAIN seat_entries -> Nat]
      /\ \A y \in DOMAIN seat_entries : seat_entries[y] < seat_index
      /\ session_entries \in [DOMAIN session_entries -> Entry]
      /\ DOMAIN session_entries \subseteq 1..Len(user_sessions)
      /\ \A s \in DOMAIN session_entries : session_entries[s].seat_path < seat_index
      /\ ~acquired => DOMAIN seat_entries = {} /\ DOMAIN session_entries = {}
      /\ Alive(user_sessions, seats)
  BY DEF EntryInv, Alive
<1>3. x \in Nat /\ x \in 1..made /\ x \in Serials(seats)
  <2>1. Sound(seats, remote_count, made) /\ made \in Nat
    BY DEF ListInv
  <2> QED BY <2>1 DEF Sound, Serials
<1>4. new \in UserSession /\ new.seat = x /\ new.runs /\ (new.seen <=> here)
  <2>1. here \in BOOLEAN
    OBVIOUS
  <2> HIDE DEF here, x
  <2> QED BY <1>3, <2>1 DEF UserSession
<1> HIDE DEF new, x, here
<1>5. /\ user_sessions' \in Seq(UserSession) /\ Len(user_sessions') = n
      /\ user_sessions'[n] = new
      /\ \A s \in 1..Len(user_sessions) : user_sessions'[s] = user_sessions[s]
  BY <1>1, <1>2, <1>4
<1>6. /\ \A s \in 1..n : s \in 1..Len(user_sessions) \/ s = n
      /\ n \notin 1..Len(user_sessions) /\ 1..Len(user_sessions) \subseteq 1..n /\ n \in 1..n
  BY <1>2
<1>7. /\ session_index' \in Nat
      /\ DOMAIN session_entries' = IF here THEN DOMAIN session_entries \union {n} ELSE DOMAIN session_entries
      /\ \A s \in DOMAIN session_entries : session_entries'[s] = session_entries[s]
      /\ here => session_entries'[n] \in Entry /\ session_entries'[n].seat_path = seat_entries[x]
      /\ session_entries' \in [DOMAIN session_entries' -> Entry]
  <2>1. CASE here
    <3> DEFINE v == [path |-> session_index, seat_path |-> seat_entries[x]]
    <3>1. session_entries' = With(session_entries, n, v) /\ session_index' = session_index + 1
      BY <1>1, <1>5, <2>1 DEF running_user_session_cb, here
    <3>2. v \in Entry /\ v.seat_path = seat_entries[x]
      BY <1>2, <2>1 DEF Entry, here
    <3>3. n \notin DOMAIN session_entries
      BY <1>2, <1>6
    <3> HIDE DEF v, n
    <3>4. DOMAIN session_entries' = DOMAIN session_entries \union {n}
      BY <3>1 DEF With
    <3>5. session_entries'[n] = v /\ \A s \in DOMAIN session_entries : session_entries'[s] = session_entries[s]
      BY <3>1, <3>3 DEF With
    <3>6. session_entries' \in [DOMAIN session_entries' -> Entry]
      <4>1. session_entries' = [s \in DOMAIN session_entries' |-> session_entries'[s]]
        BY <3>1 DEF With
      <4>2. \A s \in DOMAIN session_entries' : session_entries'[s] \in Entry
        BY <1>2, <3>2, <3>4, <3>5
      <4> QED BY <4>1, <4>2
    <3> QED BY <1>2, <2>1, <3>1, <3>2, <3>4, <3>5, <3>6
  <2>2. CASE ~here
    BY <1>1, <1>2, <2>2 DEF running_user_session_cb, here
  <2> QED BY <2>1, <2>2
<1> HIDE DEF n
<1>8. \A s \in DOMAIN session_entries' : session_entries'[s].seat_path < seat_index
  BY <1>2, <1>7 DEF here
<1>9. EntryInv'
  <2>1. \A s \in 1..Len(user_sessions') : user_sessions'[s].seat \in 1..made
    BY <1>2, <1>3, <1>4, <1>5, <1>6
  <2>2. Alive(user_sessions', seats')
    BY <1>1, <1>2, <1>3, <1>4, <1>5, <1>6 DEF Alive
  <2>3. DOMAIN session_entries' \subseteq 1..Len(user_sessions')
    BY <1>2, <1>5, <1>6, <1>7
  <2>4. ~acquired => DOMAIN session_entries' = {}
    BY <1>2, <1>7 DEF here
  <2> QED BY <1>1, <1>5, <1>7, <1>8, <2>1, <2>2, <2>3, <2>4 DEF EntryInv, Alive
<1>10. /\ acquired /\ ~dm_stopping => DOMAIN seat_entries = Serials(seats)
       /\ Distinct(seat_entries)
       /\ Named(seat_entries, session_entries, user_sessions)
       /\ Seen(session_entries, user_sessions)
  BY BusParts
<1>11. Named(seat_entries', session_entries', user_sessions')
  <2>1. ASSUME NEW s \in DOMAIN session_entries', NEW y \in DOMAIN seat_entries
        PROVE  session_entries'[s].seat_path = seat_entries[y] <=> user_sessions'[s].seat = y
    <3>1. CASE s \in DOMAIN session_entries
      <4>1. session_entries'[s] = session_entries[s] /\ user_sessions'[s] = user_sessions[s]
        BY <1>2, <1>5, <1>7, <3>1
      <4> QED BY <1>10, <3>1, <4>1 DEF Named
    <3>2. CASE s \notin DOMAIN session_entries
      <4>1. here /\ s = n
        BY <1>7, <2>1, <3>2
      <4>2. session_entries'[s].seat_path = seat_entries[x] /\ user_sessions'[s].seat = x
        BY <1>4, <1>5, <1>7, <4>1
      <4> QED BY <1>10, <4>1, <4>2 DEF Distinct, here
    <3> QED BY <3>1, <3>2
  <2> QED BY <1>1, <2>1 DEF Named
<1>12. Seen(session_entries', user_sessions')
  <2>1. ASSUME NEW s \in 1..Len(user_sessions'), user_sessions'[s].runs, user_sessions'[s].seen
        PROVE  s \in DOMAIN session_entries'
    <3>1. CASE s \in 1..Len(user_sessions)
      BY <1>5, <1>7, <1>10, <2>1, <3>1 DEF Seen
    <3>2. CASE s = n
      BY <1>4, <1>5, <1>7, <2>1, <3>2
    <3> QED BY <1>5, <1>6, <3>1, <3>2
  <2> QED BY <2>1 DEF Seen
<1>13. acquired' /\ ~dm_stopping' => DOMAIN seat_entries' = Serials(seats')
  BY <1>1, <1>10
<1>14. Distinct(seat_entries')
  BY <1>1, <1>10
<1> QED BY <1>9, <1>11, <1>12, <1>13, <1>14, BusPartsNext

(* A user session ends.                                                    *)
LEMMA EndsEntries ==
  ASSUME ListInv, EntryInv, BusShowsSeats, NEW s \in DOMAIN user_sessions, SessionEnds(s)
  PROVE  EntryInv' /\ BusShowsSeats'
<1>1. /\ user_sessions' = [user_sessions EXCEPT ![s].runs = FALSE]
      /\ session_entries' = session_entries \/ session_entries' = Without(session_entries, {s})
      /\ UNCHANGED <<acquired, seat_entries, seat_index, session_index, made, seats, dm_stopping>>
  BY DEF SessionEnds, session_removed_cb, dmVars
<1>2. user_sessions \in Seq(UserSession) /\ session_entries \in [DOMAIN session_entries -> Entry]
      /\ DOMAIN session_entries \subseteq 1..Len(user_sessions) /\ s \in 1..Len(user_sessions)
  BY DEF EntryInv
<1>3. /\ user_sessions' \in Seq(UserSession) /\ Len(user_sessions') = Len(user_sessions)
      /\ ~user_sessions'[s].runs
      /\ \A i \in 1..Len(user_sessions) : /\ user_sessions'[i].seat = user_sessions[i].seat
                                          /\ i # s => user_sessions'[i] = user_sessions[i]
  <2> DEFINE r == [user_sessions[s] EXCEPT !.runs = FALSE]
  <2>1. user_sessions' = [user_sessions EXCEPT ![s] = r]
    BY <1>1, <1>2
  <2>2. user_sessions[s] \in UserSession
    BY <1>2
  <2>3. r \in UserSession /\ ~r.runs /\ r.seat = user_sessions[s].seat
    BY <2>2 DEF UserSession
  <2> HIDE DEF r
  <2> QED BY <1>2, <2>1, <2>3
<1>4. /\ DOMAIN session_entries' \subseteq DOMAIN session_entries
      /\ \A i \in DOMAIN session_entries : i # s => i \in DOMAIN session_entries'
      /\ \A i \in DOMAIN session_entries' : session_entries'[i] = session_entries[i]
      /\ session_entries' \in [DOMAIN session_entries' -> Entry]
  <2>1. CASE session_entries' = session_entries
    BY <1>2, <2>1
  <2>2. CASE session_entries' = Without(session_entries, {s})
    BY <1>2, <2>2 DEF Without
  <2> QED BY <1>1, <2>1, <2>2
<1>5. EntryInv'
  <2>1. \A i \in 1..Len(user_sessions') : user_sessions'[i].runs => user_sessions'[i].seat \in Serials(seats')
    BY <1>1, <1>3 DEF EntryInv
  <2>2. \A i \in 1..Len(user_sessions') : user_sessions'[i].seat \in 1..made
    BY <1>3 DEF EntryInv
  <2>3. /\ DOMAIN session_entries' \subseteq 1..Len(user_sessions')
        /\ \A i \in DOMAIN session_entries' : session_entries'[i].seat_path < seat_index
        /\ ~acquired => DOMAIN session_entries' = {}
    BY <1>2, <1>3, <1>4 DEF EntryInv
  <2> QED BY <1>1, <1>3, <1>4, <2>1, <2>2, <2>3 DEF EntryInv
<1>6. /\ acquired /\ ~dm_stopping => DOMAIN seat_entries = Serials(seats)
      /\ Distinct(seat_entries)
      /\ Named(seat_entries, session_entries, user_sessions)
      /\ Seen(session_entries, user_sessions)
  BY BusParts
<1>7. Named(seat_entries, session_entries', user_sessions')
  BY <1>2, <1>3, <1>4, <1>6 DEF Named
<1>8. Seen(session_entries', user_sessions')
  BY <1>3, <1>4, <1>6 DEF Seen
<1> QED BY <1>1, <1>5, <1>6, <1>7, <1>8, BusPartsNext

(***************************************************************************)
(* The invariant                                                           *)
(***************************************************************************)

(* The invariant holds initially ...                                       *)
LEMMA DMStarts ==
  ASSUME DMInit0
  PROVE  DMIInv
<1>1. /\ required \subseteq Names /\ seats = <<>> /\ dm_stopping = FALSE /\ dm_stopped = FALSE
      /\ exit_failure = FALSE /\ present = {} /\ graphical = {} /\ remote_count = 0 /\ made = 0 /\ failed = {}
  BY DEF DMInit0, DMInit
<1>2. /\ logind \in [Names -> {"absent", "dark", "lit"}] /\ bus = <<>> /\ phase = "connect"
      /\ connected = FALSE /\ todo = <<>> /\ asking = NoName /\ objects = [n \in Names |-> 0]
  BY DEF DMInit0, Login1Init
<1>3. /\ acquired = FALSE /\ seat_entries = <<>> /\ session_entries = <<>>
      /\ seat_index = 0 /\ session_index = 0 /\ user_sessions = <<>>
  BY DEF DMInit0, ServiceInit
<1>4. ListInv
  <2>1. seats \in Seq(SeatsUpTo(0)) /\ 1..Len(seats) = {}
    BY <1>1
  <2>2. Sound(seats, remote_count, made) /\ AllStopping(seats)
    BY <1>1, <2>1 DEF Sound, AllStopping
  <2> QED BY <1>1, <2>2 DEF ListInv
<1>5. PhaseInv
  <2>0. connected \in BOOLEAN
    BY <1>2, Zenon
  <2>1. todo \in Seq(Names) /\ phase \in Phases
    BY <1>2 DEF Phases, Early
  <2>2. ~connected /\ phase \notin {"seats", "properties", "running"} /\ ~dm_stopping /\ ~dm_stopped
    BY <1>1, <1>2
  <2> QED BY <1>1, <1>2, <2>0, <2>1, <2>2 DEF PhaseInv
<1>6. ServingInv
  BY <1>1, <1>2 DEF ServingInv, StaleWaits
<1>7. SignalInv
  <2>1. ~Following /\ \A n : n \in Names => n # asking
    BY <1>2, Login1Assumption DEF Following
  <2>2. \A n \in Names : InOrder(bus, n, logind[n])
    BY <1>2, EmptyInOrder
  <2>3. bus \in Seq(Signal) /\ Len(bus) = 0 /\ objects \in [Names -> Nat] /\ \A n \in Names : objects[n] = 0
    BY <1>2
  <2> QED BY <1>1, <1>2, <2>1, <2>2, <2>3 DEF SignalInv
<1>8. /\ user_sessions \in Seq(UserSession) /\ Len(user_sessions) = 0 /\ DOMAIN user_sessions = {}
      /\ DOMAIN seat_entries = {} /\ DOMAIN session_entries = {}
      /\ seat_entries \in [DOMAIN seat_entries -> Nat]
      /\ session_entries \in [DOMAIN session_entries -> Entry]
  BY <1>3
<1>9. EntryInv
  <2>1. 1..Len(user_sessions) = {} /\ seat_index \in Nat /\ session_index \in Nat
    BY <1>3, <1>8
  <2>2. acquired \in BOOLEAN
    BY <1>3, Zenon
  <2> QED BY <1>8, <2>1, <2>2 DEF EntryInv
<1>10. BusShowsSeats
  BY <1>3, <1>8 DEF BusShowsSeats
<1> QED BY <1>4, <1>5, <1>6, <1>7, <1>9, <1>10 DEF DMIInv

(* A step that loses no seat.                                              *)
LEMMA LosesNone ==
  ASSUME Serials(seats) \subseteq Serials(seats')
  PROVE  Loses
BY DEF Loses

(* A step of the daemon that keeps its own parts and the signals'.         *)
LEMMA DaemonStep ==
  ASSUME DMIInv, Kept, Loses, SignalInv', SeatsTold(seats'),
         UNCHANGED <<acquired, session_entries, session_index, user_sessions>>
  PROVE  DMIInv'
<1>1. EntryInv' /\ BusShowsSeats'
  BY EntriesStep DEF DMIInv, Kept
<1> QED BY <1>1 DEF DMIInv, Kept, Moved

(* Steps that leave the daemon's picture of logind alone.                  *)
LEMMA QuietSignals ==
  ASSUME SignalInv, UNCHANGED login1Vars, UNCHANGED <<present, graphical>>
  PROVE  SignalInv'
<1>1. UNCHANGED <<logind, bus, phase, connected, todo, asking, objects>>
  BY DEF login1Vars
<1>2. (Following' <=> Following) /\ KnownSeats' = KnownSeats
  BY <1>1 DEF Following, KnownSeats
<1> QED BY <1>1, <1>2, SameSignals

(* ... is kept by every step ...                                           *)
LEMMA DMKeeps ==
  ASSUME DMIInv, [DMNext]_vars
  PROVE  DMIInv'
<1>0. ListInv /\ PhaseInv /\ ServingInv /\ SignalInv /\ EntryInv /\ BusShowsSeats /\ Signals
  BY DEF DMIInv, Signals, SignalInv
<1>1. CASE Daemon(LogindNext)
  <2>1. LogindNext /\ SeatsTold(seats') /\ UNCHANGED <<acquired, session_entries, session_index, user_sessions>>
    BY <1>1 DEF Daemon
  <2>2. Kept /\ Loses /\ SignalInv'
    BY <1>0, <2>1, LogindServes, LosesNone, LogindSignals
  <2> QED BY <2>1, <2>2, DaemonStep
<1>2. CASE Daemon(Login1Next)
  <2>1. SeatsTold(seats') /\ UNCHANGED <<acquired, session_entries, session_index, user_sessions>>
    BY <1>2 DEF Daemon
  <2>2. ASSUME NEW ok \in BOOLEAN, login1_service_connect(ok) PROVE Kept /\ Loses /\ SignalInv'
    BY <1>0, <2>2, ConnectServes, LosesNone, ConnectSignals
  <2>3. ASSUME add_listed_seat PROVE Kept /\ Loses /\ SignalInv'
    BY <1>0, <2>3, ListedServes, LosesNone, ListedSignals
  <2>4. ASSUME GetAll PROVE Kept /\ Loses /\ SignalInv'
    BY <1>0, <2>4, GetAllServes, LosesNone, GetAllSignals
  <2>5. ASSUME main_add_seats PROVE Kept /\ Loses /\ SignalInv'
    BY <1>0, <2>5, MainServes, LosesNone, MainSignals
  <2>6. ASSUME main_add_default_seat PROVE Kept /\ Loses /\ SignalInv'
    BY <1>0, <2>6, DefaultServes, LosesNone, MainSignals
  <2>7. ASSUME SignalSeatNew PROVE Kept /\ Loses /\ SignalInv'
    BY <1>0, <2>7, NewServes, LosesNone, NewSignals
  <2>8. ASSUME SignalSeatRemoved PROVE Kept /\ Loses /\ SignalInv'
    BY <1>0, <2>8, RemovedServes, LosesNone, RemovedSignals
  <2>9. ASSUME seat_properties_changed_cb PROVE Kept /\ Loses /\ SignalInv'
    BY <1>0, <2>9, ChangedServes, LosesNone, ChangedSignals
  <2>10. Kept /\ Loses /\ SignalInv'
    BY <1>2, <2>2, <2>3, <2>4, <2>5, <2>6, <2>7, <2>8, <2>9 DEF Daemon, Login1Next
  <2> QED BY <2>1, <2>10, DaemonStep
<1>3. CASE Daemon(Idle /\ DaemonNext /\ UNCHANGED login1Vars)
  <2>1. /\ SeatsTold(seats') /\ UNCHANGED <<acquired, session_entries, session_index, user_sessions>>
        /\ Idle /\ DaemonNext /\ UNCHANGED login1Vars
    BY <1>3 DEF Daemon
  <2>2. Kept /\ Loses
    BY <1>0, <2>1, DaemonServes
  <2>3. UNCHANGED <<present, graphical>>
    BY <2>1 DEF DaemonNext, SeatFails, SeatAsked, SeatStops, SeatStopped, display_manager_stop
  <2>4. SignalInv'
    BY <1>0, <2>1, <2>3, QuietSignals
  <2> QED BY <2>1, <2>2, <2>4, DaemonStep
<1>4. CASE Daemon(Idle /\ RemoteNext /\ UNCHANGED login1Vars)
  <2>1. /\ SeatsTold(seats') /\ UNCHANGED <<acquired, session_entries, session_index, user_sessions>>
        /\ Idle /\ RemoteNext /\ UNCHANGED login1Vars
    BY <1>4 DEF Daemon
  <2>2. Kept /\ Loses
    BY <1>0, <2>1, RemoteServes, LosesNone
  <2>3. UNCHANGED <<present, graphical>>
    BY <2>1 DEF RemoteNext, add_remote_seat, handle_display_manager_call, service_add_xlocal_seat_cb
  <2>4. SignalInv'
    BY <1>0, <2>1, <2>3, QuietSignals
  <2> QED BY <2>1, <2>2, <2>4, DaemonStep
<1>5. ASSUME NEW key \in BOOLEAN, bus_acquired_cb(key) PROVE DMIInv'
  <2>1. Kept /\ Serials(seats') = Serials(seats) /\ made' = made
    BY <1>0, <1>5, AcquiredServes
  <2>2. EntryInv' /\ BusShowsSeats'
    BY <1>0, <1>5, <2>1, AcquiredEntries
  <2>3. UNCHANGED login1Vars /\ UNCHANGED <<present, graphical>>
    BY <1>5 DEF bus_acquired_cb, start_display_manager, dmVars
  <2>4. SignalInv'
    BY <1>0, <2>3, QuietSignals
  <2> QED BY <2>1, <2>2, <2>4 DEF DMIInv, Kept, Moved
<1>6. CASE name_lost_cb
  <2>1. Kept /\ SignalInv'
    BY <1>0, <1>6, ExitServes, MainSignals
  <2>2. UNCHANGED serviceVars /\ UNCHANGED <<seats, made, dm_stopping>>
    BY <1>6 DEF name_lost_cb, dmVars
  <2>3. EntryInv'
    BY <1>0, <2>2 DEF EntryInv, serviceVars
  <2>4. /\ acquired /\ ~dm_stopping => DOMAIN seat_entries = Serials(seats)
        /\ Distinct(seat_entries)
        /\ Named(seat_entries, session_entries, user_sessions)
        /\ Seen(session_entries, user_sessions)
    BY <1>0, BusParts
  <2>5. BusShowsSeats'
    BY <2>2, <2>3, <2>4, BusPartsNext DEF serviceVars
  <2> QED BY <2>1, <2>3, <2>5 DEF DMIInv, Kept, Moved
<1>7. ASSUME NEW i \in 1..Len(seats), SessionRuns(i) PROVE DMIInv'
  <2>1. UNCHANGED dmVars /\ UNCHANGED login1Vars
    BY <1>7 DEF SessionRuns
  <2>2. Kept
    BY <1>0, <2>1, StillKept DEF login1Vars
  <2>3. SignalInv'
    BY <1>0, <2>1, QuietSignals DEF dmVars
  <2>4. EntryInv' /\ BusShowsSeats'
    BY <1>0, <1>7, RunsEntries
  <2> QED BY <2>2, <2>3, <2>4 DEF DMIInv, Kept, Moved
<1>8. ASSUME NEW s \in DOMAIN user_sessions, SessionEnds(s) PROVE DMIInv'
  <2>1. UNCHANGED dmVars /\ UNCHANGED login1Vars
    BY <1>8 DEF SessionEnds
  <2>2. Kept
    BY <1>0, <2>1, StillKept DEF login1Vars
  <2>3. SignalInv'
    BY <1>0, <2>1, QuietSignals DEF dmVars
  <2>4. EntryInv' /\ BusShowsSeats'
    BY <1>0, <1>8, EndsEntries
  <2> QED BY <2>2, <2>3, <2>4 DEF DMIInv, Kept, Moved
<1>9. CASE UNCHANGED vars
  <2>1. UNCHANGED dmVars /\ UNCHANGED login1Vars /\ UNCHANGED serviceVars
    BY <1>9 DEF vars
  <2>2. Kept
    BY <1>0, <2>1, StillKept DEF login1Vars
  <2>3. SignalInv'
    BY <1>0, <2>1, QuietSignals DEF dmVars
  <2>4. UNCHANGED <<seats, made, dm_stopping>> /\ UNCHANGED serviceVars
    BY <2>1 DEF dmVars
  <2>5. EntryInv'
    BY <1>0, <2>4 DEF EntryInv, serviceVars
  <2>6. /\ acquired /\ ~dm_stopping => DOMAIN seat_entries = Serials(seats)
        /\ Distinct(seat_entries)
        /\ Named(seat_entries, session_entries, user_sessions)
        /\ Seen(session_entries, user_sessions)
    BY <1>0, BusParts
  <2>7. BusShowsSeats'
    BY <2>4, <2>5, <2>6, BusPartsNext DEF serviceVars
  <2> QED BY <2>2, <2>3, <2>5, <2>7 DEF DMIInv, Kept, Moved
<1>10. CASE DMNext
  BY <1>1, <1>2, <1>3, <1>4, <1>5, <1>6, <1>7, <1>8, <1>10 DEF DMNext
<1> QED BY <1>9, <1>10

(* ... and implies the properties that TLC checks.                         *)
LEMMA DMImplies ==
  ASSUME DMIInv
  PROVE  DMInv /\ OfferedIsServed /\ LogindFollowed /\ BusShowsSeats
<1>0. ListInv /\ PhaseInv /\ ServingInv /\ SignalInv /\ EntryInv /\ BusShowsSeats
  BY DEF DMIInv
<1>1. DMInv
  <2>1. Sound(seats, remote_count, made)
    BY <1>0 DEF ListInv
  <2>2. SeatsUpTo(remote_count) = SeatRecord
    BY DEF SeatsUpTo, SeatRecord, NamesUpTo, SeatNames
  <2>3. DMTypeOK
    BY <1>0, <2>1, <2>2 DEF ListInv, PhaseInv, DMTypeOK, Sound
  <2>4. OneSeatPerName
    BY <2>1 DEF Sound, OneSeatPerName
  <2>5. ShutdownIsFinal
    BY <1>0 DEF ListInv, AllStopping, ShutdownIsFinal
  <2> QED BY <2>3, <2>4, <2>5 DEF DMInv
<1>2. OfferedIsServed
  BY <1>0 DEF ServingInv, OfferedIsServed, AllServed, Offered, Covered, Covers
<1>3. LogindFollowed
  <2>1. ASSUME Idle, connected, bus = <<>>
        PROVE  /\ present = {n \in Names : logind[n] # "absent"}
               /\ graphical = {n \in Names : Lit(n)}
    <3>1. phase = "running" /\ asking = NoName /\ Following
      BY <2>1 DEF Idle, Following
    <3>2. Len(bus) = 0
      BY <2>1
    <3>3. ASSUME NEW n \in Names
          PROVE  /\ n \in present <=> logind[n] # "absent"
                 /\ n \in present => (n \in graphical <=> logind[n] = "lit")
      <4>1. /\ Heard(bus, n, logind[n], n \in KnownSeats)
            /\ n \in present => PictureRight(bus, n, objects[n], logind[n], n \in graphical)
        BY <1>0, <3>1 DEF SignalInv
      <4>2. \A t : ~UnderWay(bus, t, n)
        BY <3>2 DEF UnderWay
      <4>3. n \in KnownSeats <=> n \in present
        BY <3>1, Login1Assumption DEF KnownSeats
      <4>4. n \in present <=> logind[n] # "absent"
        BY <4>1, <4>2, <4>3 DEF Heard
      <4>5. n \in present => (n \in graphical <=> logind[n] = "lit")
        BY <3>2, <4>1, <4>2 DEF PictureRight
      <4> QED BY <4>4, <4>5
    <3>4. present \subseteq Names /\ graphical \subseteq present
      BY <1>0 DEF PhaseInv
    <3> QED BY <3>3, <3>4 DEF Lit
  <2> QED BY <2>1 DEF LogindFollowed
<1> QED BY <1>0, <1>1, <1>2, <1>3

(* The inductive invariant holds in every state the daemon can reach.      *)
THEOREM DMInvariant == DMSafety => []DMIInv
<1>1. DMInit0 => DMIInv
  BY DMStarts
<1>2. DMIInv /\ [DMNext]_vars => DMIInv'
  BY DMKeeps
<1> QED BY <1>1, <1>2, PTL DEF DMSafety

(* DMInv: the daemon's variables keep their types, a logind seat never has *)
(* two seats however fallback types, handlers that wait for STOPPED and    *)
(* logind follow each other, and once the daemon is stopping all its seats *)
(* are.                                                                    *)
THEOREM DMSound == DMSafety => []DMInv
<1>1. DMIInv => DMInv
  BY DMImplies
<1> QED BY <1>1, DMInvariant, PTL

(* OfferedIsServed: a seat that logind offers while the main loop runs has *)
(* a running seat, or one that is awaited, or one that has failed.         *)
THEOREM DMServes == DMSafety => []OfferedIsServed
<1>1. DMIInv => OfferedIsServed
  BY DMImplies
<1> QED BY <1>1, DMInvariant, PTL

(* LogindFollowed: with no signal left to handle the daemon has logind's   *)
(* seats and knows which of them are graphical, whatever changed during    *)
(* the calls of the start.                                                 *)
THEOREM DMFollows == DMSafety => []LogindFollowed
<1>1. DMIInv => LogindFollowed
  BY DMImplies
<1> QED BY <1>1, DMInvariant, PTL

(* BusShowsSeats: the objects on the bus are those of the seats, no two    *)
(* share a path, and a session's names its seat.                           *)
THEOREM DMShows == DMSafety => []BusShowsSeats
<1>1. DMIInv => BusShowsSeats
  BY DMImplies
<1> QED BY <1>1, DMInvariant, PTL

=============================================================================
