-------------------------- MODULE SharedData_proofs --------------------------
(***************************************************************************)
(* Proofs about the list of users, who shows it, and the directories users *)
(* share, for any finite set of users, any sessions and any number of      *)
(* changes.                                                                *)
(***************************************************************************)
EXTENDS SharedData, FiniteSetTheorems, WellFoundedInduction, TLAPS

(***************************************************************************)
(* Types                                                                   *)
(***************************************************************************)

UserInfo == [real : Nat, session : SessionNames]
Kinds == {"added", "deleted", "changed", "passwd", "session_added", "session_removed"}
Event == [t : Kinds, u : Nat]
SessionRow == [path : Nat, user : Users]
Row == [name : Users, real : Nat, logged : BOOLEAN]

ListStates == {"unloaded", "listing", "loading", "accounts", "unwatched", "passwd"}
ListType ==
  [state : ListStates, users : Seq(Users), info : [Users -> UserInfo], watched : SUBSET Users,
   paths : Seq(Users), loaded_dmrc : SUBSET Users, monitor : BOOLEAN, sessions : Seq(SessionRow),
   session_added_signal : BOOLEAN, asking : BOOLEAN, session_paths : Seq(Nat)]
ViewType ==
  [initialized : BOOLEAN, list : Seq(Users), model : {"none", "unconnected", "connected"}, rows : Seq(Row)]
StateType == [list : ListType, view : ViewType, removing : SUBSET Users]
Phases == {"new", "listing", "reading", "deciding", "done", "failed"}
DataType ==
  [phase : Phases, starting_dirs : SUBSET Users, unread : SUBSET Users, unlisted : SUBSET Users]

AccountsOK(a) == DOMAIN a \subseteq Users /\ System \subseteq DOMAIN a /\ a \in [DOMAIN a -> UserInfo]

TypeOK ==
  /\ process \in {"daemon", "greeter"}
  /\ AccountsOK(accounts)
  /\ dmrc \in [Users -> [home : SessionNames, cache : SessionNames]]
  /\ changes \in Nat
  /\ DOMAIN logins \subseteq 1..changes /\ logins \in [DOMAIN logins -> Users]
  /\ events \in Seq(Event)
  /\ list \in ListType
  /\ view \in ViewType
  /\ removing \subseteq Users
  /\ lost \subseteq {"users", "sessions"}
  /\ touched \subseteq Users
  /\ dirs \subseteq Users
  /\ data \in DataType

(***************************************************************************)
(* What is said of the parts of the state                                  *)
(***************************************************************************)

(* No element is in the sequence twice.                                    *)
Once(q) == \A i, j \in 1..Len(q) : q[i] = q[j] => i = j

(* The signal at place i is about user u coming or going, and the last.    *)
Says(q, i, u) == q[i].t \in {"added", "deleted"} /\ q[i].u = u
Silent(q, u) == \A i \in 1..Len(q) : ~Says(q, i, u)
Told(q, present) ==
  \A i \in 1..Len(q) : \A u \in Users :
    Says(q, i, u) /\ (\A j \in (i + 1)..Len(q) : ~Says(q, j, u)) => (q[i].t = "added" <=> u \in present)
Pending(q, kind, u) == \E i \in 1..Len(q) : q[i].t = kind /\ q[i].u = u

(* Where each signal may come from.                                        *)
FromAccounts(q, state) ==
  \A i \in 1..Len(q) : q[i].t \in {"added", "deleted", "changed"} =>
    state \in {"listing", "loading", "accounts"} /\ q[i].u \in Users \ System
FromKernel(q, state, monitor) == \A i \in 1..Len(q) : q[i].t = "passwd" => state = "passwd" /\ monitor
FromSessions(q, signal, n) ==
  \A i \in 1..Len(q) : q[i].t \in {"session_added", "session_removed"} => signal /\ q[i].u \in 1..n

EventInv ==
  /\ FromAccounts(events, list.state)
  /\ FromKernel(events, list.state, list.monitor)
  /\ FromSessions(events, list.session_added_signal, changes)
  /\ list.state \in {"listing", "loading", "accounts"} => Told(events, DOMAIN accounts)

(* The list as it is loaded.                                               *)
ShapeInv ==
  /\ Once(list.users) /\ Once(list.paths)
  /\ ToSet(list.users) \intersect (System \union ToSet(list.paths)) = {}
  /\ list.paths # <<>> <=> list.state = "loading"
  /\ list.state \in {"unloaded", "listing"} =>
       list.users = <<>> /\ lost = {} /\ ~list.session_added_signal
  /\ list.state \in {"loading", "accounts"} => ToSet(list.users) \subseteq list.watched
  /\ list.asking \/ list.session_paths # <<>> => list.session_added_signal

(* With AccountsService: a user nothing is to come about is listed, or on  *)
(* the way to be, exactly if there is the account; what is known of a      *)
(* listed user is right unless a signal is to come.                        *)
Listed(q, l, a) ==
  \A u \in Users \ System : Silent(q, u) => (u \in ToSet(l.users) \union ToSet(l.paths) <=> u \in DOMAIN a)
Known(q, l, a) ==
  \A u \in ToSet(l.users) :
    Pending(q, "deleted", u) \/ (u \in DOMAIN a /\ (l.info[u] = a[u] \/ Pending(q, "changed", u)))
(* With the password file the list is what the file was when it was read.  *)
AsRead(l, a) == ToSet(l.users) = DOMAIN a \ System /\ \A u \in ToSet(l.users) : l.info[u].real = a[u].real

KnownInv ==
  "users" \notin lost =>
    /\ list.state \in {"loading", "accounts"} => Listed(events, list, accounts) /\ Known(events, list, accounts)
    /\ list.state = "unwatched" => AsRead(list, accounts)
    /\ list.state = "passwd" =>
         list.monitor /\ ((\A i \in 1..Len(events) : events[i].t # "passwd") => AsRead(list, accounts))

(* Every session is listed, or on the way to be.                           *)
Seen(path, q, l) ==
  \/ l.asking
  \/ path \in ToSet(l.session_paths)
  \/ \E i \in 1..Len(l.sessions) : l.sessions[i].path = path
  \/ Pending(q, "session_added", path)
SessionsInv ==
  /\ \A i \in 1..Len(events) : events[i].t = "session_removed" => events[i].u \notin DOMAIN logins
  /\ list.session_added_signal /\ "sessions" \notin lost => \A path \in DOMAIN logins : Seen(path, events, list)

(* The directories: what is being deleted may be, and users that were      *)
(* there all the time are listed or on the way to be.                      *)
MayGo(u, a, t) == u \in t \union System \/ u \notin DOMAIN a
KeptInv ==
  /\ \A u \in removing : MayGo(u, accounts, touched)
  /\ \A i \in 1..Len(events) : events[i].t = "deleted" => events[i].u \in touched
  /\ list.state \notin {"unloaded", "listing"} =>
       DOMAIN accounts \ (System \union touched) \subseteq ToSet(list.users) \union ToSet(list.paths)
  /\ data.phase = "deciding" => list.state # "unloaded"

(* Each directory will be looked at, is to be deleted, or is that of a     *)
(* listed user.                                                            *)
LookedAt(d) == IF d.phase = "reading" THEN d.unread \union d.starting_dirs
               ELSE IF d.phase = "deciding" THEN d.starting_dirs ELSE {}
CoveredInv ==
  /\ process = "greeter" => dirs = {} /\ data.phase = "new"
  /\ data.phase \notin {"new", "listing", "failed"} =>
       dirs \subseteq removing \union data.unlisted \union ToSet(list.users) \union LookedAt(data)

(* The wrappers and the rows.                                              *)
WrappersOK(l, v) ==
  /\ Once(v.list) /\ ToSet(v.list) = ToSet(l.users)
  /\ l.state = "accounts" => v.list = l.users
RowsOK(l, v) ==
  /\ \A i, j \in 1..Len(v.rows) : v.rows[i].name = v.rows[j].name => i = j
  /\ {v.rows[i].name : i \in 1..Len(v.rows)} = ToSet(l.users)
  /\ l.state = "accounts" => \A i \in 1..Len(v.rows) : v.rows[i] = UserItem(l, v.rows[i].name)
ViewInv ==
  /\ view.initialized => process = "greeter" /\ list.state \in {"accounts", "passwd"} /\ WrappersOK(list, view)
  /\ ~view.initialized => view = NoView
  /\ view.model = "connected" =>
       /\ list.session_added_signal /\ ~list.asking /\ list.session_paths = <<>>
       /\ RowsOK(list, view)

SharedIInv ==
  TypeOK /\ EventInv /\ ShapeInv /\ KnownInv /\ SessionsInv /\ KeptInv /\ CoveredInv /\ ViewInv

(***************************************************************************)
(* Induction.  A set of numbers has a least one, so that a property of     *)
(* numbers, given as the set of those that have it, can be shown step by   *)
(* step.                                                                   *)
(***************************************************************************)

LEMMA LeastNumber ==
  ASSUME NEW T, T \subseteq Nat, T # {}
  PROVE  \E x \in T : \A y \in T : x <= y
<1> DEFINE R == {p \in Nat \X Nat : p[1] < p[2]}
<1>1. IsWellFoundedOn(R, Nat)
  BY NatLessThanWellFounded DEF OpToRel
<1>2. PICK x \in T : \A y \in T : ~(<<y, x>> \in R)
  <2> HIDE DEF R
  <2> QED BY <1>1, WFMin
<1>3. ASSUME NEW y \in T PROVE x <= y
  <2>1. x \in Nat /\ y \in Nat
    OBVIOUS
  <2>2. ~(<<y, x>> \in R)
    BY <1>2
  <2>3. <<y, x>> \in Nat \X Nat /\ <<y, x>>[1] = y /\ <<y, x>>[2] = x
    BY <2>1
  <2>4. ~(y < x)
    BY <2>2, <2>3
  <2> QED BY <2>1, <2>4
<1> QED BY <1>3

LEMMA UpTo ==
  ASSUME NEW n \in Nat, NEW S, 0 \in S, \A i \in 1..n : i - 1 \in S => i \in S
  PROVE  n \in S
<1> DEFINE T == {k \in 0..n : k \notin S}
<1>1. SUFFICES ASSUME T # {} PROVE FALSE
  OBVIOUS
<1>2. T \subseteq Nat
  OBVIOUS
<1> HIDE DEF T
<1>3. PICK m \in T : \A y \in T : m <= y
  BY <1>1, <1>2, LeastNumber
<1>4. m \in 0..n /\ m \notin S
  BY DEF T
<1>5. m \in 1..n /\ m - 1 \in 0..n /\ ~(m <= m - 1)
  BY <1>4
<1>6. m - 1 \in S
  BY <1>3, <1>5 DEF T
<1> QED BY <1>4, <1>5, <1>6

LEMMA MaxOfPrefix ==
  ASSUME NEW k \in Nat, NEW s \in SUBSET (1..(k + 1)), k + 1 \in s
  PROVE  Max(s) = k + 1
<1>1. \A y \in s : k + 1 >= y
  OBVIOUS
<1>2. \E x \in s : \A y \in s : x >= y
  BY <1>1
<1>3. Max(s) \in s /\ \A y \in s : Max(s) >= y
  BY <1>2, Zenon DEF Max
<1>4. Max(s) >= k + 1 /\ Max(s) \in 1..(k + 1)
  BY <1>3
<1> QED BY <1>4

(* A non-empty set of places has a last one.                               *)
LEMMA MaxOfPlaces ==
  ASSUME NEW n \in Nat, NEW s \in SUBSET (1..n), s # {}
  PROVE  Max(s) \in s
<1> DEFINE T == {n - x : x \in s}
<1>1. T \subseteq Nat
  <2>1. ASSUME NEW x \in s PROVE n - x \in Nat
    OBVIOUS
  <2> QED BY <2>1
<1>0. T # {}
  OBVIOUS
<1> HIDE DEF T
<1>2. PICK m \in T : \A y \in T : m <= y
  BY <1>0, <1>1, LeastNumber
<1>3. PICK x \in s : m = n - x
  BY DEF T
<1>4. ASSUME NEW y \in s PROVE x >= y
  <2>1. n - y \in T
    BY DEF T
  <2>2. n - x <= n - y
    BY <1>2, <1>3, <2>1
  <2> QED BY <2>2
<1>5. \E z \in s : \A y \in s : z >= y
  BY <1>4
<1> QED BY <1>5, Zenon DEF Max

(* The function of sets of places that a fold is the value of: F[i] is     *)
(* what the fold does with the element at place i.                         *)
FoldOf(f, n, b, F) ==
  \A s \in SUBSET (1..n) : f[s] = IF s = {} THEN b ELSE F[Max(s)][f[s \ {Max(s)}]]

LEMMA FoldExists ==
  ASSUME NEW n \in Nat, NEW A, NEW b \in A, NEW F \in [1..n -> [A -> A]]
  PROVE  \E f \in [SUBSET (1..n) -> A] : FoldOf(f, n, b, F)
<1> DEFINE Step(f, s) == IF s = {} THEN b ELSE F[Max(s)][f[s \ {Max(s)}]]
           Good(k, f) == \A s \in SUBSET (1..k) : f[s] = Step(f, s)
           S == {k \in 0..n : \E f \in [SUBSET (1..k) -> A] : Good(k, f)}
<1>1. 0 \in S
  <2> DEFINE f == [s \in SUBSET (1..0) |-> b]
  <2>1. f \in [SUBSET (1..0) -> A]
    OBVIOUS
  <2>2. ASSUME NEW s \in SUBSET (1..0) PROVE f[s] = Step(f, s)
    <3>1. s = {}
      OBVIOUS
    <3> QED BY <3>1
  <2>3. Good(0, f)
    BY <2>2
  <2> HIDE DEF f, Good
  <2>4. \E g \in [SUBSET (1..0) -> A] : Good(0, g)
    BY <2>1, <2>3, Zenon
  <2>5. 0 \in 0..n
    OBVIOUS
  <2> QED BY <2>4, <2>5, Zenon
<1>2. ASSUME NEW i \in 1..n, i - 1 \in S PROVE i \in S
  <2>0. PICK k \in 0..n : k = i - 1 /\ k + 1 = i /\ k \in Nat /\ k + 1 \in 1..n
    OBVIOUS
  <2>1. PICK g \in [SUBSET (1..k) -> A] : Good(k, g)
    <3>1. k \in S
      BY <1>2, <2>0
    <3> HIDE DEF Good
    <3> QED BY <3>1
  <2> DEFINE f == [s \in SUBSET (1..(k + 1)) |->
                     IF k + 1 \in s THEN F[k + 1][g[s \ {k + 1}]] ELSE g[s]]
  <2>2. ASSUME NEW s \in SUBSET (1..(k + 1)) PROVE f[s] \in A /\ f[s] = Step(f, s)
    <3>1. CASE k + 1 \in s
      <4>1. Max(s) = k + 1
        BY <2>0, <3>1, MaxOfPrefix
      <4>2. /\ s \ {k + 1} \in SUBSET (1..k) /\ s \ {k + 1} \in SUBSET (1..(k + 1))
            /\ k + 1 \notin s \ {k + 1}
        BY <2>0
      <4>3. f[s \ {k + 1}] = g[s \ {k + 1}]
        BY <4>2
      <4>4. f[s] = F[k + 1][g[s \ {k + 1}]]
        BY <3>1
      <4>5. s # {}
        BY <3>1
      <4>6. Step(f, s) = F[k + 1][f[s \ {k + 1}]]
        BY <4>1, <4>5, Zenon
      <4>7. g[s \ {k + 1}] \in A /\ F[k + 1] \in [A -> A]
        BY <4>2, <2>0
      <4>8. F[k + 1][g[s \ {k + 1}]] \in A
        BY <4>7, Zenon
      <4> QED BY <4>3, <4>4, <4>6, <4>8, Zenon
    <3>2. CASE k + 1 \notin s
      <4>1. s \in SUBSET (1..k)
        BY <2>0, <3>2
      <4>2. f[s] = g[s]
        BY <3>2
      <4>3. g[s] = Step(g, s) /\ g[s] \in A
        BY <2>1, <4>1
      <4>4. ASSUME s # {} PROVE f[s \ {Max(s)}] = g[s \ {Max(s)}]
        <5>1. s \ {Max(s)} \in SUBSET (1..(k + 1)) /\ k + 1 \notin s \ {Max(s)}
          BY <3>2
        <5> QED BY <5>1
      <4>5. Step(g, s) = Step(f, s)
        BY <4>4, Zenon
      <4> QED BY <4>2, <4>3, <4>5, Zenon
    <3> QED BY <3>1, <3>2, ZenonT(60)
  <2>3. f \in [SUBSET (1..i) -> A]
    BY <2>2, <2>0
  <2>4. Good(i, f)
    BY <2>2, <2>0
  <2> HIDE DEF f, Good
  <2> QED BY <2>3, <2>4
<1>3. n \in S
  <2> HIDE DEF S
  <2> QED BY <1>1, <1>2, UpTo
<1>4. PICK f \in [SUBSET (1..n) -> A] : Good(n, f)
  <2> HIDE DEF Good
  <2> QED BY <1>3
<1> QED BY <1>4, Zenon DEF FoldOf

(***************************************************************************)
(* Sequences                                                               *)
(***************************************************************************)

LEMMA InSeq ==
  ASSUME NEW S, NEW q \in Seq(S)
  PROVE  /\ \A x : x \in ToSet(q) <=> \E i \in 1..Len(q) : q[i] = x
         /\ ToSet(q) \subseteq S
         /\ Len(q) \in Nat
         /\ ToSet(q) = {} <=> q = <<>>
<1>1. DOMAIN q = 1..Len(q) /\ Len(q) \in Nat
  OBVIOUS
<1>2. \A i \in 1..Len(q) : q[i] \in S
  OBVIOUS
<1>3. \A x : x \in ToSet(q) <=> \E i \in 1..Len(q) : q[i] = x
  BY <1>1 DEF ToSet
<1>4. ToSet(q) \subseteq S
  BY <1>2, <1>3
<1>5. ToSet(q) = {} <=> q = <<>>
  <2>1. q # <<>> => 1 \in 1..Len(q)
    OBVIOUS
  <2>2. q = <<>> => 1..Len(q) = {}
    OBVIOUS
  <2> QED BY <1>3, <2>1, <2>2
<1> QED BY <1>1, <1>3, <1>4, <1>5

(* A sequence without repetition has as many places as elements.           *)
LEMMA OnceLength ==
  ASSUME NEW S, NEW q \in Seq(S), Once(q)
  PROVE  IsFiniteSet(ToSet(q)) /\ Cardinality(ToSet(q)) = Len(q)
<1> DEFINE n == Len(q)
<1>1. n \in Nat /\ DOMAIN q = 1..n /\ q \in [1..n -> S]
  OBVIOUS
<1>2. q \in [1..n -> ToSet(q)]
  BY <1>1 DEF ToSet
<1>3. \A y \in ToSet(q) : \E i \in 1..n : q[i] = y
  BY <1>1 DEF ToSet
<1>4. q \in Bijection(1..n, ToSet(q))
  BY <1>2, <1>3 DEF Bijection, Injection, Surjection, IsInjective, Once
<1>5. IsFiniteSet(1..n) /\ Cardinality(1..n) = n
  <2>1. 1 \in Int /\ n \in Int
    BY <1>1
  <2>2. IsFiniteSet(1..n) /\ Cardinality(1..n) = IF 1 > n THEN 0 ELSE n - 1 + 1
    BY <2>1, FS_Interval
  <2> QED BY <1>1, <2>2
<1>6. ExistsBijection(1..n, ToSet(q))
  BY <1>4 DEF ExistsBijection
<1> QED BY <1>5, <1>6, FS_Bijection

(* Some order of a finite set.                                             *)
LEMMA SetToSeqIs ==
  ASSUME NEW S, IsFiniteSet(S)
  PROVE  SetToSeq(S) \in Seq(S) /\ Once(SetToSeq(S)) /\ ToSet(SetToSeq(S)) = S
<1> DEFINE n == Cardinality(S)
           D == 1..n
           q == SetToSeq(S)
<1>1. n \in Nat /\ ExistsBijection(D, S)
  BY FS_CardinalityType
<1>2. PICK f : f \in Bijection(D, S)
  BY <1>1 DEF ExistsBijection
<1>3. f \in [D -> S] /\ IsInjective(f)
  BY <1>2 DEF Bijection, Injection
<1>4. q \in [D -> S] /\ IsInjective(q)
  BY <1>3, Zenon DEF SetToSeq
<1> HIDE DEF n, q
<1>5. q \in Seq(S) /\ Len(q) = n
  BY <1>1, <1>4
<1>6. Once(q)
  BY <1>4, <1>5 DEF IsInjective, Once
<1>7. q \in Injection(D, S)
  BY <1>4 DEF Injection
<1>8. IsFiniteSet(D) /\ Cardinality(D) = n
  <2>1. 1 \in Int /\ n \in Int
    BY <1>1
  <2>2. IsFiniteSet(D) /\ Cardinality(D) = IF 1 > n THEN 0 ELSE n - 1 + 1
    BY <2>1, FS_Interval
  <2> QED BY <1>1, <2>2
<1>9. q \in Surjection(D, S)
  BY <1>7, <1>8, FS_Injection DEF n
<1>10. \A x \in S : \E i \in D : q[i] = x
  BY <1>9 DEF Surjection
<1>11. ToSet(q) = S
  BY <1>4, <1>5, <1>10, InSeq
<1> QED BY <1>5, <1>6, <1>11 DEF q

(* InsertAt: r is q with x at place k.                                     *)
PutIn(r, q, k, x) ==
  /\ Len(r) = Len(q) + 1
  /\ \A i \in 1..Len(r) : r[i] = IF i < k THEN q[i] ELSE IF i = k THEN x ELSE q[i - 1]

LEMMA Inserted ==
  ASSUME NEW S, NEW q \in Seq(S), NEW k \in 1..(Len(q) + 1), NEW x \in S,
         NEW r, r = InsertAt(q, k, x)
  PROVE  /\ r \in Seq(S) /\ PutIn(r, q, k, x)
         /\ ToSet(r) = ToSet(q) \union {x}
         /\ Once(q) /\ x \notin ToSet(q) => Once(r)
<1>0. Len(q) \in Nat /\ k \in Nat /\ k >= 1 /\ k <= Len(q) + 1
  OBVIOUS
<1> DEFINE a == SubSeq(q, 1, k - 1)
           b == SubSeq(q, k, Len(q))
           m == <<x>> \o b
<1>1. a \in Seq(S) /\ Len(a) = k - 1 /\ \A i \in 1..(k - 1) : a[i] = q[i]
  BY <1>0
<1>2. b \in Seq(S) /\ Len(b) = Len(q) + 1 - k /\ \A i \in 1..(Len(q) + 1 - k) : b[i] = q[k - 1 + i]
  BY <1>0
<1>3. r = (a \o <<x>>) \o b
  BY DEF InsertAt
<1> HIDE DEF a, b
<1> DEFINE c == a \o <<x>>
<1>4. c \in Seq(S) /\ Len(c) = k /\ \A i \in 1..k : c[i] = IF i < k THEN q[i] ELSE x
  <2>1. <<x>> \in Seq(S) /\ Len(<<x>>) = 1 /\ <<x>>[1] = x
    OBVIOUS
  <2>2. c \in Seq(S) /\ Len(c) = Len(a) + 1
    BY <1>1, <2>1
  <2>3. \A i \in 1..(Len(a) + 1) : c[i] = IF i <= Len(a) THEN a[i] ELSE <<x>>[i - Len(a)]
    BY <1>1, <2>1
  <2> QED BY <1>0, <1>1, <2>1, <2>2, <2>3
<1>11. r = c \o b
  BY <1>3
<1> HIDE DEF c
<1>5. r \in Seq(S) /\ Len(r) = Len(c) + Len(b)
  <2>1. b \in Seq(S) /\ c \in Seq(S)
    BY <1>2, <1>4
  <2> QED BY <1>11, <2>1
<1>6. \A i \in 1..(Len(c) + Len(b)) : r[i] = IF i <= Len(c) THEN c[i] ELSE b[i - Len(c)]
  BY <1>2, <1>4, <1>11, SMTT(60)
<1>7. Len(r) = Len(q) + 1
  BY <1>0, <1>2, <1>4, <1>5
<1>8. \A i \in 1..Len(r) : r[i] = IF i < k THEN q[i] ELSE IF i = k THEN x ELSE q[i - 1]
  <2> TAKE i \in 1..Len(r)
  <2>1. CASE i <= k
    BY <1>0, <1>4, <1>5, <1>6, <2>1
  <2>2. CASE i > k
    <3>1. i - k \in 1..(Len(q) + 1 - k) /\ k - 1 + (i - k) = i - 1
      BY <1>0, <1>7, <2>2
    <3>2. r[i] = b[i - k]
      BY <1>0, <1>4, <1>5, <1>6, <2>2
    <3> QED BY <1>0, <1>2, <3>1, <3>2, <2>2
  <2> QED BY <1>0, <2>1, <2>2
<1>9. ToSet(r) = ToSet(q) \union {x}
  <2>1. ASSUME NEW y \in ToSet(r) PROVE y \in ToSet(q) \union {x}
    <3>1. PICK i \in 1..Len(r) : r[i] = y
      BY <1>5, InSeq
    <3>2. i < k => i \in 1..Len(q)
      BY <1>0
    <3>3. i > k => i - 1 \in 1..Len(q)
      BY <1>0, <1>7
    <3> QED BY <1>0, <1>8, <3>1, <3>2, <3>3, InSeq
  <2>2. ASSUME NEW y \in ToSet(q) PROVE y \in ToSet(r)
    <3>1. PICK i \in 1..Len(q) : q[i] = y
      BY InSeq
    <3>2. CASE i < k
      <4>1. i \in 1..Len(r) /\ r[i] = y
        BY <1>7, <1>8, <3>1, <3>2
      <4> QED BY <1>5, <4>1, InSeq
    <3>3. CASE i >= k
      <4>1. i + 1 \in 1..Len(r) /\ i + 1 > k /\ (i + 1) - 1 = i
        BY <1>0, <1>7, <3>3
      <4>2. r[i + 1] = y
        BY <1>0, <1>8, <3>1, <4>1
      <4> QED BY <1>5, <4>1, <4>2, InSeq, SMTT(60)
    <3> QED BY <1>0, <3>2, <3>3
  <2>3. x \in ToSet(r)
    <3>1. k \in 1..Len(r) /\ r[k] = x
      BY <1>0, <1>7, <1>8
    <3> QED BY <1>5, <3>1, InSeq
  <2> QED BY <2>1, <2>2, <2>3
<1>10. ASSUME Once(q), x \notin ToSet(q) PROVE Once(r)
  <2>0. \A i \in 1..Len(q) : q[i] # x
    BY <1>10, InSeq
  <2> SUFFICES ASSUME NEW i \in 1..Len(r), NEW j \in 1..Len(r), r[i] = r[j] PROVE i = j
    BY DEF Once
  <2>1. i < k => i \in 1..Len(q)
    BY <1>0
  <2>2. i > k => i - 1 \in 1..Len(q)
    BY <1>0, <1>7
  <2>3. j < k => j \in 1..Len(q)
    BY <1>0
  <2>4. j > k => j - 1 \in 1..Len(q)
    BY <1>0, <1>7
  <2>5. \A u, v \in 1..Len(q) : q[u] = q[v] => u = v
    BY <1>10 DEF Once
  <2> QED BY <1>0, <1>8, <2>0, <2>1, <2>2, <2>3, <2>4, <2>5, SMTT(60)
<1> QED BY <1>5, <1>7, <1>8, <1>9, <1>10 DEF PutIn

(* The first element, and the others.                                      *)
LEMMA TailIs ==
  ASSUME NEW S, NEW q \in Seq(S), q # <<>>
  PROVE  /\ Tail(q) \in Seq(S) /\ Head(q) \in S
         /\ ToSet(q) = {Head(q)} \union ToSet(Tail(q))
         /\ Once(q) => Once(Tail(q)) /\ Head(q) \notin ToSet(Tail(q))
<1> DEFINE r == Tail(q)
           x == Head(q)
           n == Len(q)
<1>1. /\ n \in Nat /\ n >= 1 /\ r \in Seq(S) /\ Len(r) = n - 1 /\ x = q[1] /\ x \in S
      /\ \A i \in 1..(n - 1) : r[i] = q[i + 1]
  OBVIOUS
<1>2. \A y : y \in ToSet(q) <=> \E i \in 1..n : q[i] = y
  BY InSeq
<1> HIDE DEF r, x, n
<1>3. \A y : y \in ToSet(r) <=> \E i \in 1..(n - 1) : r[i] = y
  BY <1>1, InSeq
<1>4. \A i \in 1..(n - 1) : i + 1 \in 1..n /\ i + 1 # 1
  BY <1>1
<1>5. ASSUME NEW y \in ToSet(q) PROVE y = x \/ y \in ToSet(r)
  <2>1. PICK i \in 1..n : q[i] = y
    BY <1>2
  <2>2. CASE i = 1
    BY <1>1, <2>1, <2>2
  <2>3. CASE i # 1
    <3>1. i - 1 \in 1..(n - 1) /\ (i - 1) + 1 = i
      BY <1>1, <2>3
    <3>2. r[i - 1] = y
      BY <1>1, <2>1, <3>1
    <3> QED BY <1>3, <3>1, <3>2
  <2> QED BY <2>2, <2>3
<1>6. x \in ToSet(q) /\ \A y \in ToSet(r) : y \in ToSet(q)
  <2>1. 1 \in 1..n
    BY <1>1
  <2>2. ASSUME NEW y \in ToSet(r) PROVE y \in ToSet(q)
    <3>1. PICK i \in 1..(n - 1) : r[i] = y
      BY <1>3
    <3>2. i + 1 \in 1..n /\ q[i + 1] = y
      BY <1>1, <1>4, <3>1
    <3> QED BY <1>2, <3>2
  <2> QED BY <1>1, <1>2, <2>1, <2>2
<1>7. ToSet(q) = {x} \union ToSet(r)
  BY <1>5, <1>6
<1>8. ASSUME Once(q) PROVE Once(r) /\ x \notin ToSet(r)
  <2>1. \A i, j \in 1..n : q[i] = q[j] => i = j
    BY <1>8 DEF Once, n
  <2>2. ASSUME NEW i \in 1..(n - 1), NEW j \in 1..(n - 1), r[i] = r[j] PROVE i = j
    <3>1. q[i + 1] = q[j + 1] /\ i + 1 \in 1..n /\ j + 1 \in 1..n
      BY <1>1, <1>4, <2>2
    <3>2. i + 1 = j + 1
      BY <2>1, <3>1
    <3> QED BY <1>1, <3>2
  <2>3. ASSUME NEW i \in 1..(n - 1) PROVE r[i] # x
    <3>1. i + 1 \in 1..n /\ 1 \in 1..n /\ i + 1 # 1
      BY <1>1
    <3> QED BY <1>1, <2>1, <3>1
  <2> QED BY <1>1, <1>3, <2>2, <2>3 DEF Once
<1> QED BY <1>1, <1>7, <1>8 DEF r, x

(* RemoveAt: r is q without the element at place k.                        *)
TakenOut(r, q, k) ==
  /\ Len(r) = Len(q) - 1
  /\ \A i \in 1..Len(r) : r[i] = IF i < k THEN q[i] ELSE q[i + 1]
  /\ \A i \in 1..Len(q) : i # k => \E j \in 1..Len(r) : r[j] = q[i]

LEMMA Removed ==
  ASSUME NEW S, NEW q \in Seq(S), NEW k \in 1..Len(q), NEW r, r = RemoveAt(q, k)
  PROVE  /\ r \in Seq(S) /\ TakenOut(r, q, k)
         /\ Once(q) => Once(r) /\ ToSet(r) = ToSet(q) \ {q[k]}
<1>0. Len(q) \in Nat /\ k \in Nat /\ k >= 1 /\ k <= Len(q)
  OBVIOUS
<1> DEFINE a == SubSeq(q, 1, k - 1)
           b == SubSeq(q, k + 1, Len(q))
<1>1. a \in Seq(S) /\ Len(a) = k - 1 /\ \A i \in 1..(k - 1) : a[i] = q[i]
  BY <1>0
<1>2. b \in Seq(S) /\ Len(b) = Len(q) - k /\ \A i \in 1..(Len(q) - k) : b[i] = q[k + i]
  BY <1>0
<1>3. r = a \o b
  BY DEF RemoveAt
<1> HIDE DEF a, b
<1>4. r \in Seq(S) /\ Len(r) = Len(a) + Len(b)
  <2>1. a \in Seq(S) /\ b \in Seq(S)
    BY <1>1, <1>2
  <2> QED BY <1>3, <2>1
<1>5. \A i \in 1..(Len(a) + Len(b)) : r[i] = IF i <= Len(a) THEN a[i] ELSE b[i - Len(a)]
  BY <1>1, <1>2, <1>3
<1>6. Len(r) = Len(q) - 1
  BY <1>0, <1>1, <1>2, <1>4
<1>7. \A i \in 1..Len(r) : r[i] = IF i < k THEN q[i] ELSE q[i + 1]
  <2> TAKE i \in 1..Len(r)
  <2>1. CASE i < k
    <3>1. i \in 1..(Len(a) + Len(b)) /\ i <= Len(a) /\ i \in 1..(k - 1)
      BY <1>0, <1>1, <1>2, <1>4, <2>1
    <3>2. r[i] = a[i]
      BY <1>5, <3>1
    <3> QED BY <1>1, <3>1, <3>2, <2>1
  <2>2. CASE i >= k
    <3>1. i - (k - 1) \in 1..(Len(q) - k) /\ k + (i - (k - 1)) = i + 1
      BY <1>0, <1>6, <2>2
    <3>2. r[i] = b[i - (k - 1)]
      BY <1>0, <1>1, <1>4, <1>5, <1>6, <2>2, SMTT(60)
    <3> QED BY <1>0, <1>2, <3>1, <3>2, <2>2
  <2> QED BY <1>0, <2>1, <2>2
<1>8. ASSUME NEW i \in 1..Len(q), i # k PROVE \E j \in 1..Len(r) : r[j] = q[i]
  <2>1. CASE i < k
    <3>1. i \in 1..Len(r) /\ r[i] = q[i]
      BY <1>0, <1>6, <1>7, <2>1
    <3> QED BY <3>1
  <2>2. CASE i > k
    <3>1. i - 1 \in 1..Len(r) /\ ~(i - 1 < k) /\ (i - 1) + 1 = i
      BY <1>0, <1>6, <2>2
    <3>2. r[i - 1] = q[i]
      BY <1>7, <3>1
    <3> QED BY <3>1, <3>2
  <2> QED BY <1>0, <1>8, <2>1, <2>2
<1>9. ASSUME Once(q) PROVE Once(r) /\ ToSet(r) = ToSet(q) \ {q[k]}
  <2>0. \A u, v \in 1..Len(q) : q[u] = q[v] => u = v
    BY <1>9 DEF Once
  <2>1. \A i \in 1..Len(r) : i \in 1..Len(q) /\ i + 1 \in 1..Len(q)
    BY <1>0, <1>6
  <2>2. Once(r)
    <3> SUFFICES ASSUME NEW i \in 1..Len(r), NEW j \in 1..Len(r), r[i] = r[j] PROVE i = j
      BY DEF Once
    <3> QED BY <1>0, <1>7, <2>0, <2>1
  <2>3. ASSUME NEW y \in ToSet(r) PROVE y \in ToSet(q) \ {q[k]}
    <3>1. PICK i \in 1..Len(r) : r[i] = y
      BY <1>4, InSeq
    <3>2. CASE i < k
      <4>1. y = q[i] /\ i \in 1..Len(q) /\ i # k
        BY <1>0, <1>7, <2>1, <3>1, <3>2
      <4> QED BY <2>0, <4>1, InSeq
    <3>3. CASE ~(i < k)
      <4>1. y = q[i + 1] /\ i + 1 \in 1..Len(q) /\ i + 1 # k
        BY <1>0, <1>7, <2>1, <3>1, <3>3
      <4> QED BY <2>0, <4>1, InSeq
    <3> QED BY <3>2, <3>3
  <2>4. ASSUME NEW y \in ToSet(q) \ {q[k]} PROVE y \in ToSet(r)
    <3>1. PICK i \in 1..Len(q) : q[i] = y
      BY InSeq
    <3>2. \E j \in 1..Len(r) : r[j] = y
      BY <1>8, <3>1
    <3> QED BY <1>4, <3>2, InSeq
  <2> QED BY <2>2, <2>3, <2>4
<1> QED BY <1>4, <1>6, <1>7, <1>8, <1>9 DEF TakenOut

(* The first place of a set of places.                                     *)
LEMMA MinOfPlaces ==
  ASSUME NEW n \in Nat, NEW s \in SUBSET (1..n), s # {}
  PROVE  Min(s) \in s /\ \A y \in s : Min(s) <= y
<1>1. s \subseteq Nat
  OBVIOUS
<1>2. \E x \in s : \A y \in s : x <= y
  BY <1>1, LeastNumber
<1> QED BY <1>2, Zenon DEF Min

(* Place: where a user is in a list.                                       *)
LEMMA PlaceIs ==
  ASSUME NEW S, NEW q \in Seq(S), NEW u
  PROVE  /\ u \in ToSet(q) => Place(q, u) \in 1..Len(q) /\ q[Place(q, u)] = u
         /\ u \notin ToSet(q) => Place(q, u) = 0
<1> DEFINE I == {i \in 1..Len(q) : q[i] = u}
<1>1. Place(q, u) = IF I # {} THEN Min(I) ELSE 0
  BY Zenon DEF Place, SelectInSeq
<1>2. I # {} <=> u \in ToSet(q)
  BY InSeq
<1>3. I \in SUBSET (1..Len(q)) /\ Len(q) \in Nat
  OBVIOUS
<1>4. ASSUME I # {} PROVE Min(I) \in I
  <2> HIDE DEF I
  <2> QED BY <1>3, <1>4, MinOfPlaces
<1> QED BY <1>1, <1>2, <1>4

(* RemoveFirst.                                                            *)
LEMMA RemovedFirst ==
  ASSUME NEW S, NEW q \in Seq(S), NEW u \in ToSet(q), NEW r, r = RemoveFirst(q, u)
  PROVE  /\ r = RemoveAt(q, Place(q, u)) /\ r \in Seq(S)
         /\ Once(q) => Once(r) /\ ToSet(r) = ToSet(q) \ {u}
<1>1. \E i \in 1..Len(q) : q[i] = u
  BY InSeq
<1>2. r = RemoveAt(q, Place(q, u))
  BY <1>1, Zenon DEF RemoveFirst, Place
<1>3. Place(q, u) \in 1..Len(q) /\ q[Place(q, u)] = u
  BY PlaceIs
<1> QED BY <1>2, <1>3, Removed

(* RemoveFirstMatch, on the rows: the only row of a user goes.             *)
NamesOnce(rows) == \A i, j \in 1..Len(rows) : rows[i].name = rows[j].name => i = j
NamesOf(rows) == {rows[i].name : i \in 1..Len(rows)}

LEMMA RemovedRowAt ==
  ASSUME NEW rows \in Seq(Row), NamesOnce(rows), NEW k \in 1..Len(rows), NEW u, rows[k].name = u,
         NEW r, r = RemoveAt(rows, k)
  PROVE  /\ r \in Seq(Row) /\ NamesOnce(r) /\ NamesOf(r) = NamesOf(rows) \ {u}
         /\ \A i \in 1..Len(r) : \E j \in 1..Len(rows) : r[i] = rows[j]
<1>1. Len(rows) \in Nat
  OBVIOUS
<1>4. r = RemoveAt(rows, k)
  OBVIOUS
<1>5. k \in 1..Len(rows) /\ rows[k].name = u
  OBVIOUS
<1>6. /\ r \in Seq(Row) /\ Len(r) = Len(rows) - 1
      /\ \A i \in 1..Len(r) : r[i] = IF i < k THEN rows[i] ELSE rows[i + 1]
      /\ \A i \in 1..Len(rows) : i # k => \E j \in 1..Len(r) : r[j] = rows[i]
  <2>1. r \in Seq(Row) /\ TakenOut(r, rows, k)
    BY Removed
  <2> QED BY <2>1 DEF TakenOut
<1>7. \A i \in 1..Len(r) : i \in 1..Len(rows) /\ i + 1 \in 1..Len(rows)
  BY <1>1, <1>5, <1>6
<1>8. \A i, j \in 1..Len(rows) : rows[i].name = rows[j].name => i = j
  BY DEF NamesOnce
<1>9. NamesOnce(r)
  <2> SUFFICES ASSUME NEW i \in 1..Len(r), NEW j \in 1..Len(r), r[i].name = r[j].name PROVE i = j
    BY DEF NamesOnce
  <2>1. r[i] = (IF i < k THEN rows[i] ELSE rows[i + 1]) /\ r[j] = (IF j < k THEN rows[j] ELSE rows[j + 1])
    BY <1>6
  <2>2. i \in Nat /\ j \in Nat /\ k \in Nat
    BY <1>1, <1>6, SMTT(60)
  <2>3. CASE i < k /\ j < k
    BY <1>7, <1>8, <2>1, <2>3
  <2>4. CASE i < k /\ ~(j < k)
    <3>1. i = j + 1
      BY <1>7, <1>8, <2>1, <2>4
    <3> QED BY <2>2, <2>4, <3>1
  <2>5. CASE ~(i < k) /\ j < k
    <3>1. i + 1 = j
      BY <1>7, <1>8, <2>1, <2>5
    <3> QED BY <2>2, <2>5, <3>1
  <2>6. CASE ~(i < k) /\ ~(j < k)
    <3>1. i + 1 = j + 1
      BY <1>7, <1>8, <2>1, <2>6
    <3> QED BY <2>2, <3>1
  <2> QED BY <2>3, <2>4, <2>5, <2>6
<1>10. ASSUME NEW i \in 1..Len(r) PROVE \E j \in 1..Len(rows) : r[i] = rows[j] /\ j # k
  <2>0. i \in Nat /\ k \in Nat
    BY <1>1, <1>6
  <2>3. r[i] = IF i < k THEN rows[i] ELSE rows[i + 1]
    BY <1>6
  <2>1. CASE i < k
    <3>1. r[i] = rows[i] /\ i \in 1..Len(rows) /\ i # k
      BY <2>0, <2>3, <1>7, <2>1
    <3> QED BY <3>1
  <2>2. CASE ~(i < k)
    <3>1. r[i] = rows[i + 1] /\ i + 1 \in 1..Len(rows) /\ i + 1 # k
      BY <2>0, <2>3, <1>7, <2>2
    <3> QED BY <3>1
  <2> QED BY <2>1, <2>2
<1>11. NamesOf(r) = NamesOf(rows) \ {u}
  <2>1. ASSUME NEW y \in NamesOf(r) PROVE y \in NamesOf(rows) \ {u}
    <3>1. PICK i \in 1..Len(r) : y = r[i].name
      BY DEF NamesOf
    <3>2. PICK j \in 1..Len(rows) : r[i] = rows[j] /\ j # k
      BY <1>10
    <3> QED BY <1>5, <1>8, <3>1, <3>2 DEF NamesOf
  <2>2. ASSUME NEW y \in NamesOf(rows) \ {u} PROVE y \in NamesOf(r)
    <3>1. PICK i \in 1..Len(rows) : y = rows[i].name
      BY DEF NamesOf
    <3>2. i # k
      BY <1>5, <3>1
    <3>3. PICK j \in 1..Len(r) : r[j] = rows[i]
      BY <1>6, <3>2
    <3> QED BY <3>1, <3>3 DEF NamesOf
  <2> QED BY <2>1, <2>2
<1> QED BY <1>6, <1>9, <1>10, <1>11

WithoutRow(rows, u) == RemoveFirstMatch(rows, LAMBDA r : r.name = u)

LEMMA RemovedRow ==
  ASSUME NEW rows \in Seq(Row), NamesOnce(rows), NEW u, u \in NamesOf(rows)
  PROVE  \E k \in 1..Len(rows) :
           rows[k].name = u /\ WithoutRow(rows, u) = RemoveAt(rows, k)
<1> DEFINE I == {i \in 1..Len(rows) : rows[i].name = u}
           k == Min(I)
<1>1. I \in SUBSET (1..Len(rows)) /\ Len(rows) \in Nat /\ I # {}
  BY DEF NamesOf
<1>2. k \in I
  <2> HIDE DEF I
  <2> QED BY <1>1, MinOfPlaces
<1>3. \E i \in 1..Len(rows) : rows[i].name = u
  BY DEF NamesOf
<1>4. WithoutRow(rows, u) = RemoveAt(rows, k)
  BY <1>1, <1>3, Zenon DEF WithoutRow, RemoveFirstMatch, SelectInSeq
<1>5. k \in 1..Len(rows) /\ rows[k].name = u
  BY <1>2
<1> QED BY <1>4, <1>5, Zenon

(***************************************************************************)
(* Sorting, and dropping signals                                           *)
(***************************************************************************)

LEMMA InsertSorted ==
  ASSUME NEW q \in Seq(Users), NEW info, NEW u
  PROVE  \E k \in 1..(Len(q) + 1) : insert_sorted(q, info, u) = InsertAt(q, k, u)
<1> DEFINE later == {i \in DOMAIN q : Display(info, q[i]) >= Display(info, u)}
           k == IF later = {} THEN Len(q) + 1 ELSE CHOOSE i \in later : \A j \in later : i <= j
<1>1. insert_sorted(q, info, u) = InsertAt(q, k, u)
  BY Zenon DEF insert_sorted
<1>2. later \subseteq 1..Len(q) /\ later \subseteq Nat /\ Len(q) \in Nat
  OBVIOUS
<1> HIDE DEF later
<1>3. later # {} => \E i \in later : \A j \in later : i <= j
  BY <1>2, LeastNumber
<1>4. later # {} => k \in later
  BY <1>3, Zenon
<1>5. k \in 1..(Len(q) + 1)
  <2>1. CASE later = {}
    <3>1. k = Len(q) + 1
      BY <2>1
    <3> HIDE DEF k
    <3> QED BY <1>2, <3>1
  <2>2. CASE later # {}
    <3> HIDE DEF k
    <3>1. k \in 1..Len(q)
      BY <1>2, <1>4, <2>2
    <3> QED BY <1>2, <3>1
  <2> QED BY <2>1, <2>2
<1> HIDE DEF k
<1> QED BY <1>1, <1>5

InsertAll(q, info) == FoldLeft(LAMBDA p, u : insert_sorted(p, info, u), <<>>, q)

(* How the list is sorted, one user after the other.                       *)
SortRun(r, q, info) ==
  /\ r \in [0..Len(q) -> Seq(Users)]
  /\ r[0] = <<>>
  /\ \A i \in 1..Len(q) : r[i] = insert_sorted(r[i - 1], info, q[i])

LEMMA SortedSteps ==
  ASSUME NEW q \in Seq(Users), NEW info
  PROVE  \E r : SortRun(r, q, info) /\ InsertAll(q, info) = r[Len(q)]
<1> DEFINE n == Len(q)
           A == Seq(Users)
           Step(g, s) == IF s = {} THEN <<>> ELSE insert_sorted(g[s \ {Max(s)}], info, q[Max(s)])
           g == CHOOSE g : g = [s \in SUBSET (1..n) |-> Step(g, s)]
           F == [i \in 1..n |-> [a \in A |-> insert_sorted(a, info, q[i])]]
           r == [i \in 0..n |-> g[1..i]]
<1>1. n \in Nat /\ DOMAIN q = 1..n /\ <<>> \in A
  OBVIOUS
<1>2. FoldLeft(LAMBDA p, u : insert_sorted(p, info, u), <<>>, q) = g[1..n]
  <2>1. FoldLeft(LAMBDA p, u : insert_sorted(p, info, u), <<>>, q)
          = (CHOOSE f : f = [s \in SUBSET (DOMAIN q) |-> Step(f, s)])[DOMAIN q]
    BY Zenon DEF FoldLeft, MapThenFoldSet
  <2> QED BY <1>1, <2>1, Zenon
<1>3. ASSUME NEW a \in A, NEW i \in 1..n PROVE insert_sorted(a, info, q[i]) \in A
  <2>1. q[i] \in Users /\ a \in Seq(Users)
    OBVIOUS
  <2>2. PICK k \in 1..(Len(a) + 1) : insert_sorted(a, info, q[i]) = InsertAt(a, k, q[i])
    BY <2>1, InsertSorted
  <2>3. InsertAt(a, k, q[i]) \in Seq(Users)
    BY <2>1, Inserted
  <2> QED BY <2>2, <2>3
<1>4. F \in [1..n -> [A -> A]] /\ \A i \in 1..n, a \in A : F[i][a] = insert_sorted(a, info, q[i])
  BY <1>3, Zenon
<1> HIDE DEF n, F, A
<1>5. PICK f \in [SUBSET (1..n) -> A] : FoldOf(f, n, <<>>, F)
  BY <1>1, <1>4, FoldExists
<1>6. ASSUME NEW s \in SUBSET (1..n) PROVE f[s] = Step(f, s)
  <2>1. ASSUME s # {} PROVE F[Max(s)][f[s \ {Max(s)}]] = insert_sorted(f[s \ {Max(s)}], info, q[Max(s)])
    <3>1. Max(s) \in 1..n
      BY <1>1, <2>1, MaxOfPlaces
    <3>2. s \ {Max(s)} \in SUBSET (1..n)
      OBVIOUS
    <3>3. f[s \ {Max(s)}] \in A
      BY <3>2, Zenon
    <3> QED BY <1>4, <3>1, <3>3, Zenon
  <2>2. f[s] = IF s = {} THEN <<>> ELSE F[Max(s)][f[s \ {Max(s)}]]
    BY <1>5, Zenon DEF FoldOf
  <2> QED BY <2>1, <2>2, Zenon
<1>7. f = [s \in SUBSET (1..n) |-> Step(f, s)]
  BY <1>6, Zenon
<1>8. g = [s \in SUBSET (1..n) |-> Step(g, s)]
  BY <1>7, Zenon
<1> HIDE DEF g
<1>9. \A s \in SUBSET (1..n) : g[s] = Step(g, s)
  BY <1>8, Zenon
<1>10. r[0] = <<>>
  <2>1. 1..0 = {} /\ 1..0 \in SUBSET (1..n) /\ 0 \in 0..n
    BY <1>1
  <2>2. g[1..0] = <<>>
    BY <1>9, <2>1, Zenon
  <2> QED BY <2>1, <2>2, Zenon
<1>11. ASSUME NEW i \in 1..n PROVE r[i] = insert_sorted(r[i - 1], info, q[i])
  <2>0. i - 1 \in 0..n /\ i \in 0..n /\ i \in Nat /\ i <= n /\ i \in 1..i
    BY <1>1
  <2>1. i - 1 \in 0..n /\ i \in 0..n /\ 1..i \in SUBSET (1..n) /\ 1..i # {}
    <3>1. \A x \in 1..i : x \in 1..n
      BY <1>1, <2>0
    <3> QED BY <2>0, <3>1, Zenon
  <2>5. (1..i) \ {i} = 1..(i - 1)
    BY <1>1
  <2>2. Max(1..i) = i
    <3>1. i - 1 \in Nat /\ (i - 1) + 1 = i
      BY <1>1
    <3>2. 1..i \in SUBSET (1..i) /\ i \in 1..i
      BY <1>1
    <3> QED BY <3>1, <3>2, MaxOfPrefix
  <2>3. g[1..i] = insert_sorted(g[1..(i - 1)], info, q[i])
    BY <1>9, <2>1, <2>2, <2>5, Zenon
  <2>4. r[i] = g[1..i] /\ r[i - 1] = g[1..(i - 1)]
    BY <2>1, Zenon
  <2> QED BY <2>3, <2>4, Zenon
<1>12. FoldLeft(LAMBDA p, u : insert_sorted(p, info, u), <<>>, q) = r[n]
  <2>1. n \in 0..n
    BY <1>1
  <2> QED BY <1>2, <2>1, Zenon
<1>13. DOMAIN r = 0..n /\ r = [i \in 0..n |-> r[i]]
  BY Zenon
<1> HIDE DEF r
<1>14. ASSUME NEW k \in 0..n PROVE r[k] \in A
  <2> DEFINE G == {i \in 0..n : r[i] \in A}
  <2>1. 0 \in G
    BY <1>1, <1>10
  <2>2. ASSUME NEW i \in 1..n, i - 1 \in G PROVE i \in G
    <3>1. r[i - 1] \in A /\ i \in 0..n
      BY <2>2
    <3>2. insert_sorted(r[i - 1], info, q[i]) \in A
      BY <1>3, <3>1, Zenon
    <3> QED BY <1>11, <3>1, <3>2, Zenon
  <2> HIDE DEF G
  <2>3. k \in Nat /\ \A i \in 1..k : i \in 1..n
    BY <1>1
  <2>4. k \in G
    BY <2>1, <2>2, <2>3, UpTo
  <2> QED BY <2>4 DEF G
<1>15. r \in [0..n -> A]
  BY <1>13, <1>14, Zenon
<1>16. SortRun(r, q, info)
  BY <1>10, <1>11, <1>15, Zenon DEF SortRun, n, A
<1>17. InsertAll(q, info) = r[n]
  BY <1>12, Zenon DEF InsertAll
<1> QED BY <1>16, <1>17, Zenon DEF n

(* The sorted list of a set of users has each of them once.                *)
LEMMA SortedIs ==
  ASSUME NEW S \in SUBSET Users, NEW info
  PROVE  Sorted(S, info) \in Seq(Users) /\ Once(Sorted(S, info)) /\ ToSet(Sorted(S, info)) = S
<1> DEFINE q == SetToSeq(S)
           n == Len(q)
<1>1. IsFiniteSet(S)
  BY UserListAssumption, FS_Subset
<1>2. q \in Seq(S) /\ Once(q) /\ ToSet(q) = S
  BY <1>1, SetToSeqIs
<1>3. Sorted(S, info) = InsertAll(q, info)
  BY Zenon DEF Sorted, InsertAll
<1> HIDE DEF q
<1>4. q \in Seq(Users) /\ n \in Nat /\ \A i \in 1..n : q[i] \in Users
  BY <1>2
<1>5. PICK r : SortRun(r, q, info) /\ InsertAll(q, info) = r[n]
  BY <1>4, SortedSteps
<1>51. /\ r \in [0..n -> Seq(Users)]
       /\ r[0] = <<>>
       /\ \A i \in 1..n : r[i] = insert_sorted(r[i - 1], info, q[i])
       /\ Sorted(S, info) = r[n]
  BY <1>3, <1>5 DEF SortRun
<1> DEFINE Upto(k) == {q[j] : j \in 1..k}
           G == {k \in 0..n : Once(r[k]) /\ ToSet(r[k]) = Upto(k)}
<1>6. 0 \in G
  <2>1. r[0] = <<>> /\ 0 \in 0..n
    BY <1>4, <1>51
  <2>2. Once(<<>>)
    BY DEF Once
  <2>3. ToSet(<<>>) = {} /\ Upto(0) = {}
    BY DEF ToSet
  <2> QED BY <2>1, <2>2, <2>3
<1>7. ASSUME NEW i \in 1..n, i - 1 \in G PROVE i \in G
  <2>1. i - 1 \in 0..n /\ i \in 0..n /\ r[i - 1] \in Seq(Users) /\ q[i] \in Users
    BY <1>4, <1>51
  <2>2. Once(r[i - 1]) /\ ToSet(r[i - 1]) = Upto(i - 1)
    BY <1>7
  <2>3. PICK k \in 1..(Len(r[i - 1]) + 1) : r[i] = InsertAt(r[i - 1], k, q[i])
    BY <1>51, <2>1, InsertSorted
  <2>4. q[i] \notin Upto(i - 1)
    <3>1. ASSUME NEW j \in 1..(i - 1) PROVE q[j] # q[i]
      <4>1. j \in 1..n /\ j # i
        BY <1>4
      <4> QED BY <1>2, <4>1 DEF Once
    <3> QED BY <3>1
  <2>5. Upto(i) = Upto(i - 1) \union {q[i]}
    BY <1>4
  <2>6. Once(r[i]) /\ ToSet(r[i]) = ToSet(r[i - 1]) \union {q[i]}
    <3> HIDE DEF Upto, G
    <3> QED BY <2>1, <2>2, <2>3, <2>4, Inserted
  <2> QED BY <2>1, <2>2, <2>5, <2>6
<1>8. n \in G
  <2> HIDE DEF G
  <2> QED BY <1>4, <1>6, <1>7, UpTo
<1>9. Once(r[n]) /\ ToSet(r[n]) = Upto(n) /\ r[n] \in Seq(Users)
  BY <1>4, <1>8, <1>51
<1>10. Upto(n) = S
  <2>1. \A x : x \in S <=> \E i \in 1..Len(q) : q[i] = x
    BY <1>2, InSeq
  <2> QED BY <2>1
<1> QED BY <1>51, <1>9, <1>10

(* How signals are dropped.                                                *)
DropRun(r, q, D) ==
  /\ r \in [0..Len(q) -> Seq(Event)]
  /\ r[0] = <<>>
  /\ \A i \in 1..Len(q) : r[i] = (IF q[i] \in D THEN r[i - 1] ELSE Append(r[i - 1], q[i]))

LEMMA WithoutSteps ==
  ASSUME NEW q \in Seq(Event), NEW D
  PROVE  \E r : DropRun(r, q, D) /\ Without(q, D) = r[Len(q)]
<1> DEFINE n == Len(q)
           A == Seq(Event)
           Step(g, s) == IF s = {} THEN <<>> ELSE (IF q[Max(s)] \in D THEN g[s \ {Max(s)}] ELSE Append(g[s \ {Max(s)}], q[Max(s)]))
           g == CHOOSE g : g = [s \in SUBSET (1..n) |-> Step(g, s)]
           F == [i \in 1..n |-> [a \in A |-> (IF q[i] \in D THEN a ELSE Append(a, q[i]))]]
           r == [i \in 0..n |-> g[1..i]]
<1>1. n \in Nat /\ DOMAIN q = 1..n /\ <<>> \in A
  OBVIOUS
<1>2. FoldLeft(LAMBDA p, e : IF e \in D THEN p ELSE Append(p, e), <<>>, q) = g[1..n]
  <2>1. FoldLeft(LAMBDA p, e : IF e \in D THEN p ELSE Append(p, e), <<>>, q)
          = (CHOOSE f : f = [s \in SUBSET (DOMAIN q) |-> Step(f, s)])[DOMAIN q]
    BY Zenon DEF FoldLeft, MapThenFoldSet
  <2> QED BY <1>1, <2>1, Zenon
<1>3. ASSUME NEW a \in A, NEW i \in 1..n PROVE (IF q[i] \in D THEN a ELSE Append(a, q[i])) \in A
  <2>1. q[i] \in Event
    OBVIOUS
  <2>2. a \in Seq(Event)
    OBVIOUS
  <2>3. Append(a, q[i]) \in Seq(Event)
    BY <2>1, <2>2
  <2> QED BY <2>2, <2>3, Zenon
<1>4. F \in [1..n -> [A -> A]] /\ \A i \in 1..n, a \in A : F[i][a] = (IF q[i] \in D THEN a ELSE Append(a, q[i]))
  BY <1>3, Zenon
<1> HIDE DEF n, F, A
<1>5. PICK f \in [SUBSET (1..n) -> A] : FoldOf(f, n, <<>>, F)
  BY <1>1, <1>4, FoldExists
<1>6. ASSUME NEW s \in SUBSET (1..n) PROVE f[s] = Step(f, s)
  <2>1. ASSUME s # {} PROVE F[Max(s)][f[s \ {Max(s)}]] = (IF q[Max(s)] \in D THEN f[s \ {Max(s)}] ELSE Append(f[s \ {Max(s)}], q[Max(s)]))
    <3>1. Max(s) \in 1..n
      BY <1>1, <2>1, MaxOfPlaces
    <3>2. s \ {Max(s)} \in SUBSET (1..n)
      OBVIOUS
    <3>3. f[s \ {Max(s)}] \in A
      BY <3>2, Zenon
    <3> QED BY <1>4, <3>1, <3>3, Zenon
  <2>2. f[s] = IF s = {} THEN <<>> ELSE F[Max(s)][f[s \ {Max(s)}]]
    BY <1>5, Zenon DEF FoldOf
  <2> QED BY <2>1, <2>2, Zenon
<1>7. f = [s \in SUBSET (1..n) |-> Step(f, s)]
  BY <1>6, Zenon
<1>8. g = [s \in SUBSET (1..n) |-> Step(g, s)]
  BY <1>7, Zenon
<1> HIDE DEF g
<1>9. \A s \in SUBSET (1..n) : g[s] = Step(g, s)
  BY <1>8, Zenon
<1>10. r[0] = <<>>
  <2>1. 1..0 = {} /\ 1..0 \in SUBSET (1..n) /\ 0 \in 0..n
    BY <1>1
  <2>2. g[1..0] = <<>>
    BY <1>9, <2>1, Zenon
  <2> QED BY <2>1, <2>2, Zenon
<1>11. ASSUME NEW i \in 1..n PROVE r[i] = (IF q[i] \in D THEN r[i - 1] ELSE Append(r[i - 1], q[i]))
  <2>0. i - 1 \in 0..n /\ i \in 0..n /\ i \in Nat /\ i <= n /\ i \in 1..i
    BY <1>1
  <2>1. i - 1 \in 0..n /\ i \in 0..n /\ 1..i \in SUBSET (1..n) /\ 1..i # {}
    <3>1. \A x \in 1..i : x \in 1..n
      BY <1>1, <2>0
    <3> QED BY <2>0, <3>1, Zenon
  <2>5. (1..i) \ {i} = 1..(i - 1)
    BY <1>1
  <2>2. Max(1..i) = i
    <3>1. i - 1 \in Nat /\ (i - 1) + 1 = i
      BY <1>1
    <3>2. 1..i \in SUBSET (1..i) /\ i \in 1..i
      BY <1>1
    <3> QED BY <3>1, <3>2, MaxOfPrefix
  <2>3. g[1..i] = (IF q[i] \in D THEN g[1..(i - 1)] ELSE Append(g[1..(i - 1)], q[i]))
    BY <1>9, <2>1, <2>2, <2>5, Zenon
  <2>4. r[i] = g[1..i] /\ r[i - 1] = g[1..(i - 1)]
    BY <2>1, Zenon
  <2> QED BY <2>3, <2>4, Zenon
<1>12. FoldLeft(LAMBDA p, e : IF e \in D THEN p ELSE Append(p, e), <<>>, q) = r[n]
  <2>1. n \in 0..n
    BY <1>1
  <2> QED BY <1>2, <2>1, Zenon
<1>13. DOMAIN r = 0..n /\ r = [i \in 0..n |-> r[i]]
  BY Zenon
<1> HIDE DEF r
<1>14. ASSUME NEW k \in 0..n PROVE r[k] \in A
  <2> DEFINE G == {i \in 0..n : r[i] \in A}
  <2>1. 0 \in G
    BY <1>1, <1>10
  <2>2. ASSUME NEW i \in 1..n, i - 1 \in G PROVE i \in G
    <3>1. r[i - 1] \in A /\ i \in 0..n
      BY <2>2
    <3>2. (IF q[i] \in D THEN r[i - 1] ELSE Append(r[i - 1], q[i])) \in A
      BY <1>3, <3>1, Zenon
    <3> QED BY <1>11, <3>1, <3>2, Zenon
  <2> HIDE DEF G
  <2>3. k \in Nat /\ \A i \in 1..k : i \in 1..n
    BY <1>1
  <2>4. k \in G
    BY <2>1, <2>2, <2>3, UpTo
  <2> QED BY <2>4 DEF G
<1>15. r \in [0..n -> A]
  BY <1>13, <1>14, Zenon
<1>16. DropRun(r, q, D)
  BY <1>10, <1>11, <1>15, Zenon DEF DropRun, n, A
<1>17. Without(q, D) = r[n]
  BY <1>12, Zenon DEF Without
<1> QED BY <1>16, <1>17, Zenon DEF n

(* r is q without the signals in D: h tells where each is from.            *)
From(r, q, n, D, h) ==
  /\ h \in [1..Len(r) -> 1..n]
  /\ \A i, j \in 1..Len(r) : i < j => h[i] < h[j]
  /\ \A i \in 1..Len(r) : r[i] = q[h[i]] /\ r[i] \notin D
  /\ \A j \in 1..n : q[j] \notin D => \E i \in 1..Len(r) : h[i] = j

LEMMA WithoutIs ==
  ASSUME NEW q \in Seq(Event), NEW D
  PROVE  Without(q, D) \in Seq(Event) /\ \E h : From(Without(q, D), q, Len(q), D, h)
<1> DEFINE n == Len(q)
<1>1. n \in Nat /\ \A i \in 1..n : q[i] \in Event
  OBVIOUS
<1>2. PICK r : DropRun(r, q, D) /\ Without(q, D) = r[n]
  BY WithoutSteps
<1> HIDE DEF n
<1>3. /\ r \in [0..n -> Seq(Event)] /\ r[0] = <<>>
      /\ \A i \in 1..n : r[i] = IF q[i] \in D THEN r[i - 1] ELSE Append(r[i - 1], q[i])
  BY <1>2, Zenon DEF DropRun, n
<1> DEFINE G == {k \in 0..n : \E h : From(r[k], q, k, D, h)}
<1>4. 0 \in G
  <2> DEFINE h == [i \in 1..0 |-> 0]
  <2>1. From(<<>>, q, 0, D, h)
    BY DEF From
  <2>2. 0 \in 0..n
    BY <1>1
  <2> HIDE DEF h
  <2> QED BY <1>3, <2>1, <2>2
<1>5. ASSUME NEW i \in 1..n, i - 1 \in G PROVE i \in G
  <2>1. i \in 0..n /\ i - 1 \in 0..n /\ i \in Nat /\ i - 1 \in Nat
    BY <1>1
  <2>2. PICK h : From(r[i - 1], q, i - 1, D, h)
    BY <1>5
  <2> DEFINE p == r[i - 1]
             m == Len(p)
  <2>3. p \in Seq(Event) /\ m \in Nat /\ q[i] \in Event
    BY <1>1, <1>3, <2>1
  <2> HIDE DEF p, m
  <2>4. /\ h \in [1..m -> 1..(i - 1)] /\ \A a, b \in 1..m : a < b => h[a] < h[b]
        /\ \A a \in 1..m : p[a] = q[h[a]] /\ p[a] \notin D
        /\ \A j \in 1..(i - 1) : q[j] \notin D => \E a \in 1..m : h[a] = j
    BY <2>2 DEF From, p, m
  <2>5. CASE q[i] \in D
    <3>1. r[i] = p
      BY <1>3, <2>5 DEF p
    <3>2. From(p, q, i, D, h)
      <4>1. h \in [1..m -> 1..i]
        BY <2>1, <2>4
      <4>2. ASSUME NEW j \in 1..i, q[j] \notin D PROVE \E a \in 1..m : h[a] = j
        <5>1. j \in 1..(i - 1)
          BY <2>1, <2>5, <4>2
        <5> QED BY <2>4, <4>2, <5>1
      <4> QED BY <2>4, <4>1, <4>2 DEF From, m
    <3> QED BY <2>1, <3>1, <3>2
  <2>6. CASE q[i] \notin D
    <3> DEFINE s == Append(p, q[i])
               g == [a \in 1..(m + 1) |-> IF a <= m THEN h[a] ELSE i]
    <3>1. r[i] = s
      BY <1>3, <2>6 DEF p
    <3>2. Len(s) = m + 1 /\ s[m + 1] = q[i] /\ \A a \in 1..m : s[a] = p[a]
      BY <2>3 DEF m
    <3>3. \A a \in 1..(m + 1) : a \in 1..m \/ a = m + 1
      BY <2>3
    <3>4. \A a \in 1..m : g[a] = h[a] /\ g[a] \in 1..(i - 1)
      <4> TAKE a \in 1..m
      <4>1. a \in 1..(m + 1) /\ a <= m
        BY <2>3
      <4> QED BY <2>4, <4>1
    <3>5. g[m + 1] = i /\ DOMAIN g = 1..(m + 1)
      BY <2>3
    <3> HIDE DEF s
    <3>6. g \in [1..Len(s) -> 1..i]
      <4>1. ASSUME NEW a \in 1..(m + 1) PROVE g[a] \in 1..i
        <5>1. CASE a \in 1..m
          <6>1. g[a] \in 1..(i - 1)
            BY <3>4, <5>1
          <6> HIDE DEF g
          <6> QED BY <2>1, <6>1
        <5>2. CASE a = m + 1
          <6>1. g[a] = i
            BY <3>5, <5>2
          <6> HIDE DEF g
          <6> QED BY <2>1, <6>1
        <5> QED BY <3>3, <5>1, <5>2
      <4> QED BY <3>2, <4>1
    <3> HIDE DEF g
    <3>7. \A a, b \in 1..Len(s) : a < b => g[a] < g[b]
      <4> SUFFICES ASSUME NEW a \in 1..(m + 1), NEW b \in 1..(m + 1), a < b PROVE g[a] < g[b]
        BY <3>2
      <4>1. a \in 1..m
        BY <2>3, <3>3
      <4>2. CASE b \in 1..m
        BY <2>4, <3>4, <4>1, <4>2
      <4>3. CASE b = m + 1
        <5>1. g[b] = i /\ g[a] \in 1..(i - 1)
          BY <3>4, <3>5, <4>1, <4>3
        <5> QED BY <2>1, <5>1
      <4> QED BY <3>3, <4>2, <4>3
    <3>8. \A a \in 1..Len(s) : s[a] = q[g[a]] /\ s[a] \notin D
      BY <2>4, <2>6, <3>2, <3>3, <3>4, <3>5
    <3>9. ASSUME NEW j \in 1..i, q[j] \notin D PROVE \E a \in 1..Len(s) : g[a] = j
      <4>1. CASE j = i
        <5>1. m + 1 \in 1..Len(s)
          BY <2>3, <3>2
        <5> QED BY <3>5, <4>1, <5>1
      <4>2. CASE j # i
        <5>1. j \in 1..(i - 1)
          BY <2>1, <4>2
        <5>2. PICK a \in 1..m : h[a] = j
          BY <2>4, <3>9, <5>1
        <5>3. a \in 1..Len(s)
          BY <2>3, <3>2
        <5> QED BY <3>4, <5>2, <5>3
      <4> QED BY <4>1, <4>2
    <3>10. From(s, q, i, D, g)
      BY <3>6, <3>7, <3>8, <3>9 DEF From
    <3> QED BY <2>1, <3>1, <3>10
  <2> QED BY <2>5, <2>6
<1>6. n \in G
  <2> HIDE DEF G
  <2> QED BY <1>1, <1>4, <1>5, UpTo
<1>7. n \in 0..n
  BY <1>1
<1> QED BY <1>2, <1>3, <1>6, <1>7 DEF n

(***************************************************************************)
(* The wrappers and the rows                                               *)
(***************************************************************************)

LEMMA ItemIs ==
  ASSUME NEW l \in ListType, NEW u \in Users
  PROVE  UserItem(l, u) \in Row /\ UserItem(l, u).name = u
<1>1. get_logged_in_cb(l, u) \in BOOLEAN
  BY Zenon DEF get_logged_in_cb
<1>2. l.info[u].real \in Nat
  BY DEF ListType, UserInfo
<1> QED BY <1>1, <1>2 DEF UserItem, Row

(* What the signals leave alone.                                           *)
Same(r, s) ==
  /\ r \in StateType /\ r.list = s.list /\ r.removing = s.removing
  /\ r.view.initialized = s.view.initialized /\ r.view.model = s.view.model

WithRows(s, p) == [s EXCEPT !.view.rows = p]
WithWrappers(s, p) == [s EXCEPT !.view.list = p]

LEMMA SetRows ==
  ASSUME NEW s \in StateType, NEW p \in Seq(Row), NEW r, r = WithRows(s, p)
  PROVE  Same(r, s) /\ r.view.list = s.view.list /\ r.view.rows = p
<1> DEFINE v == [s.view EXCEPT !.rows = p]
<1>1. s.view \in ViewType /\ s = [list |-> s.list, view |-> s.view, removing |-> s.removing]
  BY DEF StateType
<1>2. /\ v \in ViewType /\ v.rows = p /\ v.list = s.view.list
      /\ v.initialized = s.view.initialized /\ v.model = s.view.model
  BY <1>1 DEF ViewType
<1>3. r = [s EXCEPT !.view = v]
  BY DEF WithRows
<1> HIDE DEF v
<1>4. r.list = s.list /\ r.view = v /\ r.removing = s.removing /\ r \in StateType
  BY <1>2, <1>3 DEF StateType
<1> QED BY <1>2, <1>4 DEF Same

LEMMA SetWrappers ==
  ASSUME NEW s \in StateType, NEW p \in Seq(Users), NEW r, r = WithWrappers(s, p)
  PROVE  Same(r, s) /\ r.view.rows = s.view.rows /\ r.view.list = p
<1> DEFINE v == [s.view EXCEPT !.list = p]
<1>1. s.view \in ViewType /\ s = [list |-> s.list, view |-> s.view, removing |-> s.removing]
  BY DEF StateType
<1>2. /\ v \in ViewType /\ v.list = p /\ v.rows = s.view.rows
      /\ v.initialized = s.view.initialized /\ v.model = s.view.model
  BY <1>1 DEF ViewType
<1>3. r = [s EXCEPT !.view = v]
  BY DEF WithWrappers
<1> HIDE DEF v
<1>4. r.list = s.list /\ r.view = v /\ r.removing = s.removing /\ r \in StateType
  BY <1>2, <1>3 DEF StateType
<1> QED BY <1>2, <1>4 DEF Same

LEMMA RowAdded ==
  ASSUME NEW s \in StateType, NEW u \in Users, NEW r, r = cb_userAdded(s, u)
  PROVE  /\ Same(r, s) /\ r.view.list = s.view.list
         /\ r.view.rows = IF s.view.model # "connected" THEN s.view.rows ELSE Append(s.view.rows, UserItem(s.list, u))
<1> DEFINE x == UserItem(s.list, u)
<1>1. x \in Row /\ s.view.rows \in Seq(Row)
  BY ItemIs DEF StateType, ViewType
<1>2. r = IF s.view.model # "connected" THEN s ELSE WithRows(s, Append(s.view.rows, x))
  BY Zenon DEF cb_userAdded, WithRows
<1> HIDE DEF x
<1>3. Append(s.view.rows, x) \in Seq(Row)
  BY <1>1
<1>4. CASE s.view.model # "connected"
  BY <1>2, <1>4 DEF Same
<1>5. CASE s.view.model = "connected"
  <2> DEFINE p == Append(s.view.rows, x)
  <2>1. r = WithRows(s, p) /\ p \in Seq(Row)
    BY <1>2, <1>3, <1>5
  <2> HIDE DEF p
  <2>2. Same(r, s) /\ r.view.list = s.view.list /\ r.view.rows = p
    BY <2>1, SetRows
  <2> QED BY <1>5, <2>2 DEF p, x
<1> QED BY <1>4, <1>5

LEMMA RowChanged ==
  ASSUME NEW s \in StateType, NEW u \in Users, NEW r, r = cb_userChanged(s, u)
  PROVE  /\ Same(r, s) /\ r.view.list = s.view.list
         /\ s.view.model # "connected" => r.view.rows = s.view.rows
         /\ Len(r.view.rows) = Len(s.view.rows)
         /\ s.view.model = "connected" =>
              \A i \in 1..Len(s.view.rows) :
                r.view.rows[i] = IF s.view.rows[i].name = u THEN UserItem(s.list, u) ELSE s.view.rows[i]
<1> DEFINE x == UserItem(s.list, u)
           q == s.view.rows
           p == [i \in 1..Len(q) |-> IF q[i].name = u THEN x ELSE q[i]]
<1>1. x \in Row /\ q \in Seq(Row) /\ Len(q) \in Nat /\ DOMAIN q = 1..Len(q)
  BY ItemIs DEF StateType, ViewType
<1>2. r = IF s.view.model # "connected" THEN s ELSE WithRows(s, p)
  BY <1>1, Zenon DEF cb_userChanged, WithRows
<1>3. p \in Seq(Row) /\ Len(p) = Len(q) /\ \A i \in 1..Len(q) : p[i] = IF q[i].name = u THEN x ELSE q[i]
  <2>1. \A i \in 1..Len(q) : q[i] \in Row
    BY <1>1
  <2>2. p \in [1..Len(q) -> Row]
    <3> HIDE DEF x, q
    <3> QED BY <1>1, <2>1
  <2>3. \A i \in 1..Len(q) : p[i] = IF q[i].name = u THEN x ELSE q[i]
    <3> HIDE DEF x, q
    <3> QED OBVIOUS
  <2> HIDE DEF p, x, q
  <2> QED BY <1>1, <2>2, <2>3
<1> HIDE DEF x, q, p
<1>4. s.view.rows = q
  BY DEF q
<1>5. CASE s.view.model # "connected"
  BY <1>2, <1>5 DEF Same
<1>6. CASE s.view.model = "connected"
  <2>1. r = WithRows(s, p)
    BY <1>2, <1>6
  <2>2. r.view.rows = p /\ Same(r, s) /\ r.view.list = s.view.list
    BY <1>3, <2>1, SetRows
  <2> QED BY <1>3, <1>4, <1>6, <2>2 DEF x
<1> QED BY <1>5, <1>6

RowsFrom(r, q) == \A i \in 1..Len(r) : \E j \in 1..Len(q) : r[i] = q[j]

LEMMA RowRemoved ==
  ASSUME NEW s \in StateType, NEW u \in Users, NEW r, r = cb_userRemoved(s, u),
         s.view.model = "connected" => NamesOnce(s.view.rows) /\ u \in NamesOf(s.view.rows)
  PROVE  /\ Same(r, s) /\ r.view.list = s.view.list
         /\ s.view.model # "connected" => r.view.rows = s.view.rows
         /\ s.view.model = "connected" =>
              /\ NamesOnce(r.view.rows) /\ NamesOf(r.view.rows) = NamesOf(s.view.rows) \ {u}
              /\ RowsFrom(r.view.rows, s.view.rows)
<1>1. CASE s.view.model # "connected"
  <2>1. r = s
    BY <1>1, Zenon DEF cb_userRemoved
  <2> QED BY <1>1, <2>1 DEF Same
<1>2. CASE s.view.model = "connected"
  <2> DEFINE q == s.view.rows
             p == WithoutRow(q, u)
  <2>1. r = WithRows(s, p)
    BY <1>2, Zenon DEF cb_userRemoved, WithRows, WithoutRow
  <2>2. q \in Seq(Row)
    BY DEF StateType, ViewType
  <2>3. PICK k \in 1..Len(q) : q[k].name = u /\ p = RemoveAt(q, k)
    <3>1. NamesOnce(q) /\ u \in NamesOf(q)
      BY <1>2
    <3> QED BY <2>2, <3>1, RemovedRow, Zenon
  <2> HIDE DEF p
  <2>4. /\ p \in Seq(Row) /\ NamesOnce(p) /\ NamesOf(p) = NamesOf(q) \ {u}
        /\ RowsFrom(p, q)
    <3>1. NamesOnce(q)
      BY <1>2
    <3> HIDE DEF q
    <3> QED BY <2>2, <2>3, <3>1, RemovedRowAt DEF RowsFrom
  <2>5. r.view.rows = p /\ Same(r, s) /\ r.view.list = s.view.list
    BY <2>1, <2>4, SetRows
  <2> QED BY <1>2, <2>4, <2>5
<1> QED BY <1>1, <1>2

(* The wrappers are those of the users X, and so are the rows.             *)
ViewOK(v, X) ==
  /\ v \in ViewType
  /\ ~v.initialized => v = NoView
  /\ v.initialized => Once(v.list) /\ ToSet(v.list) = X
  /\ v.model = "connected" => NamesOnce(v.rows) /\ NamesOf(v.rows) = X

(* Every row says what is known.                                           *)
Exact(l, rows) == \A i \in 1..Len(rows) : rows[i] = UserItem(l, rows[i].name)

LEMMA NoViewIs == NoView \in ViewType /\ ToSet(NoView.list) = {} /\ NoView.model = "none" /\ ~NoView.initialized
<1>1. <<>> \in Seq(Users) /\ <<>> \in Seq(Row) /\ ToSet(<<>>) = {}
  BY DEF ToSet
<1> QED BY <1>1 DEF NoView, ViewType

(* One more row.                                                           *)
LEMMA RowMore ==
  ASSUME NEW rows \in Seq(Row), NEW x \in Row, NEW r, r = Append(rows, x)
  PROVE  /\ NamesOf(r) = NamesOf(rows) \union {x.name}
         /\ NamesOnce(rows) /\ x.name \notin NamesOf(rows) => NamesOnce(r)
         /\ \A i \in 1..Len(r) : r[i] = x \/ \E j \in 1..Len(rows) : r[i] = rows[j]
<1> DEFINE n == Len(rows)
<1>1. n \in Nat /\ Len(r) = n + 1 /\ r[n + 1] = x /\ \A i \in 1..n : r[i] = rows[i]
  OBVIOUS
<1> HIDE DEF n
<1>2. \A i \in 1..Len(r) : i \in 1..n \/ i = n + 1
  BY <1>1
<1>3. n + 1 \in 1..Len(r) /\ \A i \in 1..n : i \in 1..Len(r)
  BY <1>1
<1>4. ASSUME NEW i \in 1..Len(r) PROVE r[i] = x \/ \E j \in 1..n : r[i] = rows[j]
  BY <1>1, <1>2
<1>5. NamesOf(r) = NamesOf(rows) \union {x.name}
  <2>1. ASSUME NEW z \in NamesOf(r) PROVE z \in NamesOf(rows) \union {x.name}
    <3>1. PICK i \in 1..Len(r) : z = r[i].name
      BY <2>1 DEF NamesOf
    <3> QED BY <1>4, <3>1 DEF NamesOf, n
  <2>2. ASSUME NEW z \in NamesOf(rows) \union {x.name} PROVE z \in NamesOf(r)
    <3>1. CASE z = x.name
      BY <1>1, <1>3, <3>1 DEF NamesOf
    <3>2. CASE z \in NamesOf(rows)
      <4>1. PICK j \in 1..n : z = rows[j].name
        BY <3>2 DEF NamesOf, n
      <4> QED BY <1>1, <1>3, <4>1 DEF NamesOf
    <3> QED BY <3>1, <3>2
  <2> QED BY <2>1, <2>2
<1>6. ASSUME NamesOnce(rows), x.name \notin NamesOf(rows) PROVE NamesOnce(r)
  <2> SUFFICES ASSUME NEW i \in 1..Len(r), NEW j \in 1..Len(r), r[i].name = r[j].name PROVE i = j
    BY DEF NamesOnce
  <2>1. \A k \in 1..n : rows[k].name # x.name
    BY <1>6 DEF NamesOf, n
  <2>2. CASE i \in 1..n /\ j \in 1..n
    BY <1>1, <1>6, <2>2 DEF NamesOnce, n
  <2>3. CASE i \in 1..n /\ j = n + 1
    BY <1>1, <2>1, <2>3
  <2>4. CASE i = n + 1 /\ j \in 1..n
    BY <1>1, <2>1, <2>4
  <2> QED BY <1>2, <2>2, <2>3, <2>4
<1> QED BY <1>4, <1>5, <1>6 DEF n

(* The place of an element that is in a sequence only there.               *)
LEMMA PlaceOnce ==
  ASSUME NEW S, NEW q \in Seq(S), Once(q), NEW k \in 1..Len(q)
  PROVE  Place(q, q[k]) = k
<1>1. q[k] \in ToSet(q)
  BY InSeq
<1>2. Place(q, q[k]) \in 1..Len(q) /\ q[Place(q, q[k])] = q[k]
  BY <1>1, PlaceIs
<1> QED BY <1>2 DEF Once

LEMMA AppendIs ==
  ASSUME NEW S, NEW q \in Seq(S), NEW x \in S
  PROVE  Append(q, x) = InsertAt(q, Len(q) + 1, x)
<1> DEFINE r == InsertAt(q, Len(q) + 1, x)
           p == Append(q, x)
           n == Len(q)
<1>1. n \in Nat /\ n + 1 \in 1..(n + 1)
  OBVIOUS
<1>2. r \in Seq(S) /\ PutIn(r, q, n + 1, x)
  BY <1>1, Inserted
<1>3. p \in Seq(S) /\ Len(p) = n + 1 /\ p[n + 1] = x /\ \A i \in 1..n : p[i] = q[i]
  OBVIOUS
<1> HIDE DEF r, p, n
<1>4. Len(r) = n + 1 /\ \A i \in 1..(n + 1) : r[i] = IF i < n + 1 THEN q[i] ELSE IF i = n + 1 THEN x ELSE q[i - 1]
  BY <1>2 DEF PutIn, n
<1>5. \A i \in 1..(n + 1) : r[i] = p[i]
  BY <1>1, <1>3, <1>4
<1>6. p = r
  BY <1>2, <1>3, <1>4, <1>5
<1> QED BY <1>6 DEF p, r, n

(* user_list_added_cb.                                                     *)
AddedAt(r, s, u) ==
  \E k \in 1..(Len(s.view.list) + 1) :
    /\ r.view.list = InsertAt(s.view.list, k, u)
    /\ Place(s.list.users, u) <= Len(s.view.list) + 1 => k = Place(s.list.users, u)

LEMMA WrapperAdded ==
  ASSUME NEW s \in StateType, NEW X, ViewOK(s.view, X), NEW u \in ToSet(s.list.users), u \notin X,
         NEW r, r = user_list_added_cb(s, u)
  PROVE  /\ Same(r, s) /\ ViewOK(r.view, X \union {u})
         /\ s.view.initialized => AddedAt(r, s, u)
         /\ s.view.model = "connected" => r.view.rows = Append(s.view.rows, UserItem(s.list, u))
<1> DEFINE at == Place(s.list.users, u)
           q == s.view.list
           p == IF at > Len(q) THEN Append(q, u) ELSE InsertAt(q, at, u)
<1>1. s.list.users \in Seq(Users) /\ q \in Seq(Users) /\ s.view.rows \in Seq(Row) /\ s.list \in ListType
  BY DEF StateType, ListType, ViewType
<1>2. u \in Users /\ at \in 1..Len(s.list.users) /\ Len(s.list.users) \in Nat /\ Len(q) \in Nat
  BY <1>1, InSeq, PlaceIs
<1>3. CASE ~s.view.initialized
  <2>1. r = s
    BY <1>3, Zenon DEF user_list_added_cb
  <2>2. s.view = NoView
    BY <1>3 DEF ViewOK
  <2> QED BY <1>3, <2>1, <2>2, NoViewIs DEF ViewOK, Same
<1>4. CASE s.view.initialized
  <2> DEFINE t == WithWrappers(s, p)
  <2>1. r = cb_userAdded(t, u)
    BY <1>4, Zenon DEF user_list_added_cb, WithWrappers
  <2>2. PICK k \in 1..(Len(q) + 1) : p = InsertAt(q, k, u) /\ (at <= Len(q) + 1 => k = at)
    <3>1. CASE at > Len(q)
      <4>1. p = InsertAt(q, Len(q) + 1, u)
        BY <1>1, <1>2, <3>1, AppendIs
      <4>2. Len(q) + 1 \in 1..(Len(q) + 1) /\ (at <= Len(q) + 1 => Len(q) + 1 = at)
        <5> HIDE DEF at, q
        <5> QED BY <1>2, <3>1
      <4> HIDE DEF p, at
      <4> QED BY <4>1, <4>2
    <3>2. CASE ~(at > Len(q))
      <4>1. p = InsertAt(q, at, u)
        BY <3>2
      <4>2. at \in 1..(Len(q) + 1)
        <5> HIDE DEF at, q
        <5> QED BY <1>2, <3>2
      <4> HIDE DEF p, at
      <4> QED BY <4>1, <4>2
    <3> QED BY <3>1, <3>2
  <2> HIDE DEF p, at
  <2>3. Once(q) /\ ToSet(q) = X
    BY <1>4 DEF ViewOK
  <2>4. p \in Seq(Users) /\ Once(p) /\ ToSet(p) = X \union {u}
    <3> HIDE DEF q
    <3> QED BY <1>1, <1>2, <2>2, <2>3, Inserted
  <2> HIDE DEF q
  <2>5. t \in StateType /\ Same(t, s) /\ t.view.rows = s.view.rows /\ t.view.list = p
    BY <2>4, SetWrappers DEF Same
  <2> HIDE DEF t
  <2>6. /\ Same(r, t) /\ r.view.list = p
        /\ r.view.rows = IF s.view.model # "connected" THEN s.view.rows ELSE Append(s.view.rows, UserItem(s.list, u))
    BY <1>2, <2>1, <2>5, RowAdded DEF Same
  <2>7. Same(r, s)
    BY <2>5, <2>6 DEF Same
  <2>8. ASSUME s.view.model = "connected" PROVE NamesOnce(r.view.rows) /\ NamesOf(r.view.rows) = X \union {u}
    <3> DEFINE x == UserItem(s.list, u)
               rows == s.view.rows
    <3>1. x \in Row /\ x.name = u /\ rows \in Seq(Row)
      BY <1>1, <1>2, ItemIs
    <3>2. NamesOnce(rows) /\ NamesOf(rows) = X
      BY <2>8 DEF ViewOK
    <3>3. r.view.rows = Append(rows, x)
      BY <2>6, <2>8
    <3> DEFINE z == r.view.rows
    <3> HIDE DEF x, rows
    <3>4. z = Append(rows, x)
      BY <3>3
    <3> HIDE DEF z
    <3>5. NamesOf(z) = NamesOf(rows) \union {x.name} /\ NamesOnce(z)
      BY <3>1, <3>2, <3>4, RowMore
    <3> QED BY <3>1, <3>2, <3>5 DEF z
  <2>9. r.view \in ViewType /\ r.view.initialized /\ r.view.model = s.view.model
    BY <1>4, <2>7 DEF Same, StateType
  <2>10. ViewOK(r.view, X \union {u})
    BY <2>4, <2>6, <2>8, <2>9 DEF ViewOK
  <2>11. AddedAt(r, s, u)
    BY <2>2, <2>6 DEF AddedAt, at, q
  <2> QED BY <2>6, <2>7, <2>10, <2>11
<1> QED BY <1>3, <1>4

(* Of the rows q only that of u is made again.                             *)
RowAgain(p, q, l, u) == \A i \in 1..Len(q) : p[i] = IF q[i].name = u THEN UserItem(l, u) ELSE q[i]

(* user_list_changed_cb.                                                   *)
LEMMA WrapperChanged ==
  ASSUME NEW s \in StateType, NEW X, ViewOK(s.view, X), NEW u,
         NEW r, r = user_list_changed_cb(s, u)
  PROVE  /\ Same(r, s) /\ ViewOK(r.view, X) /\ r.view.list = s.view.list
         /\ Len(r.view.rows) = Len(s.view.rows)
         /\ s.view.model = "connected" /\ s.view.list = s.list.users /\ u \in ToSet(s.list.users) =>
              RowAgain(r.view.rows, s.view.rows, s.list, u)
<1> DEFINE at == Place(s.list.users, u)
           q == s.view.list
<1>1. s.list.users \in Seq(Users) /\ q \in Seq(Users) /\ s.view.rows \in Seq(Row) /\ s.view \in ViewType /\ s.list \in ListType
  BY DEF StateType, ListType, ViewType
<1>2. s.view.model = "connected" => s.view.initialized
  BY NoViewIs DEF ViewOK
<1>3. CASE ~s.view.initialized \/ at \notin DOMAIN q
  <2>1. r = s
    BY <1>3, Zenon DEF user_list_changed_cb
  <2>2. ~(s.view.model = "connected" /\ q = s.list.users /\ u \in ToSet(s.list.users))
    <3>1. ASSUME q = s.list.users, u \in ToSet(s.list.users) PROVE at \in DOMAIN q
      BY <1>1, <3>1, PlaceIs
    <3> HIDE DEF at, q
    <3> QED BY <1>2, <1>3, <3>1
  <2> QED BY <2>1, <2>2 DEF Same
<1>4. CASE s.view.initialized /\ at \in DOMAIN q
  <2> DEFINE w == q[at]
  <2>1. r = cb_userChanged(s, w)
    BY <1>4, Zenon DEF user_list_changed_cb
  <2>2. w \in Users
    <3> HIDE DEF at, q
    <3> QED BY <1>1, <1>4
  <2>3. q = s.list.users /\ u \in ToSet(s.list.users) => w = u
    BY <1>1, PlaceIs
  <2> HIDE DEF w, at
  <2>4. /\ Same(r, s) /\ r.view.list = s.view.list
        /\ s.view.model # "connected" => r.view.rows = s.view.rows
        /\ Len(r.view.rows) = Len(s.view.rows)
        /\ s.view.model = "connected" =>
             \A i \in 1..Len(s.view.rows) :
               r.view.rows[i] = IF s.view.rows[i].name = w THEN UserItem(s.list, w) ELSE s.view.rows[i]
    BY <2>1, <2>2, RowChanged
  <2>5. ASSUME s.view.model = "connected" PROVE NamesOnce(r.view.rows) /\ NamesOf(r.view.rows) = X
    <3>1. UserItem(s.list, w).name = w
      BY <1>1, <2>2, ItemIs
    <3>2. \A i \in 1..Len(s.view.rows) : r.view.rows[i].name = s.view.rows[i].name
      BY <2>4, <2>5, <3>1
    <3>3. NamesOnce(s.view.rows) /\ NamesOf(s.view.rows) = X
      BY <2>5 DEF ViewOK
    <3> QED BY <2>4, <3>2, <3>3 DEF NamesOnce, NamesOf
  <2>6. r.view \in ViewType /\ r.view.initialized /\ r.view.model = s.view.model
    BY <1>4, <2>4 DEF Same, StateType
  <2>7. ViewOK(r.view, X)
    BY <1>4, <2>4, <2>5, <2>6 DEF ViewOK
  <2>8. ASSUME s.view.model = "connected", q = s.list.users, u \in ToSet(s.list.users), NEW i \in 1..Len(s.view.rows)
        PROVE r.view.rows[i] = IF s.view.rows[i].name = u THEN UserItem(s.list, u) ELSE s.view.rows[i]
    BY <2>3, <2>4, <2>8
  <2> QED BY <2>4, <2>7, <2>8 DEF q, RowAgain
<1> QED BY <1>3, <1>4

(* user_list_removed_cb.                                                   *)
LEMMA WrapperRemoved ==
  ASSUME NEW s \in StateType, NEW X, ViewOK(s.view, X), NEW u \in Users,
         NEW r, r = user_list_removed_cb(s, u)
  PROVE  /\ Same(r, s) /\ ViewOK(r.view, X \ {u})
         /\ s.view.initialized /\ u \in X => r.view.list = RemoveFirst(s.view.list, u)
         /\ s.view.model = "connected" => RowsFrom(r.view.rows, s.view.rows)
<1> DEFINE q == s.view.list
           p == RemoveFirst(q, u)
<1>1. s.view \in ViewType /\ q \in Seq(Users) /\ s.view.rows \in Seq(Row)
  BY DEF StateType, ViewType
<1>2. s.view.model = "connected" => s.view.initialized
  BY NoViewIs DEF ViewOK
<1>3. CASE u \notin ToSet(q)
  <2>1. r = s /\ RowsFrom(s.view.rows, s.view.rows)
    BY <1>3, Zenon DEF user_list_removed_cb, RowsFrom
  <2>2. CASE ~s.view.initialized
    BY <1>2, <2>1, <2>2 DEF Same, ViewOK
  <2>3. CASE s.view.initialized
    <3>1. X \ {u} = X /\ u \notin X
      BY <1>3, <2>3 DEF ViewOK
    <3> QED BY <2>1, <2>3, <3>1 DEF Same
  <2> QED BY <2>2, <2>3
<1>4. CASE u \in ToSet(q)
  <2> DEFINE t == WithWrappers(s, p)
  <2>1. r = cb_userRemoved(t, u)
    BY <1>4, Zenon DEF user_list_removed_cb, WithWrappers
  <2>2. s.view.initialized
    BY <1>4, NoViewIs DEF ViewOK
  <2>3. Once(q) /\ ToSet(q) = X
    BY <2>2 DEF ViewOK
  <2>4. p \in Seq(Users) /\ Once(p) /\ ToSet(p) = X \ {u}
    <3> HIDE DEF q
    <3> QED BY <1>1, <1>4, <2>3, RemovedFirst
  <2> HIDE DEF p, q
  <2>5. t \in StateType /\ Same(t, s) /\ t.view.rows = s.view.rows /\ t.view.list = p
    BY <2>4, SetWrappers DEF Same
  <2> HIDE DEF t
  <2>6. s.view.model = "connected" => NamesOnce(s.view.rows) /\ NamesOf(s.view.rows) = X
    BY DEF ViewOK
  <2>7. t.view.model = "connected" => NamesOnce(t.view.rows) /\ u \in NamesOf(t.view.rows)
    BY <1>4, <2>3, <2>5, <2>6 DEF Same
  <2>8. /\ Same(r, t) /\ r.view.list = t.view.list
        /\ t.view.model = "connected" =>
             /\ NamesOnce(r.view.rows) /\ NamesOf(r.view.rows) = NamesOf(t.view.rows) \ {u}
             /\ RowsFrom(r.view.rows, t.view.rows)
    BY <2>1, <2>5, <2>7, RowRemoved
  <2>9. Same(r, s)
    BY <2>5, <2>8 DEF Same
  <2>10. r.view \in ViewType /\ r.view.initialized /\ r.view.model = s.view.model /\ t.view.model = s.view.model
    BY <2>2, <2>5, <2>9 DEF Same, StateType
  <2>11. ViewOK(r.view, X \ {u})
    BY <2>4, <2>5, <2>6, <2>8, <2>10 DEF ViewOK
  <2> QED BY <2>5, <2>8, <2>9, <2>10, <2>11 DEF p, q
<1> QED BY <1>3, <1>4

(***************************************************************************)
(* What is told to everyone, one user after the other                      *)
(***************************************************************************)

EmitAll(s, q) == FoldLeft(emit_added, s, q)
ChangeAll(s, q) == FoldLeft(user_changed_cb, s, q)
RemoveOne(s, u, shown) == IF u \in shown THEN s ELSE Freed(user_removed_cb(s, u), u)
RemoveAll(s, q, shown) == FoldLeft(LAMBDA p, u : RemoveOne(p, u, shown), s, q)

LEMMA WrapperAddedType ==
  ASSUME NEW s \in StateType, NEW u \in ToSet(s.list.users), NEW r, r = emit_added(s, u)
  PROVE  Same(r, s)
<1> DEFINE at == Place(s.list.users, u)
           q == s.view.list
           p == IF at > Len(q) THEN Append(q, u) ELSE InsertAt(q, at, u)
<1>1. s.list.users \in Seq(Users) /\ q \in Seq(Users)
  BY DEF StateType, ListType, ViewType
<1>2. u \in Users /\ at \in 1..Len(s.list.users) /\ Len(s.list.users) \in Nat /\ Len(q) \in Nat
  BY <1>1, InSeq, PlaceIs
<1>3. CASE ~s.view.initialized
  <2>1. r = s
    BY <1>3, Zenon DEF emit_added, user_list_added_cb
  <2> QED BY <2>1 DEF Same
<1>4. CASE s.view.initialized
  <2> DEFINE t == WithWrappers(s, p)
  <2>1. r = cb_userAdded(t, u)
    BY <1>4, Zenon DEF emit_added, user_list_added_cb, WithWrappers
  <2>2. p \in Seq(Users)
    <3>1. CASE at > Len(q)
      BY <1>1, <1>2, <3>1
    <3>2. CASE ~(at > Len(q))
      <4>1. p = InsertAt(q, at, u)
        BY <3>2
      <4>2. at \in 1..(Len(q) + 1)
        <5> HIDE DEF at, q
        <5> QED BY <1>2, <3>2
      <4> HIDE DEF p, at, q
      <4> QED BY <1>1, <1>2, <4>1, <4>2, Inserted
    <3> QED BY <3>1, <3>2
  <2> HIDE DEF p
  <2>3. t \in StateType /\ Same(t, s)
    BY <2>2, SetWrappers DEF Same
  <2> HIDE DEF t
  <2>4. Same(r, t)
    BY <1>2, <2>1, <2>3, RowAdded
  <2> QED BY <2>3, <2>4 DEF Same
<1> QED BY <1>3, <1>4

(* New users.                                                              *)
EmitRun(r, q, st) ==
  /\ r \in [0..Len(q) -> {t \in StateType : Same(t, st)}]
  /\ r[0] = st
  /\ \A i \in 1..Len(q) : r[i] = emit_added(r[i - 1], q[i])

LEMMA EmitSteps ==
  ASSUME NEW st \in StateType, NEW q \in Seq(ToSet(st.list.users))
  PROVE  \E r : EmitRun(r, q, st) /\ EmitAll(st, q) = r[Len(q)]
<1> DEFINE n == Len(q)
           A == {t \in StateType : Same(t, st)}
           Step(g, s) == IF s = {} THEN st ELSE emit_added(g[s \ {Max(s)}], q[Max(s)])
           g == CHOOSE g : g = [s \in SUBSET (1..n) |-> Step(g, s)]
           F == [i \in 1..n |-> [a \in A |-> emit_added(a, q[i])]]
           r == [i \in 0..n |-> g[1..i]]
<1>1. n \in Nat /\ DOMAIN q = 1..n /\ st \in A
  BY DEF Same
<1>2. FoldLeft(emit_added, st, q) = g[1..n]
  <2>1. FoldLeft(emit_added, st, q)
          = (CHOOSE f : f = [s \in SUBSET (DOMAIN q) |-> Step(f, s)])[DOMAIN q]
    BY Zenon DEF FoldLeft, MapThenFoldSet
  <2> QED BY <1>1, <2>1, Zenon
<1>3. ASSUME NEW a \in A, NEW i \in 1..n PROVE emit_added(a, q[i]) \in A
  <2>1. a \in StateType /\ Same(a, st)
    OBVIOUS
  <2>2. q[i] \in ToSet(st.list.users)
    OBVIOUS
  <2>3. Same(emit_added(a, q[i]), a)
    BY <2>1, <2>2, WrapperAddedType DEF Same
  <2>4. Same(emit_added(a, q[i]), st)
    BY <2>1, <2>3 DEF Same
  <2> QED BY <2>4 DEF Same
<1>4. F \in [1..n -> [A -> A]] /\ \A i \in 1..n, a \in A : F[i][a] = emit_added(a, q[i])
  BY <1>3, Zenon
<1> HIDE DEF n, F, A
<1>5. PICK f \in [SUBSET (1..n) -> A] : FoldOf(f, n, st, F)
  BY <1>1, <1>4, FoldExists
<1>6. ASSUME NEW s \in SUBSET (1..n) PROVE f[s] = Step(f, s)
  <2>1. ASSUME s # {} PROVE F[Max(s)][f[s \ {Max(s)}]] = emit_added(f[s \ {Max(s)}], q[Max(s)])
    <3>1. Max(s) \in 1..n
      BY <1>1, <2>1, MaxOfPlaces
    <3>2. s \ {Max(s)} \in SUBSET (1..n)
      OBVIOUS
    <3>3. f[s \ {Max(s)}] \in A
      BY <3>2, Zenon
    <3> QED BY <1>4, <3>1, <3>3, Zenon
  <2>2. f[s] = IF s = {} THEN st ELSE F[Max(s)][f[s \ {Max(s)}]]
    BY <1>5, Zenon DEF FoldOf
  <2> QED BY <2>1, <2>2, Zenon
<1>7. f = [s \in SUBSET (1..n) |-> Step(f, s)]
  BY <1>6, Zenon
<1>8. g = [s \in SUBSET (1..n) |-> Step(g, s)]
  BY <1>7, Zenon
<1> HIDE DEF g
<1>9. \A s \in SUBSET (1..n) : g[s] = Step(g, s)
  BY <1>8, Zenon
<1>10. r[0] = st
  <2>1. 1..0 = {} /\ 1..0 \in SUBSET (1..n) /\ 0 \in 0..n
    BY <1>1
  <2>2. g[1..0] = st
    BY <1>9, <2>1, Zenon
  <2> QED BY <2>1, <2>2, Zenon
<1>11. ASSUME NEW i \in 1..n PROVE r[i] = emit_added(r[i - 1], q[i])
  <2>0. i - 1 \in 0..n /\ i \in 0..n /\ i \in Nat /\ i <= n /\ i \in 1..i
    BY <1>1
  <2>1. i - 1 \in 0..n /\ i \in 0..n /\ 1..i \in SUBSET (1..n) /\ 1..i # {}
    <3>1. \A x \in 1..i : x \in 1..n
      BY <1>1, <2>0
    <3> QED BY <2>0, <3>1, Zenon
  <2>5. (1..i) \ {i} = 1..(i - 1)
    BY <1>1
  <2>2. Max(1..i) = i
    <3>1. i - 1 \in Nat /\ (i - 1) + 1 = i
      BY <1>1
    <3>2. 1..i \in SUBSET (1..i) /\ i \in 1..i
      BY <1>1
    <3> QED BY <3>1, <3>2, MaxOfPrefix
  <2>3. g[1..i] = emit_added(g[1..(i - 1)], q[i])
    BY <1>9, <2>1, <2>2, <2>5, Zenon
  <2>4. r[i] = g[1..i] /\ r[i - 1] = g[1..(i - 1)]
    BY <2>1, Zenon
  <2> QED BY <2>3, <2>4, Zenon
<1>12. FoldLeft(emit_added, st, q) = r[n]
  <2>1. n \in 0..n
    BY <1>1
  <2> QED BY <1>2, <2>1, Zenon
<1>13. DOMAIN r = 0..n /\ r = [i \in 0..n |-> r[i]]
  BY Zenon
<1> HIDE DEF r
<1>14. ASSUME NEW k \in 0..n PROVE r[k] \in A
  <2> DEFINE G == {i \in 0..n : r[i] \in A}
  <2>1. 0 \in G
    BY <1>1, <1>10
  <2>2. ASSUME NEW i \in 1..n, i - 1 \in G PROVE i \in G
    <3>1. r[i - 1] \in A /\ i \in 0..n
      BY <2>2
    <3>2. emit_added(r[i - 1], q[i]) \in A
      BY <1>3, <3>1, Zenon
    <3> QED BY <1>11, <3>1, <3>2, Zenon
  <2> HIDE DEF G
  <2>3. k \in Nat /\ \A i \in 1..k : i \in 1..n
    BY <1>1
  <2>4. k \in G
    BY <2>1, <2>2, <2>3, UpTo
  <2> QED BY <2>4 DEF G
<1>15. r \in [0..n -> A]
  BY <1>13, <1>14, Zenon
<1>16. EmitRun(r, q, st)
  BY <1>10, <1>11, <1>15, Zenon DEF EmitRun, n, A
<1>17. EmitAll(st, q) = r[n]
  BY <1>12, Zenon DEF EmitAll
<1> QED BY <1>16, <1>17, Zenon DEF n

(* Changed users.                                                          *)
ChangeRun(r, q, st, X) ==
  /\ r \in [0..Len(q) -> {t \in StateType : Same(t, st) /\ ViewOK(t.view, X)}]
  /\ r[0] = st
  /\ \A i \in 1..Len(q) : r[i] = user_changed_cb(r[i - 1], q[i])

LEMMA ChangeSteps ==
  ASSUME NEW st \in StateType, NEW X, ViewOK(st.view, X), NEW q \in Seq(Users)
  PROVE  \E r : ChangeRun(r, q, st, X) /\ ChangeAll(st, q) = r[Len(q)]
<1> DEFINE n == Len(q)
           A == {t \in StateType : Same(t, st) /\ ViewOK(t.view, X)}
           Step(g, s) == IF s = {} THEN st ELSE user_changed_cb(g[s \ {Max(s)}], q[Max(s)])
           g == CHOOSE g : g = [s \in SUBSET (1..n) |-> Step(g, s)]
           F == [i \in 1..n |-> [a \in A |-> user_changed_cb(a, q[i])]]
           r == [i \in 0..n |-> g[1..i]]
<1>1. n \in Nat /\ DOMAIN q = 1..n /\ st \in A
  BY DEF Same
<1>2. FoldLeft(user_changed_cb, st, q) = g[1..n]
  <2>1. FoldLeft(user_changed_cb, st, q)
          = (CHOOSE f : f = [s \in SUBSET (DOMAIN q) |-> Step(f, s)])[DOMAIN q]
    BY Zenon DEF FoldLeft, MapThenFoldSet
  <2> QED BY <1>1, <2>1, Zenon
<1>3. ASSUME NEW a \in A, NEW i \in 1..n PROVE user_changed_cb(a, q[i]) \in A
  <2>1. a \in StateType /\ Same(a, st) /\ ViewOK(a.view, X)
    OBVIOUS
  <2>2. Same(user_changed_cb(a, q[i]), a) /\ ViewOK(user_changed_cb(a, q[i]).view, X)
    BY <2>1, WrapperChanged DEF user_changed_cb
  <2>3. Same(user_changed_cb(a, q[i]), st)
    BY <2>1, <2>2 DEF Same
  <2> QED BY <2>2, <2>3 DEF Same
<1>4. F \in [1..n -> [A -> A]] /\ \A i \in 1..n, a \in A : F[i][a] = user_changed_cb(a, q[i])
  BY <1>3, Zenon
<1> HIDE DEF n, F, A
<1>5. PICK f \in [SUBSET (1..n) -> A] : FoldOf(f, n, st, F)
  BY <1>1, <1>4, FoldExists
<1>6. ASSUME NEW s \in SUBSET (1..n) PROVE f[s] = Step(f, s)
  <2>1. ASSUME s # {} PROVE F[Max(s)][f[s \ {Max(s)}]] = user_changed_cb(f[s \ {Max(s)}], q[Max(s)])
    <3>1. Max(s) \in 1..n
      BY <1>1, <2>1, MaxOfPlaces
    <3>2. s \ {Max(s)} \in SUBSET (1..n)
      OBVIOUS
    <3>3. f[s \ {Max(s)}] \in A
      BY <3>2, Zenon
    <3> QED BY <1>4, <3>1, <3>3, Zenon
  <2>2. f[s] = IF s = {} THEN st ELSE F[Max(s)][f[s \ {Max(s)}]]
    BY <1>5, Zenon DEF FoldOf
  <2> QED BY <2>1, <2>2, Zenon
<1>7. f = [s \in SUBSET (1..n) |-> Step(f, s)]
  BY <1>6, Zenon
<1>8. g = [s \in SUBSET (1..n) |-> Step(g, s)]
  BY <1>7, Zenon
<1> HIDE DEF g
<1>9. \A s \in SUBSET (1..n) : g[s] = Step(g, s)
  BY <1>8, Zenon
<1>10. r[0] = st
  <2>1. 1..0 = {} /\ 1..0 \in SUBSET (1..n) /\ 0 \in 0..n
    BY <1>1
  <2>2. g[1..0] = st
    BY <1>9, <2>1, Zenon
  <2> QED BY <2>1, <2>2, Zenon
<1>11. ASSUME NEW i \in 1..n PROVE r[i] = user_changed_cb(r[i - 1], q[i])
  <2>0. i - 1 \in 0..n /\ i \in 0..n /\ i \in Nat /\ i <= n /\ i \in 1..i
    BY <1>1
  <2>1. i - 1 \in 0..n /\ i \in 0..n /\ 1..i \in SUBSET (1..n) /\ 1..i # {}
    <3>1. \A x \in 1..i : x \in 1..n
      BY <1>1, <2>0
    <3> QED BY <2>0, <3>1, Zenon
  <2>5. (1..i) \ {i} = 1..(i - 1)
    BY <1>1
  <2>2. Max(1..i) = i
    <3>1. i - 1 \in Nat /\ (i - 1) + 1 = i
      BY <1>1
    <3>2. 1..i \in SUBSET (1..i) /\ i \in 1..i
      BY <1>1
    <3> QED BY <3>1, <3>2, MaxOfPrefix
  <2>3. g[1..i] = user_changed_cb(g[1..(i - 1)], q[i])
    BY <1>9, <2>1, <2>2, <2>5, Zenon
  <2>4. r[i] = g[1..i] /\ r[i - 1] = g[1..(i - 1)]
    BY <2>1, Zenon
  <2> QED BY <2>3, <2>4, Zenon
<1>12. FoldLeft(user_changed_cb, st, q) = r[n]
  <2>1. n \in 0..n
    BY <1>1
  <2> QED BY <1>2, <2>1, Zenon
<1>13. DOMAIN r = 0..n /\ r = [i \in 0..n |-> r[i]]
  BY Zenon
<1> HIDE DEF r
<1>14. ASSUME NEW k \in 0..n PROVE r[k] \in A
  <2> DEFINE G == {i \in 0..n : r[i] \in A}
  <2>1. 0 \in G
    BY <1>1, <1>10
  <2>2. ASSUME NEW i \in 1..n, i - 1 \in G PROVE i \in G
    <3>1. r[i - 1] \in A /\ i \in 0..n
      BY <2>2
    <3>2. user_changed_cb(r[i - 1], q[i]) \in A
      BY <1>3, <3>1, Zenon
    <3> QED BY <1>11, <3>1, <3>2, Zenon
  <2> HIDE DEF G
  <2>3. k \in Nat /\ \A i \in 1..k : i \in 1..n
    BY <1>1
  <2>4. k \in G
    BY <2>1, <2>2, <2>3, UpTo
  <2> QED BY <2>4 DEF G
<1>15. r \in [0..n -> A]
  BY <1>13, <1>14, Zenon
<1>16. ChangeRun(r, q, st, X)
  BY <1>10, <1>11, <1>15, Zenon DEF ChangeRun, n, A
<1>17. ChangeAll(st, q) = r[n]
  BY <1>12, Zenon DEF ChangeAll
<1> QED BY <1>16, <1>17, Zenon DEF n

(* The fields of the list that removing users leaves alone.                *)
LikeList(l, m) ==
  /\ l \in ListType /\ l.state = m.state /\ l.users = m.users /\ l.info = m.info /\ l.paths = m.paths
  /\ l.monitor = m.monitor /\ l.sessions = m.sessions /\ l.session_added_signal = m.session_added_signal
  /\ l.asking = m.asking /\ l.session_paths = m.session_paths

(* A state on the way.                                                     *)
Removing(t, s) ==
  /\ t \in StateType /\ LikeList(t.list, s.list)
  /\ t.view.initialized = s.view.initialized /\ t.view.model = s.view.model
  /\ \E X : ViewOK(t.view, X)

LEMMA FreedIs ==
  ASSUME NEW s \in StateType, NEW u, NEW r, r = Freed(s, u)
  PROVE  /\ r \in StateType /\ LikeList(r.list, s.list) /\ r.view = s.view /\ r.removing = s.removing
         /\ r.list.watched = s.list.watched \ {u}
<1> DEFINE l == [s.list EXCEPT !.watched = @ \ {u}, !.loaded_dmrc = @ \ {u}]
<1>1. s.list \in ListType
  BY DEF StateType
<1>2. l \in ListType /\ LikeList(l, s.list) /\ l.watched = s.list.watched \ {u}
  BY <1>1 DEF ListType, LikeList
<1>3. r = [s EXCEPT !.list = l]
  BY <1>1 DEF Freed, StateType, ListType
<1> HIDE DEF l
<1> QED BY <1>2, <1>3 DEF StateType

(* r is s with the user removed unless it is shown.                        *)
OneRemoved(r, s, X, u, shown) ==
  /\ r \in StateType /\ LikeList(r.list, s.list)
  /\ r.view.initialized = s.view.initialized /\ r.view.model = s.view.model
  /\ ViewOK(r.view, X \ ({u} \ shown))
  /\ r.removing = s.removing \union IF process = "daemon" THEN {u} \ shown ELSE {}

LEMMA RemovedOne ==
  ASSUME NEW s \in StateType, NEW X, ViewOK(s.view, X), NEW u \in Users, NEW shown,
         process = "daemon" => ~s.view.initialized, NEW r, r = RemoveOne(s, u, shown)
  PROVE  OneRemoved(r, s, X, u, shown)
<1>1. CASE u \in shown
  <2>1. r = s /\ X \ ({u} \ shown) = X /\ {u} \ shown = {}
    BY <1>1 DEF RemoveOne
  <2> QED BY <2>1 DEF OneRemoved, LikeList, StateType
<1>2. CASE u \notin shown
  <2> DEFINE t == user_removed_cb(s, u)
  <2>1. r = Freed(t, u)
    BY <1>2 DEF RemoveOne
  <2>2. {u} \ shown = {u}
    BY <1>2
  <2>3. CASE process = "daemon"
    <3>1. t = [s EXCEPT !.removing = @ \union {u}]
      BY <2>3 DEF user_removed_cb
    <3> HIDE DEF t
    <3>2. t \in StateType /\ t.list = s.list /\ t.view = s.view /\ t.removing = s.removing \union {u}
      BY <3>1 DEF StateType
    <3>3. r \in StateType /\ LikeList(r.list, s.list) /\ r.view = s.view /\ r.removing = s.removing \union {u}
      BY <2>1, <3>2, FreedIs
    <3>4. ViewOK(s.view, X \ {u})
      BY <2>3, NoViewIs DEF ViewOK
    <3> QED BY <2>2, <2>3, <3>3, <3>4, NoViewIs DEF OneRemoved
  <2>4. CASE process # "daemon"
    <3>1. t = user_list_removed_cb(s, u)
      BY <2>4, Zenon DEF user_removed_cb
    <3> HIDE DEF t
    <3>2. Same(t, s) /\ ViewOK(t.view, X \ {u})
      BY <3>1, WrapperRemoved
    <3>3. r \in StateType /\ LikeList(r.list, s.list) /\ r.view = t.view /\ r.removing = s.removing
      BY <2>1, <3>2, FreedIs DEF Same
    <3> QED BY <2>2, <2>4, <3>2, <3>3 DEF Same, OneRemoved
  <2> QED BY <2>3, <2>4
<1> QED BY <1>1, <1>2

(* Users that are missing.                                                 *)
RemoveRun(r, q, st, shown) ==
  /\ r \in [0..Len(q) -> {t \in StateType : Removing(t, st)}]
  /\ r[0] = st
  /\ \A i \in 1..Len(q) : r[i] = RemoveOne(r[i - 1], q[i], shown)

LEMMA RemoveSteps ==
  ASSUME NEW st \in StateType, NEW X, ViewOK(st.view, X), NEW q \in Seq(Users), NEW shown,
         process = "daemon" => ~st.view.initialized
  PROVE  \E r : RemoveRun(r, q, st, shown) /\ RemoveAll(st, q, shown) = r[Len(q)]
<1> DEFINE n == Len(q)
           A == {t \in StateType : Removing(t, st)}
           Step(g, s) == IF s = {} THEN st ELSE RemoveOne(g[s \ {Max(s)}], q[Max(s)], shown)
           g == CHOOSE g : g = [s \in SUBSET (1..n) |-> Step(g, s)]
           F == [i \in 1..n |-> [a \in A |-> RemoveOne(a, q[i], shown)]]
           r == [i \in 0..n |-> g[1..i]]
<1>1. n \in Nat /\ DOMAIN q = 1..n /\ st \in A
  BY DEF Removing, LikeList, StateType
<1>2. FoldLeft(LAMBDA p, u : RemoveOne(p, u, shown), st, q) = g[1..n]
  <2>1. FoldLeft(LAMBDA p, u : RemoveOne(p, u, shown), st, q)
          = (CHOOSE f : f = [s \in SUBSET (DOMAIN q) |-> Step(f, s)])[DOMAIN q]
    BY Zenon DEF FoldLeft, MapThenFoldSet
  <2> QED BY <1>1, <2>1, Zenon
<1>3. ASSUME NEW a \in A, NEW i \in 1..n PROVE RemoveOne(a, q[i], shown) \in A
  <2>1. a \in StateType /\ Removing(a, st) /\ q[i] \in Users
    OBVIOUS
  <2>2. PICK Y : ViewOK(a.view, Y)
    BY <2>1 DEF Removing
  <2>3. process = "daemon" => ~a.view.initialized
    BY <2>1 DEF Removing
  <2> DEFINE b == RemoveOne(a, q[i], shown)
  <2>4. /\ b \in StateType /\ LikeList(b.list, a.list)
        /\ b.view.initialized = a.view.initialized /\ b.view.model = a.view.model
        /\ ViewOK(b.view, Y \ ({q[i]} \ shown))
    <3> DEFINE w == q[i]
    <3>1. w \in Users /\ b = RemoveOne(a, w, shown)
      BY <2>1
    <3> HIDE DEF w, b
    <3>2. /\ b \in StateType /\ LikeList(b.list, a.list)
          /\ b.view.initialized = a.view.initialized /\ b.view.model = a.view.model
          /\ ViewOK(b.view, Y \ ({w} \ shown))
      <4>1. OneRemoved(b, a, Y, w, shown)
        BY <2>1, <2>2, <2>3, <3>1, RemovedOne
      <4> QED BY <4>1 DEF OneRemoved
    <3> QED BY <3>2 DEF w
  <2> HIDE DEF b
  <2>5. Removing(b, st)
    BY <2>1, <2>4 DEF Removing, LikeList
  <2> QED BY <2>4, <2>5 DEF b
<1>4. F \in [1..n -> [A -> A]] /\ \A i \in 1..n, a \in A : F[i][a] = RemoveOne(a, q[i], shown)
  BY <1>3, Zenon
<1> HIDE DEF n, F, A
<1>5. PICK f \in [SUBSET (1..n) -> A] : FoldOf(f, n, st, F)
  BY <1>1, <1>4, FoldExists
<1>6. ASSUME NEW s \in SUBSET (1..n) PROVE f[s] = Step(f, s)
  <2>1. ASSUME s # {} PROVE F[Max(s)][f[s \ {Max(s)}]] = RemoveOne(f[s \ {Max(s)}], q[Max(s)], shown)
    <3>1. Max(s) \in 1..n
      BY <1>1, <2>1, MaxOfPlaces
    <3>2. s \ {Max(s)} \in SUBSET (1..n)
      OBVIOUS
    <3>3. f[s \ {Max(s)}] \in A
      BY <3>2, Zenon
    <3> QED BY <1>4, <3>1, <3>3, Zenon
  <2>2. f[s] = IF s = {} THEN st ELSE F[Max(s)][f[s \ {Max(s)}]]
    BY <1>5, Zenon DEF FoldOf
  <2> QED BY <2>1, <2>2, Zenon
<1>7. f = [s \in SUBSET (1..n) |-> Step(f, s)]
  BY <1>6, Zenon
<1>8. g = [s \in SUBSET (1..n) |-> Step(g, s)]
  BY <1>7, Zenon
<1> HIDE DEF g
<1>9. \A s \in SUBSET (1..n) : g[s] = Step(g, s)
  BY <1>8, Zenon
<1>10. r[0] = st
  <2>1. 1..0 = {} /\ 1..0 \in SUBSET (1..n) /\ 0 \in 0..n
    BY <1>1
  <2>2. g[1..0] = st
    BY <1>9, <2>1, Zenon
  <2> QED BY <2>1, <2>2, Zenon
<1>11. ASSUME NEW i \in 1..n PROVE r[i] = RemoveOne(r[i - 1], q[i], shown)
  <2>0. i - 1 \in 0..n /\ i \in 0..n /\ i \in Nat /\ i <= n /\ i \in 1..i
    BY <1>1
  <2>1. i - 1 \in 0..n /\ i \in 0..n /\ 1..i \in SUBSET (1..n) /\ 1..i # {}
    <3>1. \A x \in 1..i : x \in 1..n
      BY <1>1, <2>0
    <3> QED BY <2>0, <3>1, Zenon
  <2>5. (1..i) \ {i} = 1..(i - 1)
    BY <1>1
  <2>2. Max(1..i) = i
    <3>1. i - 1 \in Nat /\ (i - 1) + 1 = i
      BY <1>1
    <3>2. 1..i \in SUBSET (1..i) /\ i \in 1..i
      BY <1>1
    <3> QED BY <3>1, <3>2, MaxOfPrefix
  <2>3. g[1..i] = RemoveOne(g[1..(i - 1)], q[i], shown)
    BY <1>9, <2>1, <2>2, <2>5, Zenon
  <2>4. r[i] = g[1..i] /\ r[i - 1] = g[1..(i - 1)]
    BY <2>1, Zenon
  <2> QED BY <2>3, <2>4, Zenon
<1>12. FoldLeft(LAMBDA p, u : RemoveOne(p, u, shown), st, q) = r[n]
  <2>1. n \in 0..n
    BY <1>1
  <2> QED BY <1>2, <2>1, Zenon
<1>13. DOMAIN r = 0..n /\ r = [i \in 0..n |-> r[i]]
  BY Zenon
<1> HIDE DEF r
<1>14. ASSUME NEW k \in 0..n PROVE r[k] \in A
  <2> DEFINE G == {i \in 0..n : r[i] \in A}
  <2>1. 0 \in G
    BY <1>1, <1>10
  <2>2. ASSUME NEW i \in 1..n, i - 1 \in G PROVE i \in G
    <3>1. r[i - 1] \in A /\ i \in 0..n
      BY <2>2
    <3>2. RemoveOne(r[i - 1], q[i], shown) \in A
      BY <1>3, <3>1, Zenon
    <3> QED BY <1>11, <3>1, <3>2, Zenon
  <2> HIDE DEF G
  <2>3. k \in Nat /\ \A i \in 1..k : i \in 1..n
    BY <1>1
  <2>4. k \in G
    BY <2>1, <2>2, <2>3, UpTo
  <2> QED BY <2>4 DEF G
<1>15. r \in [0..n -> A]
  BY <1>13, <1>14, Zenon
<1>16. RemoveRun(r, q, st, shown)
  BY <1>10, <1>11, <1>15, Zenon DEF RemoveRun, n, A
<1>17. RemoveAll(st, q, shown) = r[n]
  BY <1>12, Zenon DEF RemoveAll
<1> QED BY <1>16, <1>17, Zenon DEF n

(* What the first k of a sequence are.                                     *)
First(q, k) == {q[j] : j \in 1..k}

LEMMA FirstIs ==
  ASSUME NEW S, NEW q \in Seq(S)
  PROVE  /\ First(q, 0) = {} /\ First(q, Len(q)) = ToSet(q)
         /\ \A i \in 1..Len(q) : First(q, i) = First(q, i - 1) \union {q[i]}
         /\ Once(q) => \A i \in 1..Len(q) : q[i] \notin First(q, i - 1)
<1> DEFINE n == Len(q)
<1>1. n \in Nat
  OBVIOUS
<1>2. First(q, 0) = {}
  BY DEF First
<1>3. First(q, n) = ToSet(q)
  <2>1. \A x : x \in ToSet(q) <=> \E i \in 1..n : q[i] = x
    BY InSeq
  <2> QED BY <2>1 DEF First
<1> HIDE DEF n
<1>4. ASSUME NEW i \in 1..n PROVE First(q, i) = First(q, i - 1) \union {q[i]}
  <2>1. \A j : j \in 1..i <=> j \in 1..(i - 1) \/ j = i
    BY <1>1
  <2> QED BY <2>1 DEF First
<1>5. ASSUME Once(q), NEW i \in 1..n PROVE q[i] \notin First(q, i - 1)
  <2>1. ASSUME NEW j \in 1..(i - 1) PROVE q[j] # q[i]
    <3>1. j \in 1..n /\ j # i
      BY <1>1
    <3> QED BY <1>5, <3>1 DEF Once, n
  <2> QED BY <2>1 DEF First
<1> QED BY <1>2, <1>3, <1>4, <1>5 DEF n

LEMMA EmitAllIs ==
  ASSUME NEW s \in StateType, NEW X, ViewOK(s.view, X), NEW q \in Seq(ToSet(s.list.users)), Once(q),
         ToSet(q) \intersect X = {}, NEW r, r = EmitAll(s, q)
  PROVE  Same(r, s) /\ ViewOK(r.view, X \union ToSet(q))
<1> DEFINE n == Len(q)
           V == ToSet(s.list.users)
<1>1. n \in Nat /\ \A i \in 1..n : q[i] \in V
  OBVIOUS
<1>2. PICK f : EmitRun(f, q, s) /\ EmitAll(s, q) = f[n]
  BY EmitSteps
<1>3. /\ First(q, 0) = {} /\ First(q, n) = ToSet(q)
      /\ \A i \in 1..n : First(q, i) = First(q, i - 1) \union {q[i]} /\ q[i] \notin First(q, i - 1)
  BY FirstIs
<1>4. \A i \in 1..n : q[i] \notin X
  BY <1>1, InSeq
<1> HIDE DEF n
<1>5. /\ f \in [0..n -> {t \in StateType : Same(t, s)}] /\ f[0] = s
      /\ \A i \in 1..n : f[i] = emit_added(f[i - 1], q[i])
  BY <1>2, Zenon DEF EmitRun, n
<1> DEFINE G == {k \in 0..n : ViewOK(f[k].view, X \union First(q, k))}
<1>6. 0 \in G
  <2>1. 0 \in 0..n /\ X \union First(q, 0) = X
    BY <1>1, <1>3
  <2> QED BY <1>5, <2>1, Zenon
<1>7. ASSUME NEW i \in 1..n, i - 1 \in G PROVE i \in G
  <2> DEFINE a == f[i - 1]
             b == f[i]
             Y == X \union First(q, i - 1)
             u == q[i]
  <2>1. i - 1 \in 0..n /\ i \in 0..n
    BY <1>1
  <2>2. a \in StateType /\ Same(a, s) /\ ViewOK(a.view, Y)
    BY <1>5, <1>7, <2>1
  <2>3. u \in V /\ u \notin Y /\ b = emit_added(a, u)
    BY <1>1, <1>3, <1>4, <1>5
  <2>4. X \union First(q, i) = Y \union {u}
    BY <1>3
  <2> HIDE DEF a, b, Y, u, G
  <2>5. u \in ToSet(a.list.users) /\ b = user_list_added_cb(a, u)
    BY <2>2, <2>3 DEF Same, emit_added
  <2>6. ViewOK(b.view, Y \union {u})
    BY <2>2, <2>3, <2>5, WrapperAdded
  <2> QED BY <2>1, <2>4, <2>6 DEF b, G
<1>8. n \in G
  <2> HIDE DEF G
  <2> QED BY <1>1, <1>6, <1>7, UpTo
<1>9. Same(f[n], s)
  BY <1>1, <1>5
<1> QED BY <1>2, <1>3, <1>8, <1>9

LEMMA ChangeAllIs ==
  ASSUME NEW s \in StateType, NEW X, ViewOK(s.view, X), NEW q \in Seq(Users), NEW r, r = ChangeAll(s, q)
  PROVE  Same(r, s) /\ ViewOK(r.view, X)
<1> DEFINE n == Len(q)
<1>1. n \in 0..n
  OBVIOUS
<1>2. PICK f : ChangeRun(f, q, s, X) /\ ChangeAll(s, q) = f[n]
  BY ChangeSteps
<1>3. f \in [0..n -> {t \in StateType : Same(t, s) /\ ViewOK(t.view, X)}]
  BY <1>2, Zenon DEF ChangeRun
<1> QED BY <1>1, <1>2, <1>3

AllRemoved(r, s, X, q, shown) ==
  /\ r \in StateType /\ LikeList(r.list, s.list)
  /\ r.view.initialized = s.view.initialized /\ r.view.model = s.view.model
  /\ ViewOK(r.view, X \ (ToSet(q) \ shown))
  /\ r.removing = s.removing \union IF process = "daemon" THEN ToSet(q) \ shown ELSE {}

LEMMA RemoveAllIs ==
  ASSUME NEW s \in StateType, NEW X, ViewOK(s.view, X), NEW q \in Seq(Users), NEW shown,
         process = "daemon" => ~s.view.initialized, NEW r, r = RemoveAll(s, q, shown)
  PROVE  AllRemoved(r, s, X, q, shown)
<1> DEFINE n == Len(q)
           Gone(S) == IF process = "daemon" THEN S \ shown ELSE {}
<1>1. n \in Nat /\ \A i \in 1..n : q[i] \in Users
  OBVIOUS
<1>2. PICK f : RemoveRun(f, q, s, shown) /\ RemoveAll(s, q, shown) = f[n]
  BY RemoveSteps
<1>3. /\ First(q, 0) = {} /\ First(q, n) = ToSet(q)
      /\ \A i \in 1..n : First(q, i) = First(q, i - 1) \union {q[i]}
  BY FirstIs
<1> HIDE DEF n
<1>5. /\ f \in [0..n -> {t \in StateType : Removing(t, s)}] /\ f[0] = s
      /\ \A i \in 1..n : f[i] = RemoveOne(f[i - 1], q[i], shown)
  BY <1>2, Zenon DEF RemoveRun, n
<1> DEFINE G == {k \in 0..n : /\ ViewOK(f[k].view, X \ (First(q, k) \ shown))
                              /\ f[k].removing = s.removing \union Gone(First(q, k))}
<1>6. 0 \in G
  <2>1. X \ (First(q, 0) \ shown) = X /\ s.removing \union Gone(First(q, 0)) = s.removing
    BY <1>3
  <2>2. 0 \in 0..n
    BY <1>1
  <2> HIDE DEF Gone
  <2> QED BY <1>5, <2>1, <2>2, Zenon
<1>7. ASSUME NEW i \in 1..n, i - 1 \in G PROVE i \in G
  <2> DEFINE a == f[i - 1]
             b == f[i]
             P == First(q, i - 1)
             Y == X \ (P \ shown)
             u == q[i]
  <2>1. i - 1 \in 0..n /\ i \in 0..n
    BY <1>1
  <2>2. a \in StateType /\ Removing(a, s) /\ ViewOK(a.view, Y) /\ a.removing = s.removing \union Gone(P)
    <3> HIDE DEF Gone
    <3> QED BY <1>5, <1>7, <2>1
  <2>3. u \in Users /\ b = RemoveOne(a, u, shown)
    BY <1>1, <1>5
  <2>4. First(q, i) = P \union {u}
    BY <1>3
  <2>5. process = "daemon" => ~a.view.initialized
    BY <2>2 DEF Removing
  <2>6. Y \ ({u} \ shown) = X \ ((P \union {u}) \ shown)
    OBVIOUS
  <2> HIDE DEF a, b, Y, u, G, P
  <2>7. OneRemoved(b, a, Y, u, shown)
    BY <2>2, <2>3, <2>5, RemovedOne
  <2>8. ViewOK(b.view, X \ ((P \union {u}) \ shown))
    BY <2>6, <2>7 DEF OneRemoved
  <2>9. b.removing = s.removing \union Gone(P \union {u})
    BY <2>2, <2>7 DEF OneRemoved
  <2> QED BY <2>1, <2>4, <2>8, <2>9 DEF b, G
<1>8. n \in G
  <2> HIDE DEF G
  <2> QED BY <1>1, <1>6, <1>7, UpTo
<1>9. f[n] \in StateType /\ Removing(f[n], s)
  BY <1>1, <1>5
<1>10. ViewOK(f[n].view, X \ (ToSet(q) \ shown)) /\ f[n].removing = s.removing \union Gone(ToSet(q))
  <2> HIDE DEF Gone
  <2> QED BY <1>3, <1>8
<1> QED BY <1>2, <1>9, <1>10 DEF Removing, AllRemoved

(***************************************************************************)
(* Reading the password file                                               *)
(***************************************************************************)

(* What is known of the users after reading the entries of shown.          *)
ReadInfo(s, shown) ==
  make_passwd_user(update_passwd_user(s.list.info, shown \intersect ToSet(s.list.users)), shown \ ToSet(s.list.users))
Reread(s, shown) == [s EXCEPT !.list.users = Sorted(shown, ReadInfo(s, shown)), !.list.info = ReadInfo(s, shown)]
ChangedUsers(s, shown) ==
  {u \in shown \intersect ToSet(s.list.users) : ReadInfo(s, shown)[u] # s.list.info[u]}

LEMMA LoadIs ==
  ASSUME NEW s, NEW entries, NEW emit
  PROVE  load_passwd_file(s, entries, emit) =
           LET shown == entries \ System
               info == ReadInfo(s, shown)
               s2 == IF emit THEN EmitAll(Reread(s, shown), Sorted(shown \ ToSet(s.list.users), info))
                     ELSE Reread(s, shown)
           IN RemoveAll(ChangeAll(s2, Sorted(ChangedUsers(s, shown), info)), s.list.users, shown)
BY Zenon DEF load_passwd_file, EmitAll, ChangeAll, RemoveAll, RemoveOne, Reread, ReadInfo, ChangedUsers

(* The fields of the list that have nothing to do with the users listed.   *)
SameElse(l, m) ==
  /\ l.state = m.state /\ l.paths = m.paths /\ l.monitor = m.monitor /\ l.sessions = m.sessions
  /\ l.session_added_signal = m.session_added_signal /\ l.asking = m.asking /\ l.session_paths = m.session_paths

LEMMA ReadInfoIs ==
  ASSUME NEW s \in StateType, NEW shown \in SUBSET DOMAIN accounts, AccountsOK(accounts)
  PROVE  /\ ReadInfo(s, shown) \in [Users -> UserInfo]
         /\ \A u \in shown : ReadInfo(s, shown)[u].real = accounts[u].real
<1> DEFINE old == ToSet(s.list.users)
           i0 == s.list.info
           i1 == update_passwd_user(i0, shown \intersect old)
           i2 == make_passwd_user(i1, shown \ old)
<1>1. i0 \in [Users -> UserInfo] /\ shown \subseteq Users
  BY DEF StateType, ListType, AccountsOK
<1>2. \A u \in shown : accounts[u] \in UserInfo /\ accounts[u].real \in Nat
  BY DEF AccountsOK, UserInfo
<1>3. 1 \in SessionNames
  BY UserListAssumption
<1> HIDE DEF old, i0
<1>4. i1 = [u \in Users |-> IF u \in shown \intersect old THEN [i0[u] EXCEPT !.real = accounts[u].real] ELSE i0[u]]
  BY DEF update_passwd_user
<1>5. i1 \in [Users -> UserInfo] /\ \A u \in shown \intersect old : i1[u].real = accounts[u].real
  <2> HIDE DEF i1
  <2>1. ASSUME NEW u \in Users PROVE i1[u] \in UserInfo /\ (u \in shown \intersect old => i1[u].real = accounts[u].real)
    <3>1. i1[u] = IF u \in shown \intersect old THEN [i0[u] EXCEPT !.real = accounts[u].real] ELSE i0[u]
      BY <1>4
    <3>2. i0[u] \in UserInfo
      BY <1>1
    <3> QED BY <1>2, <3>1, <3>2 DEF UserInfo
  <2> QED BY <1>1, <1>4, <2>1
<1> HIDE DEF i1
<1>6. i2 = [u \in Users |-> IF u \in shown \ old THEN [real |-> accounts[u].real, session |-> 1] ELSE i1[u]]
  BY DEF make_passwd_user
<1> HIDE DEF i2
<1>7. i2 \in [Users -> UserInfo] /\ \A u \in shown : i2[u].real = accounts[u].real
  <2>1. ASSUME NEW u \in Users PROVE i2[u] \in UserInfo /\ (u \in shown => i2[u].real = accounts[u].real)
    <3>1. i2[u] = IF u \in shown \ old THEN [real |-> accounts[u].real, session |-> 1] ELSE i1[u]
      BY <1>6
    <3>2. CASE u \in shown \ old
      BY <1>2, <1>3, <3>1, <3>2 DEF UserInfo
    <3>3. CASE u \notin shown \ old
      BY <1>5, <3>1, <3>3
    <3> QED BY <3>2, <3>3
  <2> QED BY <1>1, <1>6, <2>1
<1>8. ReadInfo(s, shown) = i2
  BY DEF ReadInfo, i2, i1, i0, old
<1> QED BY <1>7, <1>8

LEMMA RereadIs ==
  ASSUME NEW s \in StateType, NEW shown \in SUBSET DOMAIN accounts, AccountsOK(accounts),
         NEW r, r = Reread(s, shown)
  PROVE  /\ r \in StateType /\ SameElse(r.list, s.list) /\ r.view = s.view /\ r.removing = s.removing
         /\ r.list.users = Sorted(shown, ReadInfo(s, shown)) /\ r.list.info = ReadInfo(s, shown)
<1> DEFINE info == ReadInfo(s, shown)
           q == Sorted(shown, info)
           l == [s.list EXCEPT !.users = q, !.info = info]
<1>1. s.list \in ListType /\ info \in [Users -> UserInfo]
  BY ReadInfoIs DEF StateType
<1>2. shown \in SUBSET Users
  BY DEF AccountsOK
<1>3. q \in Seq(Users)
  <2> HIDE DEF info
  <2> QED BY <1>2, SortedIs
<1>4. r = [s EXCEPT !.list = l]
  BY <1>1 DEF Reread, StateType, ListType
<1> HIDE DEF info, q
<1>5. l \in ListType /\ SameElse(l, s.list) /\ l.users = q /\ l.info = info
  BY <1>1, <1>3 DEF ListType, SameElse
<1> HIDE DEF l
<1>6. r \in StateType /\ r.list = l /\ r.view = s.view /\ r.removing = s.removing
  BY <1>4, <1>5 DEF StateType
<1> QED BY <1>5, <1>6 DEF q, info

(* r is s after the entries have been read.                                *)
Loads(r, s, shown) ==
  /\ r \in StateType /\ SameElse(r.list, s.list)
  /\ Once(r.list.users) /\ ToSet(r.list.users) = shown
  /\ \A u \in shown : r.list.info[u].real = accounts[u].real
  /\ r.view.initialized = s.view.initialized /\ r.view.model = s.view.model
  /\ ViewOK(r.view, shown)
  /\ r.removing = s.removing \union IF process = "daemon" THEN ToSet(s.list.users) \ shown ELSE {}

LEMMA PasswdRead ==
  ASSUME NEW s \in StateType, ViewOK(s.view, ToSet(s.list.users)), AccountsOK(accounts),
         NEW entries \in SUBSET DOMAIN accounts, NEW emit \in BOOLEAN,
         emit \/ ~s.view.initialized, process = "daemon" => ~s.view.initialized,
         NEW r, r = load_passwd_file(s, entries, emit)
  PROVE  Loads(r, s, entries \ System)
<1> DEFINE shown == entries \ System
           old == ToSet(s.list.users)
           info == ReadInfo(s, shown)
           s1 == Reread(s, shown)
           q2 == Sorted(shown \ old, info)
           s2 == IF emit THEN EmitAll(s1, q2) ELSE s1
           q3 == Sorted(ChangedUsers(s, shown), info)
           s3 == ChangeAll(s2, q3)
<1>1. r = RemoveAll(s3, s.list.users, shown)
  BY LoadIs, Zenon
<1>2. shown \in SUBSET DOMAIN accounts /\ shown \in SUBSET Users /\ s.list.users \in Seq(Users) /\ s.list \in ListType
  BY DEF AccountsOK, StateType, ListType
<1>3. ChangedUsers(s, shown) \in SUBSET Users
  BY <1>2, Zenon DEF ChangedUsers
<1> HIDE DEF shown, info
<1>4. /\ s1 \in StateType /\ SameElse(s1.list, s.list) /\ s1.view = s.view /\ s1.removing = s.removing
      /\ s1.list.users = Sorted(shown, info) /\ s1.list.info = info
  BY <1>2, RereadIs DEF info
<1> HIDE DEF s1
<1>5. Once(s1.list.users) /\ ToSet(s1.list.users) = shown
  BY <1>2, <1>4, SortedIs
<1>6. \A u \in shown : s1.list.info[u].real = accounts[u].real
  BY <1>2, <1>4, ReadInfoIs DEF info
<1>7. q2 \in Seq(Users) /\ Once(q2) /\ ToSet(q2) = shown \ old
  <2>1. shown \ old \in SUBSET Users
    BY <1>2
  <2> HIDE DEF old
  <2> QED BY <2>1, SortedIs
<1>8. q3 \in Seq(Users)
  BY <1>3, SortedIs
<1> HIDE DEF q2, q3, old
<1>9. Same(s2, s1) /\ ViewOK(s2.view, old \union shown)
  <2>1. CASE emit
    <3>1. s2 = EmitAll(s1, q2)
      BY <2>1
    <3>2. q2 \in Seq(ToSet(s1.list.users))
      <4>1. \A i \in 1..Len(q2) : q2[i] \in ToSet(q2)
        BY <1>7, InSeq
      <4>2. q2 \in Seq(shown)
        BY <1>7, <4>1
      <4> QED BY <1>5, <4>2
    <3>3. ViewOK(s1.view, old) /\ ToSet(q2) \intersect old = {}
      BY <1>4, <1>7 DEF old
    <3>4. old \union ToSet(q2) = old \union shown
      BY <1>7
    <3> HIDE DEF s2
    <3>5. Same(s2, s1) /\ ViewOK(s2.view, old \union ToSet(q2))
      BY <1>4, <1>7, <3>1, <3>2, <3>3, EmitAllIs
    <3> QED BY <3>4, <3>5
  <2>2. CASE ~emit
    <3>1. s2 = s1 /\ ~s.view.initialized
      BY <2>2
    <3>2. ViewOK(s.view, old \union shown)
      BY <3>1, NoViewIs DEF ViewOK
    <3> HIDE DEF s2
    <3> QED BY <1>4, <3>1, <3>2 DEF Same
  <2> QED BY <2>1, <2>2
<1> HIDE DEF s2
<1>10. Same(s3, s2) /\ ViewOK(s3.view, old \union shown)
  <2>1. s2 \in StateType
    BY <1>9 DEF Same
  <2> QED BY <1>8, <1>9, <2>1, ChangeAllIs
<1> HIDE DEF s3
<1>11. Same(s3, s1)
  BY <1>9, <1>10 DEF Same
<1>12. s3 \in StateType /\ (process = "daemon" => ~s3.view.initialized)
  BY <1>4, <1>11 DEF Same
<1>13. /\ r \in StateType /\ LikeList(r.list, s3.list)
       /\ r.view.initialized = s3.view.initialized /\ r.view.model = s3.view.model
       /\ ViewOK(r.view, (old \union shown) \ (ToSet(s.list.users) \ shown))
       /\ r.removing = s3.removing \union IF process = "daemon" THEN ToSet(s.list.users) \ shown ELSE {}
  <2>1. AllRemoved(r, s3, old \union shown, s.list.users, shown)
    BY <1>1, <1>2, <1>10, <1>12, RemoveAllIs
  <2> QED BY <2>1 DEF AllRemoved
<1>14. (old \union shown) \ (ToSet(s.list.users) \ shown) = shown
  BY DEF old
<1>15. LikeList(r.list, s1.list) /\ r.view.initialized = s.view.initialized /\ r.view.model = s.view.model
  BY <1>4, <1>11, <1>13 DEF Same
<1>16. r.removing = s.removing \union IF process = "daemon" THEN ToSet(s.list.users) \ shown ELSE {}
  BY <1>4, <1>11, <1>13 DEF Same
<1>17. SameElse(r.list, s.list) /\ r.list.users = s1.list.users /\ r.list.info = s1.list.info
  BY <1>4, <1>15 DEF LikeList, SameElse
<1>18. Loads(r, s, shown)
  BY <1>5, <1>6, <1>13, <1>14, <1>15, <1>16, <1>17 DEF Loads
<1> QED BY <1>18 DEF shown

(***************************************************************************)
(* The signals that wait                                                   *)
(***************************************************************************)

(* What holds of each signal of q holds of each of r.                      *)
LEMMA FewerSignals ==
  ASSUME NEW q, NEW r, RowsFrom(r, q)
  PROVE  /\ \A state : FromAccounts(q, state) => FromAccounts(r, state)
         /\ \A state, monitor : FromKernel(q, state, monitor) => FromKernel(r, state, monitor)
         /\ \A signal, n : FromSessions(q, signal, n) => FromSessions(r, signal, n)
         /\ \A S : (\A i \in 1..Len(q) : q[i].t = "session_removed" => q[i].u \notin S)
                     => \A i \in 1..Len(r) : r[i].t = "session_removed" => r[i].u \notin S
         /\ \A S : (\A i \in 1..Len(q) : q[i].t = "deleted" => q[i].u \in S)
                     => \A i \in 1..Len(r) : r[i].t = "deleted" => r[i].u \in S
<1>1. \A state : FromAccounts(q, state) => FromAccounts(r, state)
  BY DEF RowsFrom, FromAccounts
<1>2. \A state, monitor : FromKernel(q, state, monitor) => FromKernel(r, state, monitor)
  BY DEF RowsFrom, FromKernel
<1>3. \A signal, n : FromSessions(q, signal, n) => FromSessions(r, signal, n)
  BY DEF RowsFrom, FromSessions
<1> QED BY <1>1, <1>2, <1>3 DEF RowsFrom

(* e is the first of q and r the others.                                   *)
Next1(q, e, r) ==
  /\ e \in Event /\ r \in Seq(Event) /\ RowsFrom(r, q) /\ 1 \in 1..Len(q) /\ q[1] = e
  /\ \A present : Told(q, present) =>
       Told(r, present) /\ (e.t \in {"added", "deleted"} /\ Silent(r, e.u) /\ e.u \in Users => (e.t = "added" <=> e.u \in present))
  /\ \A u : Silent(r, u) => Silent(q, u) \/ (e.t \in {"added", "deleted"} /\ e.u = u)
  /\ \A kind, u : Pending(q, kind, u) => Pending(r, kind, u) \/ (e.t = kind /\ e.u = u)

LEMMA TailSignals ==
  ASSUME NEW q \in Seq(Event), q # <<>>
  PROVE  Next1(q, Head(q), Tail(q))
<1> DEFINE n == Len(q)
           r == Tail(q)
           e == Head(q)
<1>1. /\ n \in Nat /\ n >= 1 /\ Len(r) = n - 1 /\ r \in Seq(Event) /\ e = q[1] /\ e \in Event
      /\ \A i \in 1..(n - 1) : r[i] = q[i + 1]
  OBVIOUS
<1> HIDE DEF n, r, e
<1>2. \A i \in 1..(n - 1) : i + 1 \in 1..n
  BY <1>1
<1>3. \A i \in 1..n : i = 1 \/ (i - 1 \in 1..(n - 1) /\ r[i - 1] = q[i])
  <2> TAKE i \in 1..n
  <2>1. i = 1 \/ (i - 1 \in 1..(n - 1) /\ (i - 1) + 1 = i)
    BY <1>1
  <2> QED BY <1>1, <2>1
<1>4. RowsFrom(r, q)
  BY <1>1, <1>2 DEF RowsFrom, n
<1>5. ASSUME NEW present, Told(q, present)
      PROVE  Told(r, present) /\ (e.t \in {"added", "deleted"} /\ Silent(r, e.u) /\ e.u \in Users => (e.t = "added" <=> e.u \in present))
  <2>1. ASSUME NEW i \in 1..(n - 1), NEW u \in Users, Says(r, i, u), \A j \in (i + 1)..(n - 1) : ~Says(r, j, u)
        PROVE  r[i].t = "added" <=> u \in present
    <3>1. i + 1 \in 1..n /\ Says(q, i + 1, u) /\ q[i + 1] = r[i]
      BY <1>1, <1>2, <2>1 DEF Says
    <3>2. ASSUME NEW j \in (i + 2)..n PROVE ~Says(q, j, u)
      <4>1. j \in 1..n /\ j # 1 /\ j - 1 \in (i + 1)..(n - 1)
        BY <1>1
      <4> QED BY <1>3, <2>1, <4>1 DEF Says
    <3>3. (i + 1) + 1 = i + 2
      BY <1>1
    <3> QED BY <1>5, <3>1, <3>2, <3>3 DEF Told, n
  <2>2. ASSUME e.t \in {"added", "deleted"}, Silent(r, e.u), e.u \in Users
        PROVE  e.t = "added" <=> e.u \in present
    <3>1. ASSUME NEW j \in 2..n PROVE ~Says(q, j, e.u)
      <4>1. j \in 1..n /\ j # 1 /\ j - 1 \in 1..(n - 1)
        BY <1>1
      <4> QED BY <1>1, <1>3, <2>2, <4>1 DEF Says, Silent
    <3>2. 1 \in 1..n /\ Says(q, 1, e.u) /\ 1 + 1 = 2
      BY <1>1, <2>2 DEF Says
    <3> QED BY <1>1, <1>5, <2>2, <3>1, <3>2 DEF Told, n
  <2> QED BY <1>1, <2>1, <2>2 DEF Told
<1>6. ASSUME NEW u, Silent(r, u), ~(e.t \in {"added", "deleted"} /\ e.u = u) PROVE Silent(q, u)
  <2>1. ASSUME NEW i \in 1..n PROVE ~Says(q, i, u)
    BY <1>1, <1>3, <1>6 DEF Says, Silent
  <2> QED BY <2>1 DEF Silent, n
<1>7. ASSUME NEW kind, NEW u, Pending(q, kind, u), ~(e.t = kind /\ e.u = u) PROVE Pending(r, kind, u)
  <2>1. PICK i \in 1..n : q[i].t = kind /\ q[i].u = u
    BY <1>7 DEF Pending, n
  <2> QED BY <1>1, <1>3, <1>7, <2>1 DEF Pending
<1>8. 1 \in 1..Len(q)
  BY <1>1 DEF n
<1> QED BY <1>1, <1>4, <1>5, <1>6, <1>7, <1>8 DEF Next1, r, e

(* r is q with e at the end.                                               *)
Last1(q, e, r) ==
  /\ r \in Seq(Event)
  /\ \A i \in 1..Len(r) : r[i] = e \/ \E j \in 1..Len(q) : r[i] = q[j]
  /\ \A present, after : /\ Told(q, present) /\ \A u \in Users : e.u # u => (u \in present <=> u \in after)
                         /\ IF e.t \in {"added", "deleted"} THEN e.t = "added" <=> e.u \in after ELSE present = after
                         => Told(r, after)
  /\ \A u : Silent(r, u) => Silent(q, u) /\ ~(e.t \in {"added", "deleted"} /\ e.u = u)
  /\ \A kind, u : Pending(q, kind, u) \/ (e.t = kind /\ e.u = u) => Pending(r, kind, u)
  /\ \A kind : (\A i \in 1..Len(r) : r[i].t # kind) => e.t # kind /\ \A i \in 1..Len(q) : q[i].t # kind

LEMMA AppendSignal ==
  ASSUME NEW q \in Seq(Event), NEW e \in Event
  PROVE  Last1(q, e, Append(q, e))
<1> DEFINE n == Len(q)
           r == Append(q, e)
<1>1. /\ n \in Nat /\ Len(r) = n + 1 /\ r \in Seq(Event) /\ r[n + 1] = e
      /\ \A i \in 1..n : r[i] = q[i]
  OBVIOUS
<1> HIDE DEF n, r
<1>2. /\ \A i \in 1..(n + 1) : i = n + 1 \/ i \in 1..n
      /\ n + 1 \in 1..(n + 1) /\ \A i \in 1..n : i \in 1..(n + 1)
  BY <1>1
<1>3. \A i \in 1..Len(r) : r[i] = e \/ \E j \in 1..Len(q) : r[i] = q[j]
  BY <1>1, <1>2 DEF n
<1>4. ASSUME NEW present, NEW after, Told(q, present), \A u \in Users : e.u # u => (u \in present <=> u \in after),
             IF e.t \in {"added", "deleted"} THEN e.t = "added" <=> e.u \in after ELSE present = after
      PROVE  Told(r, after)
  <2> SUFFICES ASSUME NEW i \in 1..(n + 1), NEW u \in Users, Says(r, i, u), \A j \in (i + 1)..(n + 1) : ~Says(r, j, u)
               PROVE  r[i].t = "added" <=> u \in after
    BY <1>1 DEF Told
  <2>1. CASE i = n + 1
    BY <1>1, <1>4, <2>1 DEF Says
  <2>2. CASE i \in 1..n
    <3>1. n + 1 \in (i + 1)..(n + 1)
      BY <1>1, <2>2
    <3>2. ~(e.t \in {"added", "deleted"} /\ e.u = u)
      BY <1>1, <3>1 DEF Says
    <3>3. ASSUME NEW j \in (i + 1)..n PROVE ~Says(q, j, u)
      <4>1. j \in 1..n /\ j \in (i + 1)..(n + 1)
        BY <1>1, <2>2
      <4> QED BY <1>1, <4>1 DEF Says
    <3>4. Says(q, i, u) /\ r[i] = q[i]
      BY <1>1, <2>2 DEF Says
    <3>5. q[i].t = "added" <=> u \in present
      BY <1>4, <2>2, <3>3, <3>4 DEF Told, n
    <3>6. u \in present <=> u \in after
      BY <1>4, <3>2
    <3> QED BY <3>4, <3>5, <3>6
  <2> QED BY <1>2, <2>1, <2>2
<1>5. ASSUME NEW u, Silent(r, u) PROVE Silent(q, u) /\ ~(e.t \in {"added", "deleted"} /\ e.u = u)
  BY <1>1, <1>2, <1>5 DEF Silent, Says, n
<1>6. ASSUME NEW kind, NEW u, Pending(q, kind, u) \/ (e.t = kind /\ e.u = u) PROVE Pending(r, kind, u)
  BY <1>1, <1>2, <1>6 DEF Pending, n
<1>7. ASSUME NEW kind, \A i \in 1..Len(r) : r[i].t # kind PROVE e.t # kind /\ \A i \in 1..Len(q) : q[i].t # kind
  BY <1>1, <1>2, <1>7 DEF n
<1> QED BY <1>1, <1>3, <1>4, <1>5, <1>6, <1>7 DEF Last1, r

(* r is q without the changes of u.                                        *)
NoChanges(q, u, r) ==
  /\ r \in Seq(Event) /\ RowsFrom(r, q)
  /\ \A present : Told(q, present) => Told(r, present)
  /\ \A w : Silent(r, w) => Silent(q, w)
  /\ \A kind, w : Pending(q, kind, w) /\ (kind # "changed" \/ w # u) => Pending(r, kind, w)

LEMMA DropChanges ==
  ASSUME NEW q \in Seq(Event), NEW u
  PROVE  NoChanges(q, u, Without(q, {[t |-> "changed", u |-> u]}))
<1> DEFINE D == {[t |-> "changed", u |-> u]}
           r == Without(q, D)
           n == Len(q)
           m == Len(r)
<1>1. r \in Seq(Event)
  BY WithoutIs
<1>2. PICK h : From(r, q, n, D, h)
  BY WithoutIs
<1>3. n \in Nat /\ \A j \in 1..n : q[j] \in Event
  OBVIOUS
<1> HIDE DEF r
<1>4. m \in Nat
  BY <1>1
<1>5. \A j \in 1..n : q[j] \in D => q[j].t = "changed" /\ q[j].u = u
  OBVIOUS
<1> HIDE DEF D, n, m
<1>6. /\ h \in [1..m -> 1..n] /\ \A i, j \in 1..m : i < j => h[i] < h[j]
      /\ \A i \in 1..m : r[i] = q[h[i]]
      /\ \A j \in 1..n : q[j] \notin D => \E i \in 1..m : h[i] = j
  BY <1>2 DEF From, m
<1>7. RowsFrom(r, q)
  BY <1>6 DEF RowsFrom, n, m
<1>8. ASSUME NEW w, NEW j \in 1..n, Says(q, j, w) PROVE \E k \in 1..m : h[k] = j /\ Says(r, k, w)
  <2>1. q[j] \notin D
    BY <1>5, <1>8 DEF Says
  <2> QED BY <1>6, <1>8, <2>1 DEF Says
<1>9. ASSUME NEW present, Told(q, present) PROVE Told(r, present)
  <2> SUFFICES ASSUME NEW i \in 1..m, NEW w \in Users, Says(r, i, w), \A j \in (i + 1)..m : ~Says(r, j, w)
               PROVE  r[i].t = "added" <=> w \in present
    BY DEF Told, m
  <2>1. h[i] \in 1..n /\ Says(q, h[i], w) /\ r[i] = q[h[i]]
    BY <1>6 DEF Says
  <2>2. ASSUME NEW j \in (h[i] + 1)..n, Says(q, j, w) PROVE FALSE
    <3>1. j \in 1..n /\ h[i] < j
      BY <1>3, <2>1
    <3>2. PICK k \in 1..m : h[k] = j /\ Says(r, k, w)
      BY <1>8, <2>2, <3>1
    <3>3. i < k
      <4>1. k < i => h[k] < h[i]
        BY <1>6
      <4>2. h[k] \in 1..n
        BY <1>6
      <4>3. k # i
        BY <1>3, <2>1, <3>1, <3>2
      <4>4. ~(k < i)
        BY <1>3, <2>1, <3>1, <3>2, <4>1
      <4> QED BY <1>4, <4>3, <4>4
    <3>4. k \in (i + 1)..m
      BY <1>4, <3>3
    <3> QED BY <3>2, <3>4
  <2> QED BY <1>9, <2>1, <2>2 DEF Told, n
<1>10. ASSUME NEW w, Silent(r, w) PROVE Silent(q, w)
  <2>1. ASSUME NEW j \in 1..n, Says(q, j, w) PROVE FALSE
    BY <1>8, <1>10, <2>1 DEF Silent, m
  <2> QED BY <2>1 DEF Silent, n
<1>11. ASSUME NEW kind, NEW w, Pending(q, kind, w), kind # "changed" \/ w # u PROVE Pending(r, kind, w)
  <2>1. PICK j \in 1..n : q[j].t = kind /\ q[j].u = w
    BY <1>11 DEF Pending, n
  <2>2. q[j] \notin D
    BY <1>5, <1>11, <2>1
  <2> QED BY <1>6, <2>1, <2>2 DEF Pending, m
<1>12. NoChanges(q, u, r)
  BY <1>1, <1>7, <1>9, <1>10, <1>11 DEF NoChanges
<1> QED BY <1>12 DEF r, D

(* Without AccountsService its signals are forgotten.                      *)
LEMMA DropAccounts ==
  ASSUME NEW q \in Seq(Event), NEW state, FromAccounts(q, state),
         NEW r, r = Without(q, [t : {"added", "deleted", "changed"}, u : Users])
  PROVE  /\ r \in Seq(Event) /\ RowsFrom(r, q)
         /\ \A i \in 1..Len(r) : r[i].t \notin {"added", "deleted", "changed"}
<1> DEFINE D == [t : {"added", "deleted", "changed"}, u : Users]
           n == Len(q)
<1>1. r \in Seq(Event)
  BY WithoutIs
<1>2. PICK h : From(r, q, n, D, h)
  BY WithoutIs
<1>3. RowsFrom(r, q)
  BY <1>2, ZenonT(60) DEF RowsFrom, From
<1>4. ASSUME NEW i \in 1..Len(r), r[i].t \in {"added", "deleted", "changed"} PROVE FALSE
  <2>1. PICK j \in 1..n : r[i] = q[j]
    BY <1>3 DEF RowsFrom
  <2>2. r[i].u \in Users
    BY <1>4, <2>1 DEF FromAccounts
  <2>3. r[i] \in Event /\ r[i] \notin D
    <3>1. r[i] \in Event
      BY <1>1
    <3>2. r[i] \notin D
      <4> HIDE DEF D
      <4> QED BY <1>2 DEF From
    <3> QED BY <3>1, <3>2
  <2>4. r[i] \in D
    BY <1>4, <2>2, <2>3 DEF Event
  <2> QED BY <2>3, <2>4
<1> QED BY <1>1, <1>3, <1>4

(***************************************************************************)
(* Steps that leave a part of the invariant alone                          *)
(***************************************************************************)

LEMMA EventStays == EventInv /\ UNCHANGED <<accounts, events, list, changes>> => EventInv'
BY DEF EventInv

LEMMA ShapeStays == ShapeInv /\ UNCHANGED <<list, lost>> => ShapeInv'
BY DEF ShapeInv

LEMMA KnownStays == KnownInv /\ UNCHANGED <<accounts, events, list, lost>> => KnownInv'
BY DEF KnownInv

LEMMA SessionsStay == SessionsInv /\ UNCHANGED <<logins, events, list, lost>> => SessionsInv'
BY DEF SessionsInv

LEMMA KeptStays == KeptInv /\ UNCHANGED <<accounts, events, list, removing, touched, data>> => KeptInv'
BY DEF KeptInv

LEMMA CoveredStays == CoveredInv /\ UNCHANGED <<process, list, removing, dirs, data>> => CoveredInv'
BY DEF CoveredInv, LookedAt

LEMMA ViewStays == ViewInv /\ UNCHANGED <<process, list, view>> => ViewInv'
BY DEF ViewInv

(* Nothing of the list and what it depends on changes.                     *)
LEMMA ListStays ==
  ASSUME SharedIInv, UNCHANGED <<process, accounts, logins, events, list, view, lost, changes>>
  PROVE  EventInv' /\ ShapeInv' /\ KnownInv' /\ SessionsInv' /\ ViewInv'
<1>1. EventInv /\ ShapeInv /\ KnownInv /\ SessionsInv /\ ViewInv
  BY DEF SharedIInv
<1>2. /\ UNCHANGED <<accounts, events, list, changes>> /\ UNCHANGED <<list, lost>>
      /\ UNCHANGED <<accounts, events, list, lost>> /\ UNCHANGED <<logins, events, list, lost>>
      /\ UNCHANGED <<process, list, view>>
  OBVIOUS
<1> QED BY <1>1, <1>2, EventStays, ShapeStays, KnownStays, SessionsStay, ViewStays

(***************************************************************************)
(* The directories                                                         *)
(***************************************************************************)

LEMMA StartKeeps ==
  ASSUME SharedIInv, shared_data_manager_start PROVE SharedIInv'
<1> USE DEF shared_data_manager_start, listVars
<1>1. EventInv' /\ ShapeInv' /\ KnownInv' /\ SessionsInv' /\ ViewInv'
  BY ListStays
<1>2. TypeOK'
  BY DEF SharedIInv, TypeOK, DataType, Phases
<1>3. KeptInv'
  BY DEF SharedIInv, KeptInv, TypeOK, DataType
<1>4. CoveredInv'
  BY DEF SharedIInv, CoveredInv, TypeOK, DataType, LookedAt
<1> QED BY <1>1, <1>2, <1>3, <1>4 DEF SharedIInv

LEMMA ListDirsKeeps ==
  ASSUME SharedIInv, NEW ok \in BOOLEAN, list_user_dirs_cb(ok) PROVE SharedIInv'
<1> USE DEF list_user_dirs_cb, listVars
<1>1. EventInv' /\ ShapeInv' /\ KnownInv' /\ SessionsInv' /\ ViewInv'
  BY ListStays
<1>2. TypeOK'
  BY DEF SharedIInv, TypeOK, DataType, Phases
<1>3. KeptInv'
  BY DEF SharedIInv, KeptInv, TypeOK, DataType
<1>4. CoveredInv'
  BY DEF SharedIInv, CoveredInv, TypeOK, DataType, LookedAt
<1> QED BY <1>1, <1>2, <1>3, <1>4 DEF SharedIInv

LEMMA DirsErrorKeeps ==
  ASSUME SharedIInv, next_user_dirs_error PROVE SharedIInv'
<1> USE DEF next_user_dirs_error, listVars
<1>1. EventInv' /\ ShapeInv' /\ KnownInv' /\ SessionsInv' /\ ViewInv'
  BY ListStays
<1>2. TypeOK'
  BY DEF SharedIInv, TypeOK, DataType, Phases
<1>3. KeptInv'
  BY DEF SharedIInv, KeptInv, TypeOK, DataType
<1>4. CoveredInv'
  BY DEF SharedIInv, CoveredInv, TypeOK, DataType, LookedAt
<1> QED BY <1>1, <1>2, <1>3, <1>4 DEF SharedIInv

LEMMA DeleteUnusedKeeps ==
  ASSUME SharedIInv, delete_unused_users PROVE SharedIInv'
<1> USE DEF delete_unused_users
<1>1. EventInv' /\ ShapeInv' /\ KnownInv' /\ SessionsInv' /\ ViewInv'
  BY ListStays
<1>2. TypeOK'
  BY DEF SharedIInv, TypeOK, DataType, Phases
<1>3. KeptInv'
  <2>1. list.state \notin {"unloaded", "listing", "loading", "unwatched"}
    BY DEF SharedIInv, KeptInv, Waiting
  <2>2. list.paths = <<>> /\ DOMAIN accounts \ (System \union touched) \subseteq ToSet(list.users) \union ToSet(list.paths)
    BY <2>1 DEF SharedIInv, ShapeInv, KeptInv
  <2>3. ToSet(list.paths) = {}
    BY <2>2 DEF ToSet
  <2>4. ASSUME NEW u \in removing' PROVE MayGo(u, accounts, touched)
    BY <2>2, <2>3, <2>4 DEF SharedIInv, KeptInv, MayGo
  <2>5. data'.phase = "done"
    BY DEF SharedIInv, TypeOK, DataType
  <2> QED BY <2>4, <2>5 DEF SharedIInv, KeptInv
<1>4. CoveredInv'
  BY DEF SharedIInv, CoveredInv, TypeOK, DataType, LookedAt
<1> QED BY <1>1, <1>2, <1>3, <1>4 DEF SharedIInv

LEMMA EnsureDirKeeps ==
  ASSUME SharedIInv, NEW u \in Users, shared_data_manager_ensure_user_dir(u) PROVE SharedIInv'
<1> USE DEF shared_data_manager_ensure_user_dir, listVars
<1>1. EventInv' /\ ShapeInv' /\ KnownInv' /\ SessionsInv' /\ ViewInv'
  BY ListStays
<1>2. TypeOK'
  BY DEF SharedIInv, TypeOK, DataType, Phases
<1>3. KeptInv'
  BY DEF SharedIInv, KeptInv, TypeOK, DataType
<1>4. CoveredInv'
  BY DEF SharedIInv, CoveredInv, TypeOK, DataType, LookedAt
<1> QED BY <1>1, <1>2, <1>3, <1>4 DEF SharedIInv

LEMMA RmKeeps ==
  ASSUME SharedIInv, NEW u \in Users, rm(u) PROVE SharedIInv'
<1> USE DEF rm
<1>1. EventInv' /\ ShapeInv' /\ KnownInv' /\ SessionsInv' /\ ViewInv'
  BY ListStays
<1>2. TypeOK'
  BY DEF SharedIInv, TypeOK
<1>3. KeptInv'
  BY DEF SharedIInv, KeptInv
<1>4. CoveredInv'
  BY DEF SharedIInv, CoveredInv, LookedAt
<1> QED BY <1>1, <1>2, <1>3, <1>4 DEF SharedIInv

(***************************************************************************)
(* Asking for the users and the sessions                                   *)
(***************************************************************************)

(* The list of users is asked for, by a greeter or by the shared data      *)
(* manager.                                                                *)
LEMMA AskUsers ==
  ASSUME SharedIInv, list.state = "unloaded", list' = [list EXCEPT !.state = "listing"],
         UNCHANGED <<process, accounts, logins, events, view, removing, lost, touched, changes>>
  PROVE  EventInv' /\ ShapeInv' /\ KnownInv' /\ SessionsInv' /\ ViewInv' /\ list' \in ListType
<1>1. /\ list \in ListType /\ list' \in ListType /\ list'.state = "listing"
      /\ list'.users = list.users /\ list'.paths = list.paths /\ list'.monitor = list.monitor
      /\ list'.session_added_signal = list.session_added_signal /\ list'.asking = list.asking
      /\ list'.session_paths = list.session_paths /\ list'.sessions = list.sessions
  BY DEF SharedIInv, TypeOK, ListType, ListStates
<1>2. EventInv'
  <2>1. /\ FromAccounts(events, "unloaded") /\ FromKernel(events, "unloaded", list.monitor)
        /\ FromSessions(events, list.session_added_signal, changes)
    BY DEF SharedIInv, EventInv
  <2>2. Told(events, DOMAIN accounts)
    BY <2>1 DEF FromAccounts, Told, Says
  <2>3. FromAccounts(events, "listing") /\ FromKernel(events, "listing", list.monitor)
    BY <2>1 DEF FromAccounts, FromKernel
  <2> QED BY <1>1, <2>1, <2>2, <2>3 DEF EventInv
<1>3. ShapeInv'
  BY <1>1 DEF SharedIInv, ShapeInv
<1>4. KnownInv'
  BY <1>1 DEF KnownInv
<1>5. SessionsInv'
  BY <1>1 DEF SharedIInv, SessionsInv, ShapeInv
<1>6. ViewInv'
  BY <1>1, NoViewIs DEF SharedIInv, ViewInv
<1> QED BY <1>1, <1>2, <1>3, <1>4, <1>5, <1>6

LEMMA LoadUsersKeeps ==
  ASSUME SharedIInv, load_users, UNCHANGED <<dirs, data>> PROVE SharedIInv'
<1> USE DEF load_users
<1>1. EventInv' /\ ShapeInv' /\ KnownInv' /\ SessionsInv' /\ ViewInv' /\ list' \in ListType
  BY AskUsers
<1>2. TypeOK'
  BY <1>1 DEF SharedIInv, TypeOK
<1>3. list'.state = "listing" /\ list'.users = list.users
  BY DEF SharedIInv, TypeOK, ListType
<1>4. KeptInv'
  BY <1>3 DEF SharedIInv, KeptInv
<1>5. CoveredInv'
  BY <1>3 DEF SharedIInv, CoveredInv, LookedAt
<1> QED BY <1>1, <1>2, <1>4, <1>5 DEF SharedIInv

LEMMA NextDirsKeeps ==
  ASSUME SharedIInv, NEW files \in SUBSET Users, next_user_dirs_cb(files) PROVE SharedIInv'
<1> USE DEF next_user_dirs_cb
<1>3. /\ EventInv' /\ ShapeInv' /\ KnownInv' /\ SessionsInv' /\ ViewInv' /\ list' \in ListType
      /\ list'.users = list.users /\ (list' = list \/ list'.state = "listing") /\ (files = {} => list'.state # "unloaded")
  <2>1. CASE files = {} /\ list.state = "unloaded"
    <3>1. EventInv' /\ ShapeInv' /\ KnownInv' /\ SessionsInv' /\ ViewInv' /\ list' \in ListType
      BY <2>1, AskUsers
    <3>2. list'.state = "listing" /\ list'.users = list.users
      BY <2>1 DEF SharedIInv, TypeOK, ListType
    <3> QED BY <3>1, <3>2
  <2>2. CASE ~(files = {} /\ list.state = "unloaded")
    <3>1. list' = list /\ list \in ListType
      BY <2>2 DEF SharedIInv, TypeOK
    <3>2. EventInv' /\ ShapeInv' /\ KnownInv' /\ SessionsInv' /\ ViewInv'
      BY <3>1, ListStays
    <3> QED BY <2>2, <3>1, <3>2
  <2> QED BY <2>1, <2>2
<1>4. TypeOK'
  <2>1. data' \in DataType
    <3> DEFINE read == data.starting_dirs \union files
               unread == data.unread \ files
               phase == IF files = {} THEN "deciding" ELSE data.phase
    <3>1. data \in DataType
      BY DEF SharedIInv, TypeOK
    <3>2. read \in SUBSET Users /\ unread \in SUBSET Users /\ phase \in Phases
      BY <3>1 DEF DataType, Phases
    <3>3. data' = [data EXCEPT !.starting_dirs = read, !.unread = unread, !.phase = phase]
      BY <3>1 DEF DataType
    <3> HIDE DEF read, unread, phase, next_user_dirs_cb
    <3> QED BY <3>1, <3>2, <3>3 DEF DataType
  <2> QED BY <1>3, <2>1 DEF SharedIInv, TypeOK
<1>5. KeptInv'
  BY <1>3 DEF SharedIInv, KeptInv, TypeOK, DataType
<1>6. files = {} => data.unread = {}
  <2>1. Cardinality({}) = 0 /\ NUM_ENUMERATION_FILES # 0
    BY FS_EmptySet, SharedAssumption
  <2> QED BY <2>1
<1>7. CoveredInv'
  <2>1. /\ data'.phase = IF files = {} THEN "deciding" ELSE "reading"
        /\ data'.starting_dirs = data.starting_dirs \union files /\ data'.unread = data.unread \ files
        /\ data'.unlisted = data.unlisted
    BY DEF SharedIInv, TypeOK, DataType
  <2>2. process # "greeter"
    BY DEF SharedIInv, CoveredInv
  <2> QED BY <1>3, <1>6, <2>1, <2>2 DEF SharedIInv, CoveredInv, LookedAt
<1> QED BY <1>3, <1>4, <1>5, <1>7 DEF SharedIInv

(* Only the fields of the sessions differ.                                 *)
SessionsOnly(l, m) ==
  /\ l \in ListType /\ l.state = m.state /\ l.users = m.users /\ l.info = m.info /\ l.paths = m.paths
  /\ l.watched = m.watched /\ l.monitor = m.monitor

LEMMA SessionsOnlyKeeps ==
  ASSUME SharedIInv, SessionsOnly(list', list), UNCHANGED <<process, accounts, dmrc, logins, events, view, removing, touched, changes, dirs, data>>,
         list.session_added_signal => list'.session_added_signal,
         "users" \in lost => "users" \in lost', lost' \subseteq {"users", "sessions"}
  PROVE  TypeOK' /\ EventInv' /\ KnownInv' /\ KeptInv' /\ CoveredInv'
<1> USE DEF SessionsOnly
<1>1. TypeOK'
  BY DEF SharedIInv, TypeOK
<1>2. EventInv'
  BY DEF SharedIInv, EventInv, FromSessions
<1>3. KnownInv'
  <2>1. Listed(events, list', accounts) <=> Listed(events, list, accounts)
    BY DEF Listed
  <2>2. Known(events, list', accounts) <=> Known(events, list, accounts)
    BY DEF Known
  <2>3. AsRead(list', accounts) <=> AsRead(list, accounts)
    BY DEF AsRead
  <2> QED BY <2>1, <2>2, <2>3 DEF SharedIInv, KnownInv
<1>4. KeptInv'
  BY DEF SharedIInv, KeptInv
<1>5. CoveredInv'
  BY DEF SharedIInv, CoveredInv, LookedAt
<1> QED BY <1>1, <1>2, <1>3, <1>4, <1>5

LEMMA LoadSessionsKeeps ==
  ASSUME SharedIInv, load_sessions, UNCHANGED <<dirs, data>> PROVE SharedIInv'
<1> USE DEF load_sessions
<1>1. /\ SessionsOnly(list', list) /\ list'.session_added_signal /\ list'.asking
      /\ list'.sessions = list.sessions /\ list'.session_paths = list.session_paths
  BY DEF SharedIInv, TypeOK, ListType, SessionsOnly
<1>2. TypeOK' /\ EventInv' /\ KnownInv' /\ KeptInv' /\ CoveredInv'
  <2>1. lost \subseteq {"users", "sessions"}
    BY DEF SharedIInv, TypeOK
  <2> QED BY <1>1, <2>1, SessionsOnlyKeeps
<1>3. ShapeInv'
  <2>1. list.state \notin {"unloaded", "listing"}
    BY DEF SharedIInv, ShapeInv
  <2> QED BY <1>1, <2>1 DEF SharedIInv, ShapeInv, SessionsOnly
<1>4. SessionsInv'
  BY <1>1 DEF SharedIInv, SessionsInv, Seen
<1>5. ViewInv'
  <2>1. view.model # "connected"
    BY DEF SharedIInv, ViewInv
  <2> QED BY <1>1, <2>1 DEF SharedIInv, ViewInv, WrappersOK, SessionsOnly
<1> QED BY <1>2, <1>3, <1>4, <1>5 DEF SharedIInv

LEMMA GetSessionsKeeps ==
  ASSUME SharedIInv, NEW ok \in BOOLEAN, GetSessions(ok), UNCHANGED <<dirs, data>> PROVE SharedIInv'
<1> USE DEF GetSessions
<1> DEFINE q == SetToSeq(DOMAIN logins)
<1>1. q \in Seq(Nat) /\ ToSet(q) = DOMAIN logins
  <2>1. DOMAIN logins \subseteq 1..changes /\ changes \in Nat
    BY DEF SharedIInv, TypeOK
  <2>2. IsFiniteSet(DOMAIN logins) /\ DOMAIN logins \subseteq Nat
    BY <2>1, FS_Interval, FS_Subset
  <2>3. q \in Seq(DOMAIN logins) /\ ToSet(q) = DOMAIN logins
    BY <2>2, SetToSeqIs
  <2> HIDE DEF q
  <2> QED BY <2>2, <2>3
<1> HIDE DEF q
<1> DEFINE p == IF ok THEN q ELSE <<>>
<1>2. list' = [list EXCEPT !.asking = FALSE, !.session_paths = p] /\ p \in Seq(Nat) /\ (ok => p = q)
  BY <1>1 DEF q
<1> HIDE DEF p
<1>3. /\ SessionsOnly(list', list) /\ list'.session_added_signal = list.session_added_signal
      /\ ~list'.asking /\ list'.session_paths = p
  BY <1>2 DEF SharedIInv, TypeOK, ListType, SessionsOnly
<1>4. list.session_added_signal /\ lost \subseteq {"users", "sessions"}
  BY DEF SharedIInv, ShapeInv, TypeOK
<1>5. ("users" \in lost => "users" \in lost') /\ lost' \subseteq {"users", "sessions"} /\ (~ok => "sessions" \in lost') /\ (ok => lost' = lost)
  BY <1>4 DEF Outcome
<1>6. TypeOK' /\ EventInv' /\ KnownInv' /\ KeptInv' /\ CoveredInv'
  BY <1>3, <1>4, <1>5, SessionsOnlyKeeps
<1>7. ShapeInv'
  BY <1>3, <1>4 DEF SharedIInv, ShapeInv, SessionsOnly
<1>8. SessionsInv'
  BY <1>1, <1>2, <1>3, <1>5 DEF SharedIInv, SessionsInv, Seen
<1>9. ViewInv'
  <2>1. view.model # "connected"
    BY DEF SharedIInv, ViewInv
  <2> QED BY <1>3, <2>1 DEF SharedIInv, ViewInv, WrappersOK, SessionsOnly
<1> QED BY <1>6, <1>7, <1>8, <1>9 DEF SharedIInv

LEMMA LoadListedSessionKeeps ==
  ASSUME SharedIInv, NEW ok \in BOOLEAN, load_listed_session(ok), UNCHANGED <<dirs, data>> PROVE SharedIInv'
<1> USE DEF load_listed_session
<1> DEFINE path == Head(list.session_paths)
           rest == Tail(list.session_paths)
           q == load_session(list.sessions, path, ok)
<1>0. /\ list \in ListType /\ list.session_paths \in Seq(Nat) /\ list.sessions \in Seq(SessionRow)
      /\ DOMAIN logins \subseteq 1..changes /\ logins \in [DOMAIN logins -> Users] /\ changes \in Nat
  BY DEF SharedIInv, TypeOK, ListType
<1>1. rest \in Seq(Nat) /\ path \in Nat /\ \A p : p \in ToSet(list.session_paths) => p = path \/ p \in ToSet(rest)
  <2> DEFINE s == list.session_paths
  <2>1. s \in Seq(Nat) /\ s # <<>>
    BY <1>0
  <2> HIDE DEF s
  <2>2. Tail(s) \in Seq(Nat) /\ Head(s) \in Nat /\ ToSet(s) = {Head(s)} \union ToSet(Tail(s))
    BY <2>1, TailIs
  <2> QED BY <2>2 DEF s
<1>2. /\ q \in Seq(SessionRow) /\ \A i \in 1..Len(list.sessions) : \E j \in 1..Len(q) : q[j] = list.sessions[i]
      /\ ok /\ path \in DOMAIN logins => \E j \in 1..Len(q) : q[j].path = path
  <2>1. CASE ok /\ path \in DOMAIN logins
    <3> DEFINE x == [path |-> path, user |-> logins[path]]
               s == list.sessions
               n == Len(s)
    <3>1. q = Append(s, x)
      BY <2>1 DEF load_session
    <3>2. x \in SessionRow /\ x.path = path
      BY <1>0, <1>1, <2>1 DEF SessionRow
    <3>3. s \in Seq(SessionRow)
      BY <1>0
    <3> HIDE DEF x, s, q, path
    <3>4. q \in Seq(SessionRow) /\ n \in Nat /\ Len(q) = n + 1 /\ q[n + 1] = x /\ \A i \in 1..n : q[i] = s[i]
      BY <3>1, <3>2, <3>3
    <3> HIDE DEF n
    <3>5. n + 1 \in 1..(n + 1) /\ \A i \in 1..n : i \in 1..(n + 1)
      BY <3>4
    <3> QED BY <3>2, <3>4, <3>5 DEF s, n
  <2>2. CASE ~(ok /\ path \in DOMAIN logins)
    <3>1. q = list.sessions
      BY <2>2 DEF load_session
    <3> QED BY <1>0, <2>2, <3>1
  <2> QED BY <2>1, <2>2
<1>3. list' = [list EXCEPT !.sessions = q, !.session_paths = rest]
  BY <1>0 DEF ListType
<1> HIDE DEF q, rest
<1>4. /\ SessionsOnly(list', list) /\ list'.session_added_signal = list.session_added_signal
      /\ list'.asking = list.asking /\ list'.session_paths = rest /\ list'.sessions = q
  BY <1>0, <1>1, <1>2, <1>3 DEF ListType, SessionsOnly
<1>5. list.session_added_signal /\ lost \subseteq {"users", "sessions"}
  BY DEF SharedIInv, ShapeInv, TypeOK
<1>6. /\ "users" \in lost => "users" \in lost'
      /\ lost' \subseteq {"users", "sessions"} /\ (~ok => "sessions" \in lost') /\ (ok => lost' = lost)
  BY <1>5 DEF Outcome
<1>7. TypeOK' /\ EventInv' /\ KnownInv' /\ KeptInv' /\ CoveredInv'
  BY <1>4, <1>5, <1>6, SessionsOnlyKeeps
<1>8. ShapeInv'
  BY <1>4, <1>5 DEF SharedIInv, ShapeInv, SessionsOnly
<1>9. SessionsInv'
  <2> SUFFICES ASSUME "sessions" \notin lost', NEW p \in DOMAIN logins PROVE Seen(p, events, list')
    BY DEF SharedIInv, SessionsInv
  <2>1. ok /\ Seen(p, events, list)
    BY <1>5, <1>6 DEF SharedIInv, SessionsInv
  <2>2. CASE \E i \in 1..Len(list.sessions) : list.sessions[i].path = p
    BY <1>2, <1>4, <2>2 DEF Seen
  <2>3. CASE p \in ToSet(list.session_paths)
    <3>1. p = path \/ p \in ToSet(rest)
      BY <1>1, <2>3
    <3>2. p = path => \E j \in 1..Len(q) : q[j].path = p
      BY <1>2, <2>1
    <3> QED BY <1>4, <3>1, <3>2 DEF Seen
  <2> QED BY <1>4, <2>1, <2>2, <2>3 DEF Seen
<1>10. ViewInv'
  <2>1. view.model # "connected"
    BY DEF SharedIInv, ViewInv
  <2> QED BY <1>4, <2>1 DEF SharedIInv, ViewInv, WrappersOK, SessionsOnly
<1> QED BY <1>7, <1>8, <1>9, <1>10 DEF SharedIInv

LEMMA MonitorKeeps ==
  ASSUME SharedIInv, NEW ok \in BOOLEAN, monitor_passwd(ok), UNCHANGED <<dirs, data>> PROVE SharedIInv'
<1> USE DEF monitor_passwd
<1>1. /\ list \in ListType /\ list' \in ListType /\ list'.state = "passwd" /\ list'.monitor = ok
      /\ list'.users = list.users /\ list'.paths = list.paths /\ list'.info = list.info
      /\ list'.session_added_signal = list.session_added_signal /\ list'.asking = list.asking
      /\ list'.session_paths = list.session_paths /\ list'.sessions = list.sessions
  BY DEF SharedIInv, TypeOK, ListType, ListStates
<1>2. /\ lost' \subseteq {"users", "sessions"} /\ (~ok => "users" \in lost') /\ (ok => lost' = lost)
      /\ "sessions" \in lost => "sessions" \in lost'
  BY DEF Outcome, SharedIInv, TypeOK
<1>3. TypeOK'
  BY <1>1, <1>2 DEF SharedIInv, TypeOK
<1>4. EventInv'
  <2>1. FromAccounts(events, "unwatched") /\ FromKernel(events, "unwatched", list.monitor)
    BY DEF SharedIInv, EventInv
  <2>2. FromAccounts(events, "passwd") /\ FromKernel(events, "passwd", ok)
    BY <2>1 DEF FromAccounts, FromKernel
  <2> QED BY <1>1, <2>2 DEF SharedIInv, EventInv
<1>5. ShapeInv'
  BY <1>1 DEF SharedIInv, ShapeInv
<1>6. KnownInv'
  <2>1. AsRead(list', accounts) <=> AsRead(list, accounts)
    BY <1>1 DEF AsRead
  <2> QED BY <1>1, <1>2, <2>1 DEF SharedIInv, KnownInv
<1>7. SessionsInv'
  BY <1>1, <1>2 DEF SharedIInv, SessionsInv, Seen
<1>8. KeptInv'
  BY <1>1 DEF SharedIInv, KeptInv
<1>9. CoveredInv'
  BY <1>1 DEF SharedIInv, CoveredInv, LookedAt
<1>10. ViewInv'
  BY NoViewIs DEF SharedIInv, ViewInv
<1> QED BY <1>3, <1>4, <1>5, <1>6, <1>7, <1>8, <1>9, <1>10 DEF SharedIInv

LEMMA MakeWrappersKeeps ==
  ASSUME SharedIInv, MakeWrappers, UNCHANGED <<dirs, data>> PROVE SharedIInv'
<1> USE DEF MakeWrappers
<1>1. view = NoView /\ list \in ListType /\ view \in ViewType
  BY DEF SharedIInv, ViewInv, TypeOK
<1>2. list' = list /\ removing' = removing /\ view' = [NoView EXCEPT !.initialized = TRUE, !.list = list.users]
  BY <1>1 DEF Becomes, initialize_user_list_if_needed, State
<1>3. /\ view' \in ViewType /\ view'.initialized /\ view'.list = list.users /\ view'.model = "none"
  BY <1>1, <1>2 DEF NoView, ViewType, ListType
<1>4. TypeOK'
  BY <1>2, <1>3 DEF SharedIInv, TypeOK
<1>5. EventInv' /\ ShapeInv' /\ KnownInv' /\ SessionsInv' /\ KeptInv' /\ CoveredInv'
  <2>1. EventInv /\ ShapeInv /\ KnownInv /\ SessionsInv /\ KeptInv /\ CoveredInv
    BY DEF SharedIInv
  <2> QED BY <1>2, <2>1, EventStays, ShapeStays, KnownStays, SessionsStay, KeptStays, CoveredStays
<1>6. ViewInv'
  BY <1>2, <1>3 DEF SharedIInv, ViewInv, WrappersOK, ShapeInv, Loaded
<1> QED BY <1>4, <1>5, <1>6 DEF SharedIInv

LEMMA MakeRowsKeeps ==
  ASSUME SharedIInv, MakeRows, UNCHANGED <<dirs, data>> PROVE SharedIInv'
<1> USE DEF MakeRows
<1> DEFINE q == view.list
           rows == [i \in 1..Len(q) |-> UserItem(list, q[i])]
<1>1. /\ list \in ListType /\ view \in ViewType /\ WrappersOK(list, view) /\ removing \subseteq Users
      /\ q \in Seq(Users) /\ DOMAIN q = 1..Len(q) /\ Len(q) \in Nat
  BY DEF SharedIInv, ViewInv, TypeOK, ViewType
<1>2. /\ list' = list /\ removing' = removing
      /\ view' = IF q = <<>> THEN [view EXCEPT !.model = "unconnected"]
                 ELSE [view EXCEPT !.model = "connected", !.rows = rows]
  BY <1>1 DEF Becomes, loadUsers, State
<1>3. \A i \in 1..Len(q) : rows[i] = UserItem(list, q[i]) /\ rows[i] \in Row /\ rows[i].name = q[i]
  BY <1>1, ItemIs
<1>4. rows \in Seq(Row) /\ Len(rows) = Len(q)
  <2>1. rows \in [1..Len(q) -> Row]
    <3>1. DOMAIN rows = 1..Len(q) /\ rows = [i \in DOMAIN rows |-> rows[i]]
      OBVIOUS
    <3> HIDE DEF rows, q
    <3> QED BY <1>3, <3>1
  <2> HIDE DEF rows, q
  <2> QED BY <1>1, <2>1
<1> HIDE DEF rows
<1>5. /\ view' \in ViewType /\ view'.initialized = view.initialized /\ view'.list = q
      /\ view'.model = "connected" => q # <<>> /\ view'.rows = rows
  BY <1>1, <1>2, <1>4 DEF ViewType
<1>6. TypeOK'
  BY <1>2, <1>5 DEF SharedIInv, TypeOK
<1>7. EventInv' /\ ShapeInv' /\ KnownInv' /\ SessionsInv' /\ KeptInv' /\ CoveredInv'
  <2>1. EventInv /\ ShapeInv /\ KnownInv /\ SessionsInv /\ KeptInv /\ CoveredInv
    BY DEF SharedIInv
  <2> QED BY <1>2, <2>1, EventStays, ShapeStays, KnownStays, SessionsStay, KeptStays, CoveredStays
<1>8. ViewInv'
  <2>1. WrappersOK(list, view')
    BY <1>1, <1>5 DEF WrappersOK
  <2>2. ASSUME view'.model = "connected" PROVE RowsOK(list, view')
    <3>1. view'.rows = rows
      BY <1>5, <2>2
    <3>2. \A i, j \in 1..Len(rows) : rows[i].name = rows[j].name => i = j
      BY <1>1, <1>3, <1>4 DEF WrappersOK, Once
    <3>3. {rows[i].name : i \in 1..Len(rows)} = ToSet(list.users)
      <4>1. {rows[i].name : i \in 1..Len(rows)} = {q[i] : i \in 1..Len(q)}
        BY <1>3, <1>4
      <4>2. \A x : x \in ToSet(q) <=> \E i \in 1..Len(q) : q[i] = x
        BY <1>1, InSeq
      <4>3. ToSet(q) = {q[i] : i \in 1..Len(q)}
        BY <4>2
      <4> QED BY <1>1, <4>1, <4>3 DEF WrappersOK
    <3>4. \A i \in 1..Len(rows) : rows[i] = UserItem(list, rows[i].name)
      BY <1>3, <1>4
    <3> QED BY <3>1, <3>2, <3>3, <3>4 DEF RowsOK
  <2> QED BY <1>2, <1>5, <2>1, <2>2 DEF SharedIInv, ViewInv, Waiting
<1> QED BY <1>6, <1>7, <1>8 DEF SharedIInv

(***************************************************************************)
(* The lists of the accounts and of the password file                      *)
(***************************************************************************)

LEMMA StateIs ==
  ASSUME SharedIInv
  PROVE  /\ State \in StateType /\ State.list = list /\ State.view = view /\ State.removing = removing
         /\ ViewOK(view, ToSet(list.users)) /\ (process = "daemon" => ~view.initialized)
<1>1. list \in ListType /\ view \in ViewType /\ removing \subseteq Users
  BY DEF SharedIInv, TypeOK
<1>2. State \in StateType /\ State.list = list /\ State.view = view /\ State.removing = removing
  BY <1>1 DEF State, StateType
<1>3. ViewOK(view, ToSet(list.users))
  BY <1>1 DEF SharedIInv, ViewInv, ViewOK, WrappersOK, RowsOK, NamesOnce, NamesOf
<1> QED BY <1>2, <1>3 DEF SharedIInv, ViewInv

LEMMA ListedKeeps ==
  ASSUME SharedIInv, ListCachedUsers(TRUE), UNCHANGED <<dirs, data>> PROVE SharedIInv'
<1> USE DEF ListCachedUsers
<1> DEFINE q == SetToSeq(DOMAIN accounts)
           state == IF accounts = <<>> THEN "accounts" ELSE "loading"
<1>0. /\ list \in ListType /\ AccountsOK(accounts) /\ list.state = "listing"
      /\ list.users = <<>> /\ lost = {} /\ ~list.session_added_signal /\ ~view.initialized
  BY DEF SharedIInv, TypeOK, ShapeInv, ViewInv
<1>1. q \in Seq(Users) /\ ToSet(q) = DOMAIN accounts /\ Once(q)
  <2>1. IsFiniteSet(DOMAIN accounts) /\ DOMAIN accounts \subseteq Users
    BY <1>0, UserListAssumption, FS_Subset DEF AccountsOK
  <2>2. q \in Seq(DOMAIN accounts) /\ ToSet(q) = DOMAIN accounts /\ Once(q)
    BY <2>1, SetToSeqIs
  <2> HIDE DEF q
  <2> QED BY <2>1, <2>2
<1>2. q = <<>> <=> accounts = <<>>
  <2>1. q = <<>> <=> DOMAIN accounts = {}
    BY <1>1, InSeq
  <2>2. accounts = <<>> => DOMAIN accounts = {}
    OBVIOUS
  <2>3. DOMAIN accounts = {} => accounts = <<>>
    <3>1. accounts \in [DOMAIN accounts -> UserInfo]
      BY <1>0 DEF AccountsOK
    <3>2. DOMAIN <<>> = {} /\ <<>> = [x \in {} |-> x]
      OBVIOUS
    <3>3. accounts = [x \in DOMAIN accounts |-> accounts[x]]
      BY <3>1
    <3>4. ASSUME DOMAIN accounts = {} PROVE [x \in DOMAIN accounts |-> accounts[x]] = [x \in {} |-> x]
      BY <3>4
    <3> QED BY <3>2, <3>3, <3>4
  <2> QED BY <2>1, <2>2, <2>3
<1>3. /\ list' = [list EXCEPT !.state = state, !.paths = q] /\ view' = view /\ removing' = removing
      /\ UNCHANGED <<process, accounts, dmrc, logins, events, lost, touched, changes>>
  BY <1>0 DEF Becomes, State, ListType
<1> HIDE DEF q, ListCachedUsers
<1>4. /\ list' \in ListType /\ list'.state = state /\ list'.paths = q /\ list'.users = list.users
      /\ list'.monitor = list.monitor /\ list'.info = list.info
      /\ list'.session_added_signal = list.session_added_signal /\ list'.asking = list.asking
      /\ list'.session_paths = list.session_paths /\ list'.sessions = list.sessions
  BY <1>0, <1>1, <1>3 DEF ListType, ListStates
<1>5. state \in {"accounts", "loading"} /\ (state = "loading" <=> q # <<>>)
  BY <1>2
<1>6. ToSet(list.users) = {}
  BY <1>0 DEF ToSet
<1> HIDE DEF state
<1>7. TypeOK'
  BY <1>3, <1>4 DEF SharedIInv, TypeOK
<1>8. EventInv'
  <2>1. /\ FromAccounts(events, "listing") /\ FromKernel(events, "listing", list.monitor)
        /\ FromSessions(events, list.session_added_signal, changes) /\ Told(events, DOMAIN accounts)
    BY <1>0 DEF SharedIInv, EventInv
  <2>2. FromAccounts(events, state) /\ FromKernel(events, state, list.monitor)
    BY <1>5, <2>1 DEF FromAccounts, FromKernel
  <2> QED BY <1>3, <1>4, <2>1, <2>2 DEF EventInv
<1>9. ShapeInv'
  <2>1. ToSet(list'.users) = {} /\ Once(list'.users) /\ Once(list'.paths)
    BY <1>0, <1>1, <1>4, <1>6 DEF Once
  <2> QED BY <1>0, <1>3, <1>4, <1>5, <2>1 DEF SharedIInv, ShapeInv
<1>10. KnownInv'
  <2>1. Listed(events, list', accounts)
    BY <1>1, <1>4, <1>6 DEF Listed
  <2>2. Known(events, list', accounts)
    BY <1>4, <1>6 DEF Known
  <2> QED BY <1>3, <1>4, <1>5, <2>1, <2>2 DEF KnownInv
<1>11. SessionsInv'
  BY <1>0, <1>3, <1>4 DEF SharedIInv, SessionsInv
<1>12. KeptInv'
  <2>1. DOMAIN accounts \subseteq ToSet(list'.paths) /\ list'.state # "unloaded"
    BY <1>1, <1>4, <1>5
  <2> QED BY <1>3, <2>1 DEF SharedIInv, KeptInv
<1>13. CoveredInv'
  BY <1>3, <1>4 DEF SharedIInv, CoveredInv, LookedAt
<1>14. ViewInv'
  BY <1>0, <1>3, NoViewIs DEF SharedIInv, ViewInv
<1> QED BY <1>7, <1>8, <1>9, <1>10, <1>11, <1>12, <1>13, <1>14 DEF SharedIInv

LEMMA UnlistedKeeps ==
  ASSUME SharedIInv, ListCachedUsers(FALSE), UNCHANGED <<dirs, data>> PROVE SharedIInv'
<1> USE DEF ListCachedUsers
<1>0. /\ list \in ListType /\ AccountsOK(accounts) /\ list.state = "listing" /\ events \in Seq(Event)
      /\ list.users = <<>> /\ lost = {} /\ ~list.session_added_signal /\ ~view.initialized /\ list.paths = <<>>
  BY DEF SharedIInv, TypeOK, ShapeInv, ViewInv
<1>1. PICK entries \in SUBSET DOMAIN accounts :
        /\ touched' = touched \union (DOMAIN accounts \ entries)
        /\ Becomes([load_passwd_file(State, entries, FALSE) EXCEPT !.list.state = "unwatched"])
        /\ Outcome("users", entries = DOMAIN accounts)
  OBVIOUS
<1> DEFINE r == load_passwd_file(State, entries, FALSE)
           shown == entries \ System
<1>2. Loads(r, State, shown)
  <2>1. /\ State \in StateType /\ ViewOK(State.view, ToSet(State.list.users))
        /\ ~State.view.initialized
    BY <1>0, StateIs
  <2> QED BY <1>0, <2>1, PasswdRead
<1>3. /\ events' = Without(events, [t : {"added", "deleted", "changed"}, u : Users])
      /\ UNCHANGED <<process, accounts, dmrc, logins, changes>>
  OBVIOUS
<1>4. list' = [r.list EXCEPT !.state = "unwatched"] /\ view' = r.view /\ removing' = r.removing
  <2>1. r \in StateType
    BY <1>2 DEF Loads
  <2> HIDE DEF r
  <2> QED BY <1>1, <2>1 DEF Becomes, StateType, ListType, r
<1> HIDE DEF r, ListCachedUsers
<1>5. r \in StateType /\ State.list = list /\ State.view = view /\ State.removing = removing
  BY <1>2, StateIs DEF Loads
<1>6. /\ list' \in ListType /\ list'.state = "unwatched" /\ list'.users = r.list.users /\ list'.info = r.list.info
      /\ list'.paths = list.paths /\ list'.monitor = list.monitor /\ list'.sessions = list.sessions
      /\ list'.session_added_signal = list.session_added_signal /\ list'.asking = list.asking
      /\ list'.session_paths = list.session_paths
  <2>1. r.list \in ListType /\ SameElse(r.list, list)
    BY <1>2, <1>5 DEF Loads, StateType
  <2> QED BY <1>4, <2>1 DEF ListType, ListStates, SameElse
<1>7. /\ Once(list'.users) /\ ToSet(list'.users) = shown
      /\ \A u \in shown : list'.info[u].real = accounts[u].real
      /\ view' = NoView /\ view' \in ViewType
  <2>1. ViewOK(r.view, shown) /\ ~r.view.initialized
    BY <1>0, <1>2, <1>5 DEF Loads
  <2>2. view' = NoView
    BY <1>4, <2>1 DEF ViewOK
  <2> QED BY <1>2, <1>6, <2>2, NoViewIs DEF Loads
<1>8. removing' = removing
  <2>1. ToSet(State.list.users) = {}
    BY <1>0, <1>5 DEF ToSet
  <2> QED BY <1>2, <1>4, <1>5, <2>1 DEF Loads
<1>9. /\ events' \in Seq(Event) /\ RowsFrom(events', events)
      /\ \A i \in 1..Len(events') : events'[i].t \notin {"added", "deleted", "changed"}
  <2>1. FromAccounts(events, list.state)
    BY DEF SharedIInv, EventInv
  <2> QED BY <1>0, <1>3, <2>1, DropAccounts
<1>10. lost' \subseteq {"users", "sessions"} /\ ("users" \notin lost' => entries = DOMAIN accounts /\ lost' = lost)
  BY <1>0, <1>1 DEF Outcome
<1>11. TypeOK'
  <2>1. touched' \subseteq Users
    BY <1>0, <1>1 DEF SharedIInv, TypeOK, AccountsOK
  <2> QED BY <1>3, <1>6, <1>7, <1>8, <1>9, <1>10, <2>1 DEF SharedIInv, TypeOK
<1>12. EventInv'
  <2>1. FromAccounts(events', "unwatched")
    BY <1>9 DEF FromAccounts
  <2>2. FromKernel(events, "listing", list.monitor)
    BY <1>0 DEF SharedIInv, EventInv
  <2>3. FromKernel(events', "listing", list.monitor)
    BY <1>9, <2>2, FewerSignals
  <2>4. FromKernel(events', "unwatched", list.monitor)
    BY <2>3 DEF FromKernel
  <2>5. FromSessions(events', list.session_added_signal, changes)
    BY <1>9, FewerSignals DEF SharedIInv, EventInv
  <2> QED BY <1>3, <1>6, <2>1, <2>4, <2>5 DEF EventInv
<1>13. ShapeInv'
  <2>1. ToSet(list'.paths) = {} /\ Once(list'.paths)
    BY <1>0, <1>6 DEF ToSet, Once
  <2>2. ToSet(list'.users) \intersect (System \union ToSet(list'.paths)) = {}
    BY <1>7, <2>1
  <2> QED BY <1>0, <1>6, <1>7, <2>1, <2>2 DEF SharedIInv, ShapeInv
<1>14. KnownInv'
  <2>1. "users" \notin lost' => AsRead(list', accounts)
    BY <1>7, <1>10 DEF AsRead
  <2> QED BY <1>3, <1>6, <2>1 DEF KnownInv
<1>15. SessionsInv'
  <2>1. \A i \in 1..Len(events') : events'[i].t = "session_removed" => events'[i].u \notin DOMAIN logins
    BY <1>9, FewerSignals DEF SharedIInv, SessionsInv
  <2> QED BY <1>0, <1>3, <1>6, <2>1 DEF SessionsInv
<1>16. KeptInv'
  <2>1. \A u \in removing' : MayGo(u, accounts, touched')
    BY <1>1, <1>8 DEF SharedIInv, KeptInv, MayGo
  <2>2. DOMAIN accounts \ (System \union touched') \subseteq ToSet(list'.users)
    BY <1>1, <1>7
  <2> QED BY <1>3, <1>6, <1>9, <2>1, <2>2 DEF KeptInv
<1>17. CoveredInv'
  <2>1. ToSet(list.users) = {}
    BY <1>0 DEF ToSet
  <2> QED BY <1>3, <1>8, <2>1 DEF SharedIInv, CoveredInv, LookedAt
<1>18. ViewInv'
  BY <1>7, NoViewIs DEF ViewInv
<1> QED BY <1>11, <1>12, <1>13, <1>14, <1>15, <1>16, <1>17, <1>18 DEF SharedIInv

LEMMA PasswdChangedKeeps ==
  ASSUME SharedIInv, NEW ok \in BOOLEAN, events # <<>>, passwd_changed_cb(ok), UNCHANGED <<dirs, data>>
  PROVE  SharedIInv'
<1> USE DEF passwd_changed_cb
<1>0. /\ list \in ListType /\ AccountsOK(accounts) /\ events \in Seq(Event) /\ lost \subseteq {"users", "sessions"}
  BY DEF SharedIInv, TypeOK
<1>1. PICK entries \in SUBSET DOMAIN accounts :
        /\ ok <=> entries = DOMAIN accounts
        /\ Becomes(load_passwd_file(State, entries, TRUE))
        /\ touched' = touched \union (DOMAIN accounts \ entries)
  OBVIOUS
<1> DEFINE r == load_passwd_file(State, entries, TRUE)
           shown == entries \ System
           e == Head(events)
<1>2. Loads(r, State, shown)
  <2>1. /\ State \in StateType /\ ViewOK(State.view, ToSet(State.list.users))
        /\ process = "daemon" => ~State.view.initialized
    BY StateIs
  <2> QED BY <1>0, <2>1, PasswdRead
<1> HIDE DEF r
<1>3. /\ list' = r.list /\ view' = r.view /\ removing' = r.removing /\ events' = Tail(events) /\ e.t = "passwd"
      /\ UNCHANGED <<process, accounts, dmrc, logins, changes>>
      /\ ~ok => lost = {}
      /\ lost' = IF ok THEN lost \ {"users"} ELSE {"users"}
  BY <1>1 DEF Becomes, r
<1> HIDE DEF passwd_changed_cb
<1>4. Next1(events, e, events')
  BY <1>0, <1>3, TailSignals
<1> HIDE DEF e
<1>5. list.state = "passwd" /\ list.monitor
  <2>1. FromKernel(events, list.state, list.monitor)
    BY DEF SharedIInv, EventInv
  <2> QED BY <1>3, <1>4, <2>1 DEF FromKernel, Next1
<1>6. State.list = list /\ State.view = view /\ State.removing = removing
  BY StateIs
<1>7. /\ list' \in ListType /\ SameElse(list', list) /\ Once(list'.users) /\ ToSet(list'.users) = shown
      /\ \A u \in shown : list'.info[u].real = accounts[u].real
      /\ view' \in ViewType /\ ViewOK(view', shown) /\ view'.initialized = view.initialized /\ view'.model = view.model
      /\ removing' = removing \union IF process = "daemon" THEN ToSet(list.users) \ shown ELSE {}
  BY <1>2, <1>3, <1>6 DEF Loads, StateType
<1>8. RowsFrom(events', events) /\ events' \in Seq(Event)
  BY <1>4 DEF Next1
<1>9. ToSet(list.users) \subseteq Users /\ ToSet(list.users) \intersect System = {}
  <2>1. list.users \in Seq(Users)
    BY <1>0 DEF ListType
  <2> QED BY <2>1, InSeq DEF SharedIInv, ShapeInv
<1>10. TypeOK'
  <2>1. touched' \subseteq Users
    BY <1>0, <1>1 DEF SharedIInv, TypeOK, AccountsOK
  <2>2. removing' \subseteq Users
    BY <1>7, <1>9 DEF SharedIInv, TypeOK
  <2>3. lost' \subseteq {"users", "sessions"}
    BY <1>0, <1>3
  <2> QED BY <1>3, <1>7, <1>8, <2>1, <2>2, <2>3 DEF SharedIInv, TypeOK
<1>11. EventInv'
  <2>1. /\ FromAccounts(events', list.state) /\ FromKernel(events', list.state, list.monitor)
        /\ FromSessions(events', list.session_added_signal, changes)
    BY <1>8, FewerSignals DEF SharedIInv, EventInv
  <2> QED BY <1>3, <1>5, <1>7, <2>1 DEF EventInv, SameElse
<1>12. ShapeInv'
  <2>1. list.paths = <<>>
    BY <1>5 DEF SharedIInv, ShapeInv
  <2>2. ToSet(list'.paths) = {} /\ Once(list'.paths)
    BY <1>7, <2>1 DEF SameElse, ToSet, Once
  <2>3. ToSet(list'.users) \intersect (System \union ToSet(list'.paths)) = {}
    BY <1>7, <2>2
  <2> QED BY <1>5, <1>7, <2>1, <2>2, <2>3 DEF SharedIInv, ShapeInv, SameElse
<1>13. KnownInv'
  <2>1. "users" \notin lost' => AsRead(list', accounts)
    BY <1>1, <1>3, <1>7 DEF AsRead
  <2> QED BY <1>3, <1>5, <1>7, <2>1 DEF KnownInv, SameElse
<1>14. SessionsInv'
  <2>1. \A i \in 1..Len(events') : events'[i].t = "session_removed" => events'[i].u \notin DOMAIN logins
    BY <1>8, FewerSignals DEF SharedIInv, SessionsInv
  <2>2. ASSUME "sessions" \notin lost', list.session_added_signal, NEW p \in DOMAIN logins PROVE Seen(p, events', list')
    <3>1. Seen(p, events, list)
      BY <1>3, <2>2 DEF SharedIInv, SessionsInv
    <3>2. Pending(events, "session_added", p) => Pending(events', "session_added", p)
      BY <1>3, <1>4 DEF Next1
    <3> QED BY <1>7, <3>1, <3>2 DEF Seen, SameElse
  <2> QED BY <1>3, <1>7, <2>1, <2>2 DEF SessionsInv, SameElse
<1>15. KeptInv'
  <2>1. ASSUME NEW u \in removing' PROVE MayGo(u, accounts, touched')
    <3>1. CASE u \in removing
      BY <1>1, <3>1 DEF SharedIInv, KeptInv, MayGo
    <3>2. CASE u \in ToSet(list.users) \ shown
      BY <1>1, <1>9, <3>2 DEF MayGo
    <3> QED BY <1>7, <2>1, <3>1, <3>2
  <2>2. DOMAIN accounts \ (System \union touched') \subseteq ToSet(list'.users)
    BY <1>1, <1>7
  <2>3. \A i \in 1..Len(events) : events[i].t = "deleted" => events[i].u \in touched
    BY DEF SharedIInv, KeptInv
  <2>4. \A i \in 1..Len(events') : events'[i].t = "deleted" => events'[i].u \in touched
    BY <1>8, <2>3, FewerSignals
  <2> QED BY <1>1, <1>3, <1>5, <1>7, <2>1, <2>2, <2>4 DEF KeptInv, SameElse
<1>16. CoveredInv'
  <2>1. process \in {"daemon", "greeter"}
    BY DEF SharedIInv, TypeOK
  <2>2. CASE process = "greeter"
    BY <1>3, <2>2 DEF SharedIInv, CoveredInv, LookedAt
  <2>3. CASE process = "daemon"
    <3>1. ToSet(list.users) \subseteq removing' \union ToSet(list'.users) /\ removing \subseteq removing'
      BY <1>7, <2>3
    <3> QED BY <1>3, <2>3, <3>1 DEF SharedIInv, CoveredInv, LookedAt
  <2> QED BY <2>1, <2>2, <2>3
<1>17. ViewInv'
  <2>1. view'.initialized => WrappersOK(list', view')
    BY <1>5, <1>7 DEF WrappersOK, ViewOK, SameElse
  <2>2. view'.model = "connected" => RowsOK(list', view')
    BY <1>5, <1>7 DEF RowsOK, ViewOK, NamesOnce, NamesOf, SameElse
  <2>3. ~view'.initialized => view' = NoView
    BY <1>7 DEF ViewOK
  <2> QED BY <1>3, <1>5, <1>7, <2>1, <2>2, <2>3 DEF SharedIInv, ViewInv, SameElse
<1> QED BY <1>10, <1>11, <1>12, <1>13, <1>14, <1>15, <1>16, <1>17 DEF SharedIInv

(***************************************************************************)
(* One user of AccountsService more                                        *)
(***************************************************************************)

(* The user's properties are known, and the user is in the list.           *)
WithInfo(s, u) == [s EXCEPT !.list.info[u] = accounts[u]]
WithUser(s, u) ==
  [WithInfo(s, u) EXCEPT !.list.users = insert_sorted(@, WithInfo(s, u).list.info, u), !.list.watched = @ \union {u}]
Readable(u, ok) == ok /\ u \in DOMAIN accounts /\ u \notin System

LEMMA AddUserIs ==
  ASSUME NEW s, NEW u, NEW emit, NEW ok
  PROVE  add_accounts_user(s, u, emit, ok) =
           IF ~Readable(u, ok) THEN s ELSE IF emit THEN emit_added(WithUser(s, u), u) ELSE WithUser(s, u)
<1>1. CASE ok /\ u \in DOMAIN accounts
  <2> DEFINE l == load_accounts_user(s, u, ok)
  <2>1. l = [s |-> WithInfo(s, u), result |-> u \notin System]
    BY <1>1, Zenon DEF load_accounts_user, WithInfo
  <2> HIDE DEF l
  <2>2. l.s = WithInfo(s, u) /\ l.result = (u \notin System)
    BY <2>1, Zenon
  <2>3. add_accounts_user(s, u, emit, ok) =
          LET s1 == [l.s EXCEPT !.list.users = insert_sorted(@, l.s.list.info, u), !.list.watched = @ \union {u}]
          IN IF ~l.result THEN s ELSE IF emit THEN emit_added(s1, u) ELSE s1
    BY Zenon DEF add_accounts_user, l
  <2>4. add_accounts_user(s, u, emit, ok) = IF ~(u \notin System) THEN s ELSE IF emit THEN emit_added(WithUser(s, u), u) ELSE WithUser(s, u)
    BY <2>2, <2>3, Zenon DEF WithUser
  <2> QED BY <1>1, <2>4, Zenon DEF Readable
<1>2. CASE ~(ok /\ u \in DOMAIN accounts)
  <2>1. load_accounts_user(s, u, ok) = [s |-> s, result |-> FALSE]
    BY <1>2, Zenon DEF load_accounts_user
  <2>2. ~load_accounts_user(s, u, ok).result
    BY <2>1
  <2> QED BY <1>2, <2>2, Zenon DEF add_accounts_user, Readable
<1> QED BY <1>1, <1>2

LEMMA WithInfoIs ==
  ASSUME NEW s \in StateType, AccountsOK(accounts), NEW u \in DOMAIN accounts, NEW r, r = WithInfo(s, u)
  PROVE  /\ r \in StateType /\ r.view = s.view /\ r.removing = s.removing /\ SameElse(r.list, s.list)
         /\ r.list.users = s.list.users /\ r.list.watched = s.list.watched
         /\ r.list.info = [s.list.info EXCEPT ![u] = accounts[u]]
<1> DEFINE info == [s.list.info EXCEPT ![u] = accounts[u]]
           l == [s.list EXCEPT !.info = info]
<1>1. s.list \in ListType /\ s.list.info \in [Users -> UserInfo] /\ accounts[u] \in UserInfo /\ u \in Users
  BY DEF StateType, ListType, AccountsOK
<1>2. info \in [Users -> UserInfo]
  BY <1>1
<1>3. r = [s EXCEPT !.list = l]
  BY <1>1 DEF WithInfo, StateType, ListType
<1> HIDE DEF info
<1>4. l \in ListType /\ SameElse(l, s.list) /\ l.users = s.list.users /\ l.watched = s.list.watched /\ l.info = info
  BY <1>1, <1>2 DEF ListType, SameElse
<1> HIDE DEF l
<1>5. r \in StateType /\ r.view = s.view /\ r.removing = s.removing /\ r.list = l
  BY <1>3, <1>4 DEF StateType
<1> QED BY <1>4, <1>5 DEF info

(* r is s with u in the list.                                              *)
UserIn(r, s, u) ==
  /\ r \in StateType /\ r.view = s.view /\ r.removing = s.removing /\ SameElse(r.list, s.list)
  /\ \E k \in 1..(Len(s.list.users) + 1) : r.list.users = InsertAt(s.list.users, k, u)
  /\ r.list.watched = s.list.watched \union {u}
  /\ r.list.info[u] = accounts[u] /\ \A w \in Users : w # u => r.list.info[w] = s.list.info[w]
  /\ ToSet(r.list.users) = ToSet(s.list.users) \union {u}
  /\ Once(s.list.users) /\ u \notin ToSet(s.list.users) => Once(r.list.users)

LEMMA WithUserIs ==
  ASSUME NEW s \in StateType, AccountsOK(accounts), NEW u \in DOMAIN accounts
  PROVE  UserIn(WithUser(s, u), s, u)
<1> DEFINE t == WithInfo(s, u)
           r == WithUser(s, u)
           q == s.list.users
           p == insert_sorted(q, t.list.info, u)
           W == s.list.watched \union {u}
           l == [t.list EXCEPT !.users = p, !.watched = W]
<1>1. /\ t \in StateType /\ t.view = s.view /\ t.removing = s.removing /\ SameElse(t.list, s.list)
      /\ t.list.users = q /\ t.list.watched = s.list.watched
      /\ t.list.info = [s.list.info EXCEPT ![u] = accounts[u]]
  BY WithInfoIs
<1> HIDE DEF t
<1>2. t.list \in ListType /\ q \in Seq(Users) /\ u \in Users /\ s.list.info \in [Users -> UserInfo] /\ W \in SUBSET Users
  BY <1>1 DEF StateType, ListType, AccountsOK
<1>3. PICK k \in 1..(Len(q) + 1) : p = InsertAt(q, k, u)
  BY <1>2, InsertSorted
<1>4. r = [t EXCEPT !.list = l]
  BY <1>1, <1>2 DEF WithUser, StateType, ListType, t
<1> HIDE DEF r, p, q
<1>5. p \in Seq(Users) /\ ToSet(p) = ToSet(q) \union {u} /\ (Once(q) /\ u \notin ToSet(q) => Once(p))
  BY <1>2, <1>3, Inserted
<1> HIDE DEF W
<1>6. l \in ListType /\ SameElse(l, t.list) /\ l.users = p /\ l.watched = W /\ l.info = t.list.info
  BY <1>2, <1>5 DEF ListType, SameElse
<1> HIDE DEF l
<1>7. r \in StateType /\ r.view = t.view /\ r.removing = t.removing /\ r.list = l
  BY <1>1, <1>4, <1>6 DEF StateType
<1>8. SameElse(r.list, s.list)
  BY <1>1, <1>6, <1>7 DEF SameElse
<1>9. r.list.info[u] = accounts[u] /\ \A w \in Users : w # u => r.list.info[w] = s.list.info[w]
  BY <1>1, <1>2, <1>6, <1>7
<1>10. r.list.watched = s.list.watched \union {u}
  BY <1>6, <1>7 DEF W
<1>11. UserIn(r, s, u)
  BY <1>1, <1>3, <1>5, <1>6, <1>7, <1>8, <1>9, <1>10 DEF UserIn, q
<1> QED BY <1>11 DEF r

(***************************************************************************)
(* Parts of the invariant after a signal has been handled                  *)
(***************************************************************************)

LEMMA EventAfter ==
  ASSUME SharedIInv, RowsFrom(events', events), UNCHANGED <<accounts, changes>>, SameElse(list', list),
         Told(events, DOMAIN accounts) => Told(events', DOMAIN accounts)
  PROVE  EventInv'
<1>1. /\ FromAccounts(events', list.state) /\ FromKernel(events', list.state, list.monitor)
      /\ FromSessions(events', list.session_added_signal, changes)
  BY FewerSignals DEF SharedIInv, EventInv
<1> QED BY <1>1 DEF SharedIInv, EventInv, SameElse

LEMMA SessionsAfter ==
  ASSUME SharedIInv, RowsFrom(events', events), UNCHANGED logins, SameElse(list', list),
         \A p : Pending(events, "session_added", p) => Pending(events', "session_added", p),
         "sessions" \in lost => "sessions" \in lost'
  PROVE  SessionsInv'
<1>1. \A i \in 1..Len(events') : events'[i].t = "session_removed" => events'[i].u \notin DOMAIN logins
  BY FewerSignals DEF SharedIInv, SessionsInv
<1>2. ASSUME "sessions" \notin lost', list.session_added_signal, NEW p \in DOMAIN logins PROVE Seen(p, events', list')
  <2>1. Seen(p, events, list)
    BY <1>2 DEF SharedIInv, SessionsInv
  <2> QED BY <2>1 DEF Seen, SameElse
<1> QED BY <1>1, <1>2 DEF SessionsInv, SameElse

LEMMA ViewAfter ==
  ASSUME SharedIInv, list.state = "accounts", UNCHANGED process, list'.state = "accounts",
         list'.session_added_signal = list.session_added_signal, list'.asking = list.asking,
         list'.session_paths = list.session_paths,
         view'.initialized = view.initialized, view'.model = view.model, ViewOK(view', ToSet(list'.users)),
         view.initialized => view'.list = list'.users,
         view.model = "connected" => Exact(list', view'.rows)
  PROVE  ViewInv'
<1>1. view'.initialized => WrappersOK(list', view')
  BY DEF WrappersOK, ViewOK
<1>2. view'.model = "connected" => RowsOK(list', view')
  BY DEF RowsOK, ViewOK, NamesOnce, NamesOf, Exact
<1>3. ~view'.initialized => view' = NoView
  BY DEF ViewOK
<1> QED BY <1>1, <1>2, <1>3 DEF SharedIInv, ViewInv

(* A signal of AccountsService.                                            *)
LEMMA SignalIs ==
  ASSUME SharedIInv, events # <<>>, ~Waiting, Head(events).t \in {"added", "deleted", "changed"}
  PROVE  /\ list.state = "accounts" /\ Head(events).u \in Users \ System /\ Next1(events, Head(events), Tail(events))
         /\ ToSet(list.paths) = {} /\ list.paths = <<>> /\ list.users \in Seq(Users) /\ Once(list.users)
         /\ ToSet(list.users) \subseteq Users /\ ToSet(list.users) \intersect System = {}
         /\ ToSet(list.users) \subseteq list.watched
         /\ view.initialized => view.list = list.users
         /\ view.model = "connected" => Exact(list, view.rows)
<1>1. Next1(events, Head(events), Tail(events))
  BY TailSignals DEF SharedIInv, TypeOK
<1>2. FromAccounts(events, list.state)
  BY DEF SharedIInv, EventInv
<1>3. list.state \in {"listing", "loading", "accounts"} /\ Head(events).u \in Users \ System
  BY <1>1, <1>2 DEF Next1, FromAccounts
<1>4. list.state = "accounts"
  BY <1>3 DEF Waiting
<1>5. list.users \in Seq(Users) /\ list.paths = <<>>
  BY <1>4 DEF SharedIInv, TypeOK, ListType, ShapeInv
<1>6. ToSet(list.users) \subseteq Users /\ ToSet(list.paths) = {}
  BY <1>5, InSeq DEF ToSet
<1>7. view.initialized => view.list = list.users
  BY <1>4 DEF SharedIInv, ViewInv, WrappersOK
<1>8. view.model = "connected" => Exact(list, view.rows)
  BY <1>4 DEF SharedIInv, ViewInv, RowsOK, Exact
<1> QED BY <1>1, <1>3, <1>4, <1>5, <1>6, <1>7, <1>8 DEF SharedIInv, ShapeInv

LEMMA ItemSame ==
  ASSUME NEW l, NEW m, NEW w, l.info[w] = m.info[w], l.sessions = m.sessions
  PROVE  UserItem(l, w) = UserItem(m, w)
<1>1. get_logged_in_cb(l, w) = get_logged_in_cb(m, w)
  BY Zenon DEF get_logged_in_cb
<1> QED BY <1>1, Zenon DEF UserItem

(* The rows stay right when something is learnt of another user only.      *)
LEMMA ExactStays ==
  ASSUME NEW l, NEW m, NEW rows, NEW u, Exact(l, rows), u \notin NamesOf(rows), NamesOf(rows) \subseteq Users,
         \A w \in Users : w # u => m.info[w] = l.info[w], m.sessions = l.sessions
  PROVE  Exact(m, rows)
<1> SUFFICES ASSUME NEW i \in 1..Len(rows) PROVE rows[i] = UserItem(m, rows[i].name)
  BY DEF Exact
<1>1. rows[i].name \in NamesOf(rows)
  BY DEF NamesOf
<1>2. rows[i].name \in Users /\ rows[i].name # u
  BY <1>1
<1>3. m.info[rows[i].name] = l.info[rows[i].name]
  BY <1>2
<1>4. UserItem(m, rows[i].name) = UserItem(l, rows[i].name)
  BY <1>3, ItemSame
<1> QED BY <1>4 DEF Exact

LEMMA ShowAdded ==
  ASSUME NEW s \in StateType, NEW X, ViewOK(s.view, X), NEW u \in Users, u \notin X,
         Once(s.list.users), ToSet(s.list.users) = X \union {u},
         s.view.initialized => \E k \in 1..(Len(s.view.list) + 1) : s.list.users = InsertAt(s.view.list, k, u),
         s.view.model = "connected" => Exact(s.list, s.view.rows),
         NEW r, r = emit_added(s, u)
  PROVE  /\ Same(r, s) /\ ViewOK(r.view, X \union {u})
         /\ s.view.initialized => r.view.list = s.list.users
         /\ s.view.model = "connected" => Exact(s.list, r.view.rows)
<1> DEFINE p == s.list.users
           q == s.view.list
<1>1. r = user_list_added_cb(s, u) /\ u \in ToSet(s.list.users)
  BY DEF emit_added
<1>2. p \in Seq(Users) /\ q \in Seq(Users) /\ s.view.rows \in Seq(Row) /\ s.list \in ListType
  BY DEF StateType, ListType, ViewType
<1>3. /\ Same(r, s) /\ ViewOK(r.view, X \union {u})
      /\ s.view.initialized => AddedAt(r, s, u)
      /\ s.view.model = "connected" => r.view.rows = Append(s.view.rows, UserItem(s.list, u))
  BY <1>1, WrapperAdded
<1>4. ASSUME s.view.initialized PROVE r.view.list = p
  <2>1. PICK k \in 1..(Len(q) + 1) : p = InsertAt(q, k, u)
    BY <1>4
  <2>2. PICK j \in 1..(Len(q) + 1) : r.view.list = InsertAt(q, j, u) /\ (Place(p, u) <= Len(q) + 1 => j = Place(p, u))
    BY <1>3, <1>4 DEF AddedAt
  <2> HIDE DEF p, q
  <2>3. PutIn(p, q, k, u) /\ Len(q) \in Nat
    BY <1>2, <2>1, Inserted
  <2>4. p[k] = u /\ k \in 1..Len(p) /\ k <= Len(q) + 1
    BY <2>3 DEF PutIn
  <2>5. Place(p, u) = k
    <3>1. Once(p)
      BY DEF p
    <3>2. Place(p, p[k]) = k
      BY <1>2, <2>4, <3>1, PlaceOnce
    <3> QED BY <2>4, <3>2
  <2>6. j = k
    BY <2>2, <2>4, <2>5
  <2> QED BY <2>1, <2>2, <2>6
<1>5. ASSUME s.view.model = "connected" PROVE Exact(s.list, r.view.rows)
  <2> DEFINE rows == s.view.rows
             x == UserItem(s.list, u)
             z == r.view.rows
  <2>1. x \in Row /\ x.name = u /\ rows \in Seq(Row)
    BY <1>2, ItemIs
  <2>2. z = Append(rows, x) /\ Exact(s.list, rows)
    BY <1>3, <1>5
  <2>3. x = UserItem(s.list, x.name)
    BY <2>1
  <2> HIDE DEF rows, x, z
  <2>4. \A i \in 1..Len(z) : z[i] = x \/ \E j \in 1..Len(rows) : z[i] = rows[j]
    BY <2>1, <2>2, RowMore
  <2>5. Exact(s.list, z)
    BY <2>2, <2>3, <2>4 DEF Exact
  <2> QED BY <2>5 DEF z
<1> QED BY <1>3, <1>4, <1>5

LEMMA LoadListedUserKeeps ==
  ASSUME SharedIInv, NEW ok \in BOOLEAN, load_listed_user(ok), UNCHANGED <<dirs, data>> PROVE SharedIInv'
<1> USE DEF load_listed_user
<1> DEFINE u == Head(list.paths)
           rest == Tail(list.paths)
           s == add_accounts_user(State, u, FALSE, ok)
           state == IF rest = <<>> THEN "accounts" ELSE "loading"
           new == IF Readable(u, ok) THEN {u} ELSE {}
<1>0. /\ list \in ListType /\ AccountsOK(accounts) /\ list.state = "loading" /\ list.paths \in Seq(Users)
      /\ list.users \in Seq(Users) /\ Once(list.users) /\ Once(list.paths) /\ list.paths # <<>>
      /\ ToSet(list.users) \intersect (System \union ToSet(list.paths)) = {}
      /\ ToSet(list.users) \subseteq list.watched /\ ~view.initialized /\ lost \subseteq {"users", "sessions"}
  BY DEF SharedIInv, TypeOK, ListType, ShapeInv, ViewInv
<1>1. /\ rest \in Seq(Users) /\ u \in Users /\ ToSet(list.paths) = {u} \union ToSet(rest)
      /\ Once(rest) /\ u \notin ToSet(rest)
  BY <1>0, TailIs
<1>2. /\ s \in StateType /\ s.view = view /\ s.removing = removing /\ SameElse(s.list, list)
      /\ ToSet(s.list.users) = ToSet(list.users) \union new /\ Once(s.list.users)
      /\ ToSet(s.list.users) \subseteq s.list.watched
      /\ \A w \in new : s.list.info[w] = accounts[w]
      /\ \A w \in Users : w \notin new => s.list.info[w] = list.info[w]
  <2>1. State \in StateType /\ State.list = list /\ State.view = view /\ State.removing = removing
    BY StateIs
  <2>2. CASE Readable(u, ok)
    <3>1. s = WithUser(State, u)
      BY <2>2, AddUserIs
    <3>2. u \in DOMAIN accounts /\ new = {u}
      BY <2>2 DEF Readable
    <3> HIDE DEF s, u, new
    <3>3. UserIn(s, State, u)
      BY <1>0, <2>1, <3>1, <3>2, WithUserIs
    <3>4. u \notin ToSet(list.users)
      BY <1>0, <1>1
    <3> QED BY <1>0, <2>1, <3>2, <3>3, <3>4 DEF UserIn
  <2>3. CASE ~Readable(u, ok)
    <3>1. s = State /\ new = {}
      BY <2>3, AddUserIs
    <3> HIDE DEF s, u, new
    <3> QED BY <1>0, <2>1, <3>1 DEF SameElse
  <2> QED BY <2>2, <2>3, ZenonT(60)
<1>3. /\ list' = [s.list EXCEPT !.paths = rest, !.state = IF rest = <<>> THEN "accounts" ELSE s.list.state]
      /\ view' = s.view /\ removing' = s.removing
  <2> HIDE DEF rest
  <2> DEFINE t == s
  <2>1. t \in StateType
    BY <1>2, ZenonT(60)
  <2>2. Becomes([t EXCEPT !.list.paths = rest, !.list.state = IF rest = <<>> THEN "accounts" ELSE @])
    BY DEF rest
  <2> HIDE DEF t, load_listed_user
  <2>3. /\ list' = [t.list EXCEPT !.paths = rest, !.state = IF rest = <<>> THEN "accounts" ELSE t.list.state]
        /\ view' = t.view /\ removing' = t.removing
    BY <2>1, <2>2 DEF Becomes, StateType, ListType
  <2> QED BY <2>3 DEF t
<1>4. /\ UNCHANGED <<process, accounts, dmrc, logins, events, changes>> /\ Outcome("users", ok)
      /\ touched' = IF ok THEN touched ELSE touched \union {u}
  OBVIOUS
<1>5. s.list \in ListType /\ s.list.state = "loading" /\ view' = view /\ removing' = removing
  BY <1>0, <1>2, <1>3, ZenonT(60) DEF StateType, SameElse
<1> HIDE DEF s, rest, load_listed_user, u
<1>6. state \in {"accounts", "loading"} /\ (state = "loading" <=> rest # <<>>)
  OBVIOUS
<1>7. /\ list' \in ListType /\ list'.state = state /\ list'.paths = rest /\ list'.users = s.list.users
      /\ list'.info = s.list.info /\ list'.watched = s.list.watched /\ list'.monitor = list.monitor
      /\ list'.session_added_signal = list.session_added_signal /\ list'.asking = list.asking
      /\ list'.session_paths = list.session_paths /\ list'.sessions = list.sessions
  <2>1. list' = [s.list EXCEPT !.paths = rest, !.state = state]
    BY <1>3, <1>5
  <2> HIDE DEF state
  <2> QED BY <1>1, <1>2, <1>5, <1>6, <2>1 DEF ListType, ListStates, SameElse
<1> HIDE DEF state
<1>8. /\ lost' \subseteq {"users", "sessions"} /\ (~ok => "users" \in lost') /\ (ok => lost' = lost)
      /\ "sessions" \in lost => "sessions" \in lost'
  BY <1>0, <1>4 DEF Outcome
<1>9. TypeOK'
  BY <1>1, <1>4, <1>5, <1>7, <1>8 DEF SharedIInv, TypeOK
<1>10. EventInv'
  <2>1. /\ FromAccounts(events, "loading") /\ FromKernel(events, "loading", list.monitor)
        /\ FromSessions(events, list.session_added_signal, changes) /\ Told(events, DOMAIN accounts)
    BY <1>0 DEF SharedIInv, EventInv
  <2>2. FromAccounts(events, state) /\ FromKernel(events, state, list.monitor)
    BY <1>6, <2>1 DEF FromAccounts, FromKernel
  <2> QED BY <1>4, <1>7, <2>1, <2>2 DEF EventInv
<1>11. new \subseteq DOMAIN accounts \ System /\ new \subseteq {u}
  BY DEF Readable
<1>12. ShapeInv'
  <2>1. ToSet(list'.users) \intersect (System \union ToSet(list'.paths)) = {}
    BY <1>0, <1>1, <1>2, <1>7, <1>11
  <2> HIDE DEF new
  <2> QED BY <1>0, <1>1, <1>2, <1>4, <1>6, <1>7, <2>1 DEF SharedIInv, ShapeInv
<1>13. KnownInv'
  <2> SUFFICES ASSUME "users" \notin lost' PROVE Listed(events, list', accounts) /\ Known(events, list', accounts)
    BY <1>4, <1>6, <1>7 DEF KnownInv
  <2>1. ok /\ Listed(events, list, accounts) /\ Known(events, list, accounts)
    BY <1>0, <1>8 DEF SharedIInv, KnownInv
  <2>2. ASSUME NEW w \in Users \ System, Silent(events, w)
        PROVE  w \in ToSet(list'.users) \union ToSet(list'.paths) <=> w \in DOMAIN accounts
    <3>1. w \in ToSet(list.users) \union ToSet(list.paths) <=> w \in DOMAIN accounts
      BY <2>1, <2>2 DEF Listed
    <3>2. CASE w = u
      <4>1. u \in new <=> u \in DOMAIN accounts
        BY <2>1, <2>2, <3>2 DEF Readable
      <4> HIDE DEF new
      <4> QED BY <1>0, <1>1, <1>2, <1>7, <3>2, <4>1
    <3>3. CASE w # u
      <4> HIDE DEF new
      <4> QED BY <1>1, <1>2, <1>7, <1>11, <3>1, <3>3
    <3> QED BY <3>2, <3>3
  <2>3. ASSUME NEW w \in ToSet(list'.users)
        PROVE  Pending(events, "deleted", w) \/ (w \in DOMAIN accounts /\ (list'.info[w] = accounts[w] \/ Pending(events, "changed", w)))
    <3> HIDE DEF new
    <3>1. w \in Users
      <4>1. ToSet(list.users) \subseteq Users
        BY <1>0, InSeq
      <4> QED BY <1>1, <1>2, <1>7, <1>11, <4>1
    <3>2. CASE w \in new
      BY <1>2, <1>7, <1>11, <3>2
    <3>3. CASE w \notin new
      BY <1>2, <1>7, <2>1, <3>1, <3>3 DEF Known
    <3> QED BY <3>2, <3>3
  <2> QED BY <2>2, <2>3 DEF Listed, Known
<1>14. SessionsInv'
  BY <1>4, <1>7, <1>8 DEF SharedIInv, SessionsInv, Seen
<1>15. KeptInv'
  <2>1. \A w \in removing' : MayGo(w, accounts, touched')
    BY <1>4, <1>5 DEF SharedIInv, KeptInv, MayGo
  <2>2. ASSUME NEW w \in DOMAIN accounts \ (System \union touched') PROVE w \in ToSet(list'.users) \union ToSet(list'.paths)
    <3>1. w \in ToSet(list.users) \union ToSet(list.paths)
      BY <1>0, <1>4 DEF SharedIInv, KeptInv
    <3>2. w = u => w \in new
      BY <1>4, <2>2 DEF Readable
    <3> HIDE DEF new
    <3> QED BY <1>1, <1>2, <1>7, <3>1, <3>2
  <2>3. \A i \in 1..Len(events) : events[i].t = "deleted" => events[i].u \in touched'
    BY <1>4 DEF SharedIInv, KeptInv
  <2>4. list'.state # "unloaded"
    BY <1>6, <1>7
  <2> QED BY <1>4, <2>1, <2>2, <2>3, <2>4 DEF KeptInv
<1>16. CoveredInv'
  <2>1. ToSet(list.users) \subseteq ToSet(list'.users)
    <3> HIDE DEF new
    <3> QED BY <1>2, <1>7
  <2> QED BY <1>4, <1>5, <2>1 DEF SharedIInv, CoveredInv, LookedAt
<1>17. ViewInv'
  BY <1>0, <1>5, NoViewIs DEF SharedIInv, ViewInv
<1> QED BY <1>9, <1>10, <1>12, <1>13, <1>14, <1>15, <1>16, <1>17 DEF SharedIInv

LEMMA UserAddedKeeps ==
  ASSUME SharedIInv, NEW ok \in BOOLEAN, events # <<>>, ~Waiting, accounts_user_added_cb(ok), UNCHANGED <<dirs, data>>
  PROVE  SharedIInv'
<1> USE DEF accounts_user_added_cb
<1> DEFINE e == Head(events)
           u == e.u
           X == ToSet(list.users)
           new == IF u \notin X /\ Readable(u, ok) THEN {u} ELSE {}
           r == IF u \in X THEN State ELSE add_accounts_user(State, u, TRUE, ok)
<1>0. /\ list \in ListType /\ AccountsOK(accounts) /\ lost \subseteq {"users", "sessions"}
  BY DEF SharedIInv, TypeOK
<1>1. /\ list.state = "accounts" /\ u \in Users \ System /\ Next1(events, e, Tail(events)) /\ e.t = "added"
      /\ ToSet(list.paths) = {} /\ list.paths = <<>> /\ list.users \in Seq(Users) /\ Once(list.users)
      /\ X \subseteq Users /\ X \intersect System = {}
      /\ X \subseteq list.watched
      /\ view.initialized => view.list = list.users
      /\ view.model = "connected" => Exact(list, view.rows)
  BY SignalIs
<1>2. /\ list' = r.list /\ view' = r.view /\ removing' = r.removing /\ events' = Tail(events) /\ Outcome("users", ok)
      /\ UNCHANGED <<process, accounts, dmrc, logins, touched, changes>>
  BY DEF Becomes
<1> HIDE DEF accounts_user_added_cb, e
<1>3. State \in StateType /\ State.list = list /\ State.view = view /\ State.removing = removing /\ ViewOK(view, X)
  BY StateIs
<1>4. /\ r \in StateType /\ SameElse(r.list, list) /\ r.removing = removing
      /\ ToSet(r.list.users) = X \union new /\ Once(r.list.users)
      /\ ToSet(r.list.users) \subseteq r.list.watched
      /\ \A w \in new : r.list.info[w] = accounts[w]
      /\ \A w \in Users : w \notin new => r.list.info[w] = list.info[w]
      /\ r.view.initialized = view.initialized /\ r.view.model = view.model /\ ViewOK(r.view, X \union new)
      /\ view.initialized => r.view.list = r.list.users
      /\ view.model = "connected" => Exact(r.list, r.view.rows)
  <2>1. CASE u \in X \/ ~Readable(u, ok)
    <3>1. r = State /\ new = {}
      BY <2>1, AddUserIs
    <3>2. X \union {} = X
      OBVIOUS
    <3> HIDE DEF r, new, u
    <3> QED BY <1>1, <1>3, <3>1, <3>2 DEF SameElse
  <2>2. CASE u \notin X /\ Readable(u, ok)
    <3> DEFINE t == WithUser(State, u)
    <3>1. r = emit_added(t, u) /\ new = {u} /\ u \in DOMAIN accounts
      BY <2>2, AddUserIs DEF Readable
    <3> HIDE DEF r, new, u, X
    <3>2. UserIn(t, State, u)
      BY <1>0, <1>3, <3>1, WithUserIs
    <3> HIDE DEF t
    <3>3. /\ t \in StateType /\ t.view = view /\ t.removing = removing /\ SameElse(t.list, list)
          /\ \E k \in 1..(Len(list.users) + 1) : t.list.users = InsertAt(list.users, k, u)
          /\ t.list.watched = list.watched \union {u}
          /\ t.list.info[u] = accounts[u] /\ \A w \in Users : w # u => t.list.info[w] = list.info[w]
          /\ ToSet(t.list.users) = X \union {u} /\ Once(t.list.users)
      BY <1>1, <1>3, <2>2, <3>2 DEF UserIn, X
    <3>4. ASSUME view.model = "connected" PROVE Exact(t.list, t.view.rows)
      <4>1. NamesOf(view.rows) = X
        BY <1>3, <3>4 DEF ViewOK
      <4>2. t.list.sessions = list.sessions
        BY <3>3 DEF SameElse
      <4>3. Exact(t.list, view.rows)
        BY <1>1, <2>2, <3>3, <3>4, <4>1, <4>2, ExactStays
      <4> QED BY <3>3, <4>3
    <3>5. t.view.initialized => \E k \in 1..(Len(t.view.list) + 1) : t.list.users = InsertAt(t.view.list, k, u)
      BY <1>1, <3>3
    <3>6. /\ Same(r, t) /\ ViewOK(r.view, X \union {u})
          /\ t.view.initialized => r.view.list = t.list.users
          /\ t.view.model = "connected" => Exact(t.list, r.view.rows)
      <4>1. u \in Users /\ u \notin X /\ ViewOK(t.view, X) /\ (t.view.model = "connected" => Exact(t.list, t.view.rows))
        BY <1>1, <1>3, <2>2, <3>3, <3>4
      <4> QED BY <3>1, <3>3, <3>5, <4>1, ShowAdded
    <3>7. r \in StateType /\ r.list = t.list /\ r.removing = t.removing /\ r.view.initialized = view.initialized /\ r.view.model = view.model
      BY <3>3, <3>6 DEF Same
    <3>8. ToSet(r.list.users) \subseteq r.list.watched
      BY <1>1, <3>3, <3>7 DEF X
    <3>9. \A w \in Users : w \notin new => r.list.info[w] = list.info[w]
      BY <3>1, <3>3, <3>7
    <3> QED BY <3>1, <3>3, <3>6, <3>7, <3>8, <3>9
  <2> QED BY <2>1, <2>2
<1> HIDE DEF r
<1>5. /\ RowsFrom(events', events) /\ events' \in Seq(Event) /\ (Told(events, DOMAIN accounts) => Told(events', DOMAIN accounts))
      /\ \A p : Pending(events, "session_added", p) => Pending(events', "session_added", p)
  BY <1>1, <1>2 DEF Next1
<1>6. /\ lost' \subseteq {"users", "sessions"} /\ (~ok => "users" \in lost') /\ (ok => lost' = lost)
      /\ "sessions" \in lost => "sessions" \in lost'
  BY <1>0, <1>2 DEF Outcome
<1>7. SameElse(list', list) /\ list' \in ListType /\ view' \in ViewType /\ removing' = removing
  BY <1>2, <1>4 DEF StateType
<1>8. TypeOK'
  BY <1>2, <1>5, <1>6, <1>7 DEF SharedIInv, TypeOK
<1>9. EventInv'
  BY <1>2, <1>5, <1>7, EventAfter
<1>10. new \subseteq DOMAIN accounts \ System /\ new \subseteq {u}
  BY DEF Readable
<1>11. ShapeInv'
  <2>1. list'.paths = <<>> /\ ToSet(list'.paths) = {} /\ Once(list'.paths) /\ list'.state = "accounts"
    BY <1>1, <1>7 DEF SameElse, SharedIInv, ShapeInv
  <2>2. ToSet(list'.users) \intersect (System \union ToSet(list'.paths)) = {}
    BY <1>1, <1>2, <1>4, <1>10, <2>1
  <2> HIDE DEF new
  <2> QED BY <1>2, <1>4, <1>7, <2>1, <2>2 DEF SharedIInv, ShapeInv, SameElse
<1>12. KnownInv'
  <2> SUFFICES ASSUME "users" \notin lost' PROVE Listed(events', list', accounts) /\ Known(events', list', accounts)
    BY <1>1, <1>2, <1>7 DEF KnownInv, SameElse
  <2>1. ok /\ Listed(events, list, accounts) /\ Known(events, list, accounts) /\ Told(events, DOMAIN accounts)
    BY <1>1, <1>6 DEF SharedIInv, KnownInv, EventInv
  <2>2. ToSet(list'.users) = X \union new /\ ToSet(list'.paths) = {} /\ list'.info = r.list.info
    BY <1>1, <1>2, <1>4, <1>7 DEF SameElse
  <2>3. ASSUME NEW w \in Users \ System, Silent(events', w)
        PROVE  w \in ToSet(list'.users) \union ToSet(list'.paths) <=> w \in DOMAIN accounts
    <3>1. CASE w = u
      <4>1. u \in DOMAIN accounts
        BY <1>1, <1>2, <2>1, <2>3, <3>1 DEF Next1
      <4>2. u \in X \union new
        BY <1>1, <2>1, <4>1 DEF Readable
      <4> HIDE DEF new, X, u
      <4> QED BY <2>2, <3>1, <4>1, <4>2
    <3>2. CASE w # u
      <4>1. Silent(events, w)
        BY <1>1, <1>2, <2>3, <3>2 DEF Next1
      <4>2. w \in X <=> w \in DOMAIN accounts
        BY <1>1, <2>1, <2>3, <4>1 DEF Listed
      <4> HIDE DEF new, X, u
      <4> QED BY <1>10, <2>2, <3>2, <4>2
    <3> QED BY <3>1, <3>2
  <2>4. ASSUME NEW w \in ToSet(list'.users)
        PROVE  Pending(events', "deleted", w) \/ (w \in DOMAIN accounts /\ (list'.info[w] = accounts[w] \/ Pending(events', "changed", w)))
    <3> HIDE DEF new, u
    <3>1. CASE w \in new
      BY <1>4, <1>10, <2>2, <3>1
    <3>2. CASE w \in X /\ w \notin new
      <4>1. Pending(events, "deleted", w) \/ (w \in DOMAIN accounts /\ (list.info[w] = accounts[w] \/ Pending(events, "changed", w)))
        BY <2>1, <3>2 DEF Known
      <4>2. \A kind \in {"deleted", "changed"} : Pending(events, kind, w) => Pending(events', kind, w)
        BY <1>1, <1>2 DEF Next1
      <4>3. list'.info[w] = list.info[w]
        BY <1>1, <1>4, <2>2, <3>2
      <4> QED BY <4>1, <4>2, <4>3
    <3> QED BY <2>2, <2>4, <3>1, <3>2
  <2> QED BY <2>3, <2>4 DEF Listed, Known
<1>13. SessionsInv'
  BY <1>2, <1>5, <1>6, <1>7, SessionsAfter
<1>14. X \subseteq ToSet(list'.users)
  BY <1>2, <1>4
<1>15. KeptInv'
  <2>1. \A i \in 1..Len(events) : events[i].t = "deleted" => events[i].u \in touched
    BY DEF SharedIInv, KeptInv
  <2>2. \A i \in 1..Len(events') : events'[i].t = "deleted" => events'[i].u \in touched
    BY <1>5, <2>1, FewerSignals
  <2> HIDE DEF new, u, e
  <2> QED BY <1>2, <1>7, <1>14, <2>2 DEF SharedIInv, KeptInv, SameElse
<1>16. CoveredInv'
  BY <1>2, <1>7, <1>14 DEF SharedIInv, CoveredInv, LookedAt
<1>17. ViewInv'
  <2>1. ViewOK(view', ToSet(list'.users)) /\ view'.initialized = view.initialized /\ view'.model = view.model
    BY <1>2, <1>4
  <2>2. (view.initialized => view'.list = list'.users) /\ (view.model = "connected" => Exact(list', view'.rows))
    BY <1>2, <1>4
  <2>3. /\ list'.state = "accounts" /\ list'.session_added_signal = list.session_added_signal
        /\ list'.asking = list.asking /\ list'.session_paths = list.session_paths
    BY <1>1, <1>7 DEF SameElse
  <2> QED BY <1>1, <1>2, <2>1, <2>2, <2>3, ViewAfter
<1> QED BY <1>8, <1>9, <1>11, <1>12, <1>13, <1>15, <1>16, <1>17 DEF SharedIInv

(***************************************************************************)
(* A user of AccountsService goes                                          *)
(***************************************************************************)

(* r is s without user u of the users X.                                   *)
UserOut(r, s, X, u) ==
  /\ r \in StateType /\ SameElse(r.list, s.list) /\ r.list.info = s.list.info
  /\ r.list.users \in Seq(Users) /\ Once(r.list.users) /\ ToSet(r.list.users) = X \ {u}
  /\ r.list.watched = s.list.watched \ {u}
  /\ r.removing = s.removing \union IF process = "daemon" THEN {u} ELSE {}
  /\ r.view.initialized = s.view.initialized /\ r.view.model = s.view.model /\ ViewOK(r.view, X \ {u})
  /\ s.view.initialized => r.view.list = r.list.users
  /\ s.view.model = "connected" => Exact(r.list, r.view.rows)

LEMMA UserOutIs ==
  ASSUME NEW s \in StateType, Once(s.list.users), NEW u \in ToSet(s.list.users),
         NEW X, X = ToSet(s.list.users), ViewOK(s.view, X),
         process = "daemon" => ~s.view.initialized,
         s.view.initialized => s.view.list = s.list.users,
         s.view.model = "connected" => Exact(s.list, s.view.rows),
         NEW r, r = Freed(user_removed_cb([s EXCEPT !.list.users = RemoveFirst(@, u)], u), u)
  PROVE  UserOut(r, s, X, u)
<1> DEFINE p == RemoveFirst(s.list.users, u)
           l == [s.list EXCEPT !.users = p]
           t == [s EXCEPT !.list = l]
           v == user_removed_cb(t, u)
<1>1. s.list \in ListType /\ s.list.users \in Seq(Users)
  BY DEF StateType, ListType
<1>2. p \in Seq(Users) /\ Once(p) /\ ToSet(p) = X \ {u} /\ u \in Users
  BY <1>1, RemovedFirst, InSeq
<1>3. t = [s EXCEPT !.list.users = RemoveFirst(@, u)]
  BY Zenon
<1> HIDE DEF p
<1>4. /\ l \in ListType /\ SameElse(l, s.list) /\ l.users = p /\ l.watched = s.list.watched /\ l.info = s.list.info
  BY <1>1, <1>2 DEF ListType, SameElse
<1> HIDE DEF l
<1>5. t \in StateType /\ t.list = l /\ t.view = s.view /\ t.removing = s.removing
  BY <1>4 DEF StateType
<1> HIDE DEF t
<1>6. r = Freed(v, u)
  BY <1>3
<1>7. /\ v \in StateType /\ v.list = l /\ v.removing = s.removing \union IF process = "daemon" THEN {u} ELSE {}
      /\ v.view.initialized = s.view.initialized /\ v.view.model = s.view.model /\ ViewOK(v.view, X \ {u})
      /\ s.view.initialized => v.view.list = p
      /\ s.view.model = "connected" => RowsFrom(v.view.rows, s.view.rows)
  <2>1. CASE process = "daemon"
    <3>1. v = [t EXCEPT !.removing = @ \union {u}]
      BY <2>1, Zenon DEF user_removed_cb
    <3>2. v \in StateType /\ v.list = l /\ v.removing = s.removing \union {u} /\ v.view = s.view
      BY <1>2, <1>5, <3>1 DEF StateType
    <3>3. ~s.view.initialized /\ s.view = NoView
      BY <2>1 DEF ViewOK
    <3>4. ViewOK(s.view, X \ {u})
      BY <3>3, NoViewIs DEF ViewOK
    <3>5. s.view.model # "connected"
      BY <3>3, NoViewIs
    <3> QED BY <2>1, <3>2, <3>3, <3>4, <3>5
  <2>2. CASE process # "daemon"
    <3>1. v = user_list_removed_cb(t, u)
      BY <2>2, Zenon DEF user_removed_cb
    <3> HIDE DEF v
    <3>2. /\ Same(v, t) /\ ViewOK(v.view, X \ {u})
          /\ t.view.initialized /\ u \in X => v.view.list = RemoveFirst(t.view.list, u)
          /\ t.view.model = "connected" => RowsFrom(v.view.rows, t.view.rows)
      <4>1. t \in StateType /\ ViewOK(t.view, X) /\ u \in Users
        BY <1>2, <1>5
      <4> QED BY <3>1, <4>1, WrapperRemoved
    <3>3. s.view.initialized => v.view.list = p
      BY <1>5, <3>2 DEF p
    <3> QED BY <1>5, <2>2, <3>2, <3>3 DEF Same
  <2> QED BY <2>1, <2>2
<1> HIDE DEF v
<1>8. /\ r \in StateType /\ LikeList(r.list, l) /\ r.view = v.view /\ r.removing = v.removing
      /\ r.list.watched = l.watched \ {u}
  <2>1. /\ r \in StateType /\ LikeList(r.list, v.list) /\ r.view = v.view /\ r.removing = v.removing
        /\ r.list.watched = v.list.watched \ {u}
    <3>1. v \in StateType
      BY <1>7
    <3> QED BY <1>6, <3>1, FreedIs, ZenonT(60)
  <2> QED BY <1>7, <2>1
<1>9. r.list.users = p /\ r.list.info = s.list.info /\ SameElse(r.list, s.list)
  BY <1>4, <1>8 DEF LikeList, SameElse
<1>10. ASSUME s.view.model = "connected" PROVE Exact(r.list, r.view.rows)
  <2>1. \A w : UserItem(r.list, w) = UserItem(s.list, w)
    <3> TAKE w
    <3>1. r.list.info[w] = s.list.info[w] /\ r.list.sessions = s.list.sessions
      BY <1>9 DEF SameElse
    <3> QED BY <3>1, ItemSame
  <2>2. Exact(s.list, s.view.rows) /\ RowsFrom(r.view.rows, s.view.rows)
    BY <1>7, <1>8, <1>10
  <2> QED BY <2>1, <2>2 DEF Exact, RowsFrom
<1> QED BY <1>2, <1>4, <1>7, <1>8, <1>9, <1>10 DEF UserOut

LEMMA UserDeletedKeeps ==
  ASSUME SharedIInv, events # <<>>, ~Waiting, accounts_user_deleted_cb, UNCHANGED <<dirs, data>>
  PROVE  SharedIInv'
<1> USE DEF accounts_user_deleted_cb
<1> DEFINE e == Head(events)
           u == e.u
           X == ToSet(list.users)
           r == Freed(user_removed_cb([State EXCEPT !.list.users = RemoveFirst(@, u)], u), u)
           D == IF u \in X THEN {u} ELSE {}
<1>0. /\ list \in ListType /\ AccountsOK(accounts) /\ events \in Seq(Event) /\ lost \subseteq {"users", "sessions"}
      /\ process \in {"daemon", "greeter"}
  BY DEF SharedIInv, TypeOK
<1>1. /\ list.state = "accounts" /\ u \in Users \ System /\ Next1(events, e, Tail(events)) /\ e.t = "deleted"
      /\ ToSet(list.paths) = {} /\ list.paths = <<>> /\ list.users \in Seq(Users) /\ Once(list.users)
      /\ X \subseteq Users /\ X \intersect System = {}
      /\ X \subseteq list.watched
      /\ view.initialized => view.list = list.users
      /\ view.model = "connected" => Exact(list, view.rows)
  BY SignalIs
<1>2. UNCHANGED <<process, accounts, dmrc, logins, lost, touched, changes>>
  OBVIOUS
<1>3. State \in StateType /\ State.list = list /\ State.view = view /\ State.removing = removing /\ ViewOK(view, X)
      /\ (process = "daemon" => ~view.initialized)
  BY StateIs
<1>4. /\ list' \in ListType /\ view' \in ViewType /\ SameElse(list', list) /\ list'.info = list.info
      /\ Once(list'.users) /\ ToSet(list'.users) = X \ D /\ list'.watched = list.watched \ D
      /\ removing' = removing \union IF process = "daemon" THEN D ELSE {}
      /\ view'.initialized = view.initialized /\ view'.model = view.model /\ ViewOK(view', X \ D)
      /\ view.initialized => view'.list = list'.users
      /\ view.model = "connected" => Exact(list', view'.rows)
  <2>1. CASE u \in X
    <3>1. list' = r.list /\ view' = r.view /\ removing' = r.removing /\ D = {u}
      BY <2>1 DEF Becomes
    <3> HIDE DEF accounts_user_deleted_cb, D, u
    <3>2. UserOut(r, State, X, u)
      BY <1>1, <1>3, <2>1, UserOutIs
    <3> HIDE DEF r, X
    <3> QED BY <1>3, <3>1, <3>2 DEF UserOut, StateType
  <2>2. CASE u \notin X
    <3>1. list' = list /\ view' = view /\ removing' = removing /\ D = {} /\ X \ {} = X
      BY <2>2
    <3>2. view \in ViewType /\ list.watched \ {} = list.watched
      BY DEF SharedIInv, TypeOK
    <3> HIDE DEF accounts_user_deleted_cb, D, u
    <3> QED BY <1>0, <1>1, <1>3, <3>1, <3>2 DEF SameElse
  <2> QED BY <2>1, <2>2
<1>5. /\ RowsFrom(events', events) /\ events' \in Seq(Event)
      /\ Told(events, DOMAIN accounts) =>
           Told(events', DOMAIN accounts) /\ (Silent(events', u) => u \notin DOMAIN accounts)
      /\ \A w : Silent(events', w) /\ w # u => Silent(events, w)
      /\ \A p : Pending(events, "session_added", p) => Pending(events', "session_added", p)
      /\ \A kind \in {"deleted", "changed"} : \A w : w # u /\ Pending(events, kind, w) => Pending(events', kind, w)
      /\ \A w : w \notin X => (Pending(events, "deleted", w) /\ w # u => Pending(events', "deleted", w))
  <2> DEFINE q == Tail(events)
  <2>1. /\ q \in Seq(Event) /\ RowsFrom(q, events)
        /\ Told(events, DOMAIN accounts) => Told(q, DOMAIN accounts) /\ (Silent(q, u) => u \notin DOMAIN accounts)
        /\ \A w : Silent(q, w) /\ w # u => Silent(events, w)
        /\ \A kind, w : Pending(events, kind, w) => Pending(q, kind, w) \/ (kind = "deleted" /\ w = u)
    <3> HIDE DEF q, accounts_user_deleted_cb
    <3> QED BY <1>1 DEF Next1, q
  <2>2. NoChanges(q, u, Without(q, {[t |-> "changed", u |-> u]}))
    <3> HIDE DEF q, u
    <3> QED BY <2>1, DropChanges
  <2>3. CASE u \in X
    <3>1. events' = Without(q, {[t |-> "changed", u |-> u]})
      BY <2>3
    <3>2. NoChanges(q, u, events')
      BY <2>2, <3>1
    <3> HIDE DEF q, u, accounts_user_deleted_cb
    <3>3. RowsFrom(events', events)
      BY <2>1, <3>2 DEF NoChanges, RowsFrom
    <3>4. \A kind \in {"deleted", "changed"} : \A w : w # u /\ Pending(events, kind, w) => Pending(events', kind, w)
      BY <2>1, <3>2 DEF NoChanges
    <3>5. \A p : Pending(events, "session_added", p) => Pending(events', "session_added", p)
      BY <2>1, <3>2 DEF NoChanges
    <3>6. Told(events, DOMAIN accounts) =>
           Told(events', DOMAIN accounts) /\ (Silent(events', u) => u \notin DOMAIN accounts)
      BY <2>1, <3>2 DEF NoChanges
    <3>7. \A w : Silent(events', w) /\ w # u => Silent(events, w)
      BY <2>1, <3>2 DEF NoChanges
    <3> QED BY <3>2, <3>3, <3>4, <3>5, <3>6, <3>7 DEF NoChanges
  <2>4. CASE u \notin X
    <3>1. events' = q
      BY <2>4
    <3> HIDE DEF q, u, accounts_user_deleted_cb
    <3> QED BY <2>1, <3>1
  <2> QED BY <2>3, <2>4
<1> HIDE DEF accounts_user_deleted_cb
<1>6. D \subseteq {u} /\ (u \in X => u \in D)
  OBVIOUS
<1> HIDE DEF r, D
<1>7. TypeOK'
  <2>1. removing' \subseteq Users
    BY <1>1, <1>4, <1>6 DEF SharedIInv, TypeOK
  <2> HIDE DEF u, e, X
  <2> QED BY <1>2, <1>4, <1>5, <2>1 DEF SharedIInv, TypeOK
<1>8. EventInv'
  BY <1>2, <1>4, <1>5, EventAfter
<1>9. ShapeInv'
  <2>1. list'.paths = <<>> /\ ToSet(list'.paths) = {} /\ Once(list'.paths) /\ list'.state = "accounts"
    BY <1>1, <1>4 DEF SameElse, SharedIInv, ShapeInv
  <2>2. ToSet(list'.users) \intersect (System \union ToSet(list'.paths)) = {} /\ ToSet(list'.users) \subseteq list'.watched
    BY <1>1, <1>4, <2>1
  <2> QED BY <1>2, <1>4, <2>1, <2>2 DEF SharedIInv, ShapeInv, SameElse
<1>10. KnownInv'
  <2> SUFFICES ASSUME "users" \notin lost' PROVE Listed(events', list', accounts) /\ Known(events', list', accounts)
    BY <1>1, <1>2, <1>4 DEF KnownInv, SameElse
  <2>1. Listed(events, list, accounts) /\ Known(events, list, accounts) /\ Told(events, DOMAIN accounts)
    BY <1>1, <1>2 DEF SharedIInv, KnownInv, EventInv
  <2>2. ToSet(list'.users) = X \ D /\ ToSet(list'.paths) = {} /\ list'.info = list.info
    BY <1>1, <1>4 DEF SameElse
  <2> HIDE DEF u, e
  <2>3. ASSUME NEW w \in Users \ System, Silent(events', w)
        PROVE  w \in ToSet(list'.users) \union ToSet(list'.paths) <=> w \in DOMAIN accounts
    <3>1. CASE w = u
      <4>1. u \notin DOMAIN accounts
        BY <1>5, <2>1, <2>3, <3>1
      <4>2. u \notin X \ D
        BY <1>6
      <4> QED BY <2>2, <3>1, <4>1, <4>2
    <3>2. CASE w # u
      <4>1. Silent(events, w)
        BY <1>5, <2>3, <3>2
      <4>2. w \in X <=> w \in DOMAIN accounts
        BY <1>1, <2>1, <2>3, <4>1 DEF Listed
      <4> HIDE DEF X
      <4> QED BY <1>6, <2>2, <3>2, <4>2
    <3> QED BY <3>1, <3>2
  <2>4. ASSUME NEW w \in ToSet(list'.users)
        PROVE  Pending(events', "deleted", w) \/ (w \in DOMAIN accounts /\ (list'.info[w] = accounts[w] \/ Pending(events', "changed", w)))
    <3>1. w \in X /\ w # u
      BY <1>6, <2>2, <2>4
    <3>2. Pending(events, "deleted", w) \/ (w \in DOMAIN accounts /\ (list.info[w] = accounts[w] \/ Pending(events, "changed", w)))
      BY <2>1, <3>1 DEF Known
    <3> QED BY <1>5, <2>2, <3>1, <3>2
  <2> QED BY <2>3, <2>4 DEF Listed, Known
<1>11. SessionsInv'
  BY <1>2, <1>4, <1>5, SessionsAfter
<1>12. KeptInv'
  <2>1. \A i \in 1..Len(events) : events[i].t = "deleted" => events[i].u \in touched
    BY DEF SharedIInv, KeptInv
  <2>2. \A i \in 1..Len(events') : events'[i].t = "deleted" => events'[i].u \in touched
    BY <1>5, <2>1, FewerSignals
  <2>3. u \in touched
    BY <1>1, <2>1 DEF Next1
  <2> HIDE DEF u, e
  <2>4. \A w \in removing' : MayGo(w, accounts, touched)
    BY <1>4, <1>6, <2>3 DEF SharedIInv, KeptInv, MayGo
  <2>5. DOMAIN accounts \ (System \union touched) \subseteq ToSet(list'.users)
    <3>1. DOMAIN accounts \ (System \union touched) \subseteq X
      BY <1>1 DEF SharedIInv, KeptInv
    <3> QED BY <1>4, <1>6, <2>3, <3>1
  <2> QED BY <1>1, <1>2, <1>4, <2>2, <2>4, <2>5 DEF SharedIInv, KeptInv, SameElse
<1>13. CoveredInv'
  <2>1. CASE process = "greeter"
    BY <1>2, <2>1 DEF SharedIInv, CoveredInv, LookedAt
  <2>2. CASE process = "daemon"
    <3>1. X \subseteq removing' \union ToSet(list'.users) /\ removing \subseteq removing'
      BY <1>4, <2>2
    <3> QED BY <1>2, <2>2, <3>1 DEF SharedIInv, CoveredInv, LookedAt
  <2> QED BY <1>0, <2>1, <2>2
<1>14. ViewInv'
  <2>1. /\ list'.state = "accounts" /\ list'.session_added_signal = list.session_added_signal
        /\ list'.asking = list.asking /\ list'.session_paths = list.session_paths
    BY <1>1, <1>4 DEF SameElse
  <2>2. ViewOK(view', ToSet(list'.users))
    BY <1>4
  <2> QED BY <1>1, <1>2, <1>4, <2>1, <2>2, ViewAfter
<1> QED BY <1>7, <1>8, <1>9, <1>10, <1>11, <1>12, <1>13, <1>14 DEF SharedIInv

(***************************************************************************)
(* A user of AccountsService changes                                       *)
(***************************************************************************)

(* The row of the user the signal is about is made again, and the others   *)
(* are right already.                                                      *)
LEMMA ShowChanged ==
  ASSUME NEW s \in StateType, NEW X, X = ToSet(s.list.users), ViewOK(s.view, X), NEW u \in Users,
         s.view.initialized => s.view.list = s.list.users,
         NEW l, s.view.model = "connected" => Exact(l, s.view.rows),
         \A w \in Users : w # u => UserItem(l, w) = UserItem(s.list, w),
         NEW r, r = user_list_changed_cb(s, u)
  PROVE  /\ Same(r, s) /\ ViewOK(r.view, X) /\ r.view.list = s.view.list
         /\ s.view.model = "connected" => Exact(s.list, r.view.rows)
<1>1. s.list.users \in Seq(Users) /\ s.view.list \in Seq(Users) /\ s.view.rows \in Seq(Row) /\ s.list \in ListType
  BY DEF StateType, ListType, ViewType
<1>2. /\ Same(r, s) /\ ViewOK(r.view, X) /\ r.view.list = s.view.list
      /\ Len(r.view.rows) = Len(s.view.rows)
      /\ s.view.model = "connected" /\ s.view.list = s.list.users /\ u \in ToSet(s.list.users) =>
           RowAgain(r.view.rows, s.view.rows, s.list, u)
  BY WrapperChanged
<1> DEFINE rows == s.view.rows
<1>3. ASSUME s.view.model = "connected" PROVE Exact(s.list, r.view.rows)
  <2>1. s.view.initialized
    BY <1>3, NoViewIs DEF ViewOK
  <2>2. NamesOf(rows) = X /\ Exact(l, rows)
    BY <1>3 DEF ViewOK
  <2>3. \A i \in 1..Len(rows) : rows[i].name \in X /\ rows[i].name \in Users /\ rows[i] = UserItem(l, rows[i].name)
    <3>1. \A i \in 1..Len(rows) : rows[i].name \in X
      BY <2>2 DEF NamesOf
    <3>2. X \subseteq Users
      BY <1>1, InSeq
    <3> QED BY <2>2, <3>1, <3>2 DEF Exact
  <2>4. CASE u \in X
    <3>1. \A i \in 1..Len(rows) : r.view.rows[i] = IF rows[i].name = u THEN UserItem(s.list, u) ELSE rows[i]
      BY <1>2, <1>3, <2>1, <2>4 DEF RowAgain
    <3>2. UserItem(s.list, u).name = u
      BY <1>1, ItemIs
    <3> HIDE DEF rows
    <3>3. ASSUME NEW i \in 1..Len(rows) PROVE r.view.rows[i] = UserItem(s.list, r.view.rows[i].name)
      BY <2>3, <3>1, <3>2
    <3>4. Len(r.view.rows) = Len(rows)
      BY <1>2 DEF rows
    <3> QED BY <3>3, <3>4 DEF Exact
  <2>5. CASE u \notin X
    <3>1. Place(s.list.users, u) = 0
      BY <1>1, <2>5, PlaceIs
    <3>2. Place(s.list.users, u) \notin DOMAIN s.view.list
      BY <1>1, <3>1
    <3>3. r = s
      BY <3>2, Zenon DEF user_list_changed_cb
    <3> HIDE DEF rows
    <3>4. \A i \in 1..Len(rows) : rows[i] = UserItem(s.list, rows[i].name)
      BY <2>3, <2>5
    <3> QED BY <3>3, <3>4 DEF Exact, rows
  <2> QED BY <2>4, <2>5
<1> QED BY <1>2, <1>3

LEMMA ReloadIs ==
  ASSUME NEW s, NEW u, u \notin System, NEW ok
  PROVE  (IF load_accounts_user(s, u, ok).result THEN user_changed_cb(load_accounts_user(s, u, ok).s, u)
          ELSE load_accounts_user(s, u, ok).s)
           = IF Readable(u, ok) THEN user_list_changed_cb(WithInfo(s, u), u) ELSE s
<1> DEFINE l == load_accounts_user(s, u, ok)
<1>1. CASE ok /\ u \in DOMAIN accounts
  <2>1. l = [s |-> WithInfo(s, u), result |-> u \notin System]
    BY <1>1, Zenon DEF load_accounts_user, WithInfo
  <2> HIDE DEF l
  <2>2. l.s = WithInfo(s, u) /\ l.result = (u \notin System)
    BY <2>1, Zenon
  <2>3. (IF l.result THEN user_changed_cb(l.s, u) ELSE l.s) = user_list_changed_cb(WithInfo(s, u), u)
    BY <2>2, Zenon DEF user_changed_cb
  <2> QED BY <1>1, <2>3, Zenon DEF Readable, l
<1>2. CASE ~(ok /\ u \in DOMAIN accounts)
  <2>1. l = [s |-> s, result |-> FALSE]
    BY <1>2, Zenon DEF load_accounts_user
  <2> HIDE DEF l
  <2>2. ~l.result /\ l.s = s
    BY <2>1
  <2>3. (IF l.result THEN user_changed_cb(l.s, u) ELSE l.s) = s
    BY <2>2, Zenon
  <2> QED BY <1>2, <2>3, Zenon DEF Readable, l
<1> QED BY <1>1, <1>2

LEMMA UserChangedKeeps ==
  ASSUME SharedIInv, NEW ok \in BOOLEAN, events # <<>>, ~Waiting, accounts_user_changed_cb(ok), UNCHANGED <<dirs, data>>
  PROVE  SharedIInv'
<1> USE DEF accounts_user_changed_cb
<1> DEFINE e == Head(events)
           u == e.u
           X == ToSet(list.users)
           new == IF Readable(u, ok) THEN {u} ELSE {}
           r == IF Readable(u, ok) THEN user_list_changed_cb(WithInfo(State, u), u) ELSE State
<1>0. /\ list \in ListType /\ AccountsOK(accounts) /\ lost \subseteq {"users", "sessions"}
  BY DEF SharedIInv, TypeOK
<1>1. /\ list.state = "accounts" /\ u \in Users \ System /\ Next1(events, e, Tail(events)) /\ e.t = "changed"
      /\ ToSet(list.paths) = {} /\ list.paths = <<>> /\ list.users \in Seq(Users) /\ Once(list.users)
      /\ X \subseteq Users /\ X \intersect System = {}
      /\ X \subseteq list.watched
      /\ view.initialized => view.list = list.users
      /\ view.model = "connected" => Exact(list, view.rows)
  BY SignalIs
<1>2. /\ list' = r.list /\ view' = r.view /\ removing' = r.removing /\ events' = Tail(events) /\ Outcome("users", ok)
      /\ UNCHANGED <<process, accounts, dmrc, logins, touched, changes>>
  <2>1. Becomes(r)
    BY <1>1, ReloadIs
  <2> QED BY <2>1 DEF Becomes
<1> HIDE DEF accounts_user_changed_cb, e
<1>3. State \in StateType /\ State.list = list /\ State.view = view /\ State.removing = removing /\ ViewOK(view, X)
  BY StateIs
<1>4. /\ r \in StateType /\ SameElse(r.list, list) /\ r.removing = removing
      /\ r.list.users = list.users /\ r.list.watched = list.watched
      /\ \A w \in new : r.list.info[w] = accounts[w]
      /\ \A w \in Users : w \notin new => r.list.info[w] = list.info[w]
      /\ r.view.initialized = view.initialized /\ r.view.model = view.model /\ ViewOK(r.view, X)
      /\ view.initialized => r.view.list = r.list.users
      /\ view.model = "connected" => Exact(r.list, r.view.rows)
  <2>1. CASE ~Readable(u, ok)
    <3>1. r = State /\ new = {}
      BY <2>1
    <3> HIDE DEF r, new, u
    <3> QED BY <1>1, <1>3, <3>1 DEF SameElse
  <2>2. CASE Readable(u, ok)
    <3> DEFINE t == WithInfo(State, u)
    <3>1. r = user_list_changed_cb(t, u) /\ new = {u} /\ u \in DOMAIN accounts /\ u \in Users
      BY <1>1, <2>2 DEF Readable
    <3> HIDE DEF r, new, u, X
    <3>2. /\ t \in StateType /\ t.view = view /\ t.removing = removing /\ SameElse(t.list, list)
          /\ t.list.users = list.users /\ t.list.watched = list.watched
          /\ t.list.info = [list.info EXCEPT ![u] = accounts[u]]
      BY <1>0, <1>3, <3>1, WithInfoIs
    <3> HIDE DEF t
    <3>3. t.list.info[u] = accounts[u] /\ \A w \in Users : w # u => t.list.info[w] = list.info[w]
      <4>1. list.info \in [Users -> UserInfo]
        BY <1>0 DEF ListType
      <4> QED BY <3>1, <3>2, <4>1
    <3>4. \A w \in Users : w # u => UserItem(list, w) = UserItem(t.list, w)
      <4>1. list.sessions = t.list.sessions
        BY <3>2 DEF SameElse
      <4> QED BY <3>3, <4>1, ItemSame
    <3>5. X = ToSet(t.list.users) /\ ViewOK(t.view, X) /\ (t.view.initialized => t.view.list = t.list.users)
          /\ (t.view.model = "connected" => Exact(list, t.view.rows))
      BY <1>1, <1>3, <3>2 DEF X
    <3>6. /\ Same(r, t) /\ ViewOK(r.view, X) /\ r.view.list = t.view.list
          /\ t.view.model = "connected" => Exact(t.list, r.view.rows)
      <4>1. r = user_list_changed_cb(t, u) /\ u \in Users /\ t \in StateType
        BY <3>1, <3>2
      <4> QED BY <3>4, <3>5, <4>1, ShowChanged
    <3>7. r \in StateType /\ r.list = t.list /\ r.removing = t.removing /\ r.view.initialized = view.initialized /\ r.view.model = view.model
      BY <3>2, <3>6 DEF Same
    <3> QED BY <1>1, <3>1, <3>2, <3>3, <3>6, <3>7, ZenonT(60)
  <2> QED BY <2>1, <2>2
<1> HIDE DEF r
<1>5. /\ RowsFrom(events', events) /\ events' \in Seq(Event) /\ (Told(events, DOMAIN accounts) => Told(events', DOMAIN accounts))
      /\ \A p : Pending(events, "session_added", p) => Pending(events', "session_added", p)
      /\ \A w : Silent(events', w) => Silent(events, w)
      /\ \A w : Pending(events, "deleted", w) => Pending(events', "deleted", w)
      /\ \A w : Pending(events, "changed", w) => Pending(events', "changed", w) \/ w = u
  BY <1>1, <1>2 DEF Next1
<1>6. /\ lost' \subseteq {"users", "sessions"} /\ (~ok => "users" \in lost') /\ (ok => lost' = lost)
      /\ "sessions" \in lost => "sessions" \in lost'
  BY <1>0, <1>2 DEF Outcome
<1>7. SameElse(list', list) /\ list' \in ListType /\ view' \in ViewType /\ removing' = removing
      /\ list'.users = list.users /\ list'.watched = list.watched
  BY <1>2, <1>4 DEF StateType
<1>8. TypeOK'
  BY <1>2, <1>5, <1>6, <1>7 DEF SharedIInv, TypeOK
<1>9. EventInv'
  BY <1>2, <1>5, <1>7, EventAfter
<1>11. ShapeInv'
  BY <1>1, <1>7 DEF SharedIInv, ShapeInv, SameElse
<1>12. KnownInv'
  <2> SUFFICES ASSUME "users" \notin lost' PROVE Listed(events', list', accounts) /\ Known(events', list', accounts)
    BY <1>1, <1>2, <1>7 DEF KnownInv, SameElse
  <2>1. ok /\ Listed(events, list, accounts) /\ Known(events, list, accounts)
    BY <1>1, <1>6 DEF SharedIInv, KnownInv
  <2>2. list'.info = r.list.info /\ list'.paths = list.paths
    BY <1>2, <1>7 DEF SameElse
  <2>3. Listed(events', list', accounts)
    BY <1>5, <1>7, <2>1, <2>2 DEF Listed
  <2>4. ASSUME NEW w \in ToSet(list'.users)
        PROVE  Pending(events', "deleted", w) \/ (w \in DOMAIN accounts /\ (list'.info[w] = accounts[w] \/ Pending(events', "changed", w)))
    <3>0. w \in X /\ w \in Users /\ w \notin System
      BY <1>1, <1>7
    <3>1. Pending(events, "deleted", w) \/ (w \in DOMAIN accounts /\ (list.info[w] = accounts[w] \/ Pending(events, "changed", w)))
      BY <2>1, <3>0 DEF Known
    <3>2. w = u /\ w \in DOMAIN accounts => w \in new
      BY <2>1, <3>0 DEF Readable
    <3> HIDE DEF new, u, X
    <3> QED BY <1>4, <1>5, <2>2, <3>0, <3>1, <3>2
  <2> QED BY <2>3, <2>4 DEF Known
<1>13. SessionsInv'
  BY <1>2, <1>5, <1>6, <1>7, SessionsAfter
<1>15. KeptInv'
  <2>1. \A i \in 1..Len(events) : events[i].t = "deleted" => events[i].u \in touched
    BY DEF SharedIInv, KeptInv
  <2>2. \A i \in 1..Len(events') : events'[i].t = "deleted" => events'[i].u \in touched
    BY <1>5, <2>1, FewerSignals
  <2> HIDE DEF new, u, e
  <2> QED BY <1>2, <1>7, <2>2 DEF SharedIInv, KeptInv, SameElse
<1>16. CoveredInv'
  BY <1>2, <1>7 DEF SharedIInv, CoveredInv, LookedAt
<1>17. ViewInv'
  <2>1. ViewOK(view', ToSet(list'.users)) /\ view'.initialized = view.initialized /\ view'.model = view.model
    BY <1>2, <1>4
  <2>2. (view.initialized => view'.list = list'.users) /\ (view.model = "connected" => Exact(list', view'.rows))
    BY <1>2, <1>4
  <2>3. /\ list'.state = "accounts" /\ list'.session_added_signal = list.session_added_signal
        /\ list'.asking = list.asking /\ list'.session_paths = list.session_paths
    BY <1>1, <1>7 DEF SameElse
  <2> QED BY <1>1, <1>2, <2>1, <2>2, <2>3, ViewAfter
<1> QED BY <1>8, <1>9, <1>11, <1>12, <1>13, <1>15, <1>16, <1>17 DEF SharedIInv

(***************************************************************************)
(* A session of the display manager starts or ends                         *)
(***************************************************************************)

LEMMA SessionSignalIs ==
  ASSUME SharedIInv, events # <<>>, ~Waiting, Head(events).t \in {"session_added", "session_removed"}
  PROVE  /\ list.state \in {"accounts", "passwd"} /\ Next1(events, Head(events), Tail(events))
         /\ list.session_added_signal /\ ~list.asking /\ list.session_paths = <<>> /\ ToSet(list.session_paths) = {}
         /\ Head(events).u \in 1..changes
<1>1. Next1(events, Head(events), Tail(events))
  BY TailSignals DEF SharedIInv, TypeOK
<1>2. list.session_added_signal /\ Head(events).u \in 1..changes
  <2>1. FromSessions(events, list.session_added_signal, changes)
    BY DEF SharedIInv, EventInv
  <2> QED BY <1>1, <2>1 DEF Next1, FromSessions
<1>3. list.state \in ListStates
  BY DEF SharedIInv, TypeOK, ListType
<1>4. list.state \in {"accounts", "passwd"}
  BY <1>2, <1>3 DEF Waiting, SharedIInv, ShapeInv, ListStates
<1> QED BY <1>1, <1>2, <1>4 DEF Waiting, ToSet

LoggedIn(q, w) == \E i \in DOMAIN q : q[i].user = w

(* r is the state with the sessions p, and the rows are told.              *)
SessionTold(r, p) ==
  /\ r \in StateType /\ SessionsOnly(r.list, list) /\ r.list.sessions = p /\ r.removing = removing
  /\ r.list.session_added_signal = list.session_added_signal
  /\ r.list.asking = list.asking /\ r.list.session_paths = list.session_paths
  /\ r.view.initialized = view.initialized /\ r.view.model = view.model /\ r.view.list = view.list
  /\ ViewOK(r.view, ToSet(list.users))
  /\ list.state = "accounts" /\ view.model = "connected" => Exact(r.list, r.view.rows)

LEMMA ItemLike ==
  ASSUME NEW l, NEW m, NEW w, l.info = m.info, LoggedIn(l.sessions, w) <=> LoggedIn(m.sessions, w)
  PROVE  UserItem(l, w) = UserItem(m, w)
<1>1. get_logged_in_cb(l, w) = get_logged_in_cb(m, w)
  <2>1. get_logged_in_cb(l, w) \in BOOLEAN /\ get_logged_in_cb(m, w) \in BOOLEAN
    BY Zenon DEF get_logged_in_cb
  <2>2. get_logged_in_cb(l, w) <=> get_logged_in_cb(m, w)
    BY Zenon DEF get_logged_in_cb, LoggedIn
  <2> QED BY <2>1, <2>2
<1> QED BY <1>1, Zenon DEF UserItem

LEMMA ViewKept ==
  ASSUME NEW s \in StateType, NEW X, ViewOK(s.view, X), NEW u, NEW r, r = user_list_changed_cb(s, u)
  PROVE  Same(r, s) /\ ViewOK(r.view, X) /\ r.view.list = s.view.list
BY WrapperChanged

LEMMA TellIs ==
  ASSUME SharedIInv, NEW p \in Seq(SessionRow), NEW u \in Users,
         \A w \in Users : w # u => (LoggedIn(p, w) <=> LoggedIn(list.sessions, w)),
         NEW r, r = TellChanged([State EXCEPT !.list.sessions = p], u)
  PROVE  SessionTold(r, p)
<1> DEFINE l == [list EXCEPT !.sessions = p]
           s == [State EXCEPT !.list = l]
           X == ToSet(list.users)
<1>1. State \in StateType /\ State.list = list /\ State.view = view /\ State.removing = removing /\ ViewOK(view, X)
  BY StateIs
<1>2. s = [State EXCEPT !.list.sessions = p]
  BY <1>1
<1>3. list \in ListType
  BY DEF SharedIInv, TypeOK
<1>4. /\ SessionsOnly(l, list) /\ l.sessions = p /\ l.session_added_signal = list.session_added_signal
      /\ l.asking = list.asking /\ l.session_paths = list.session_paths
  BY <1>3 DEF ListType, SessionsOnly
<1> HIDE DEF l
<1>5. s \in StateType /\ s.list = l /\ s.view = view /\ s.removing = removing
  BY <1>1, <1>4 DEF StateType, SessionsOnly
<1> HIDE DEF s
<1>6. l.users = list.users /\ l.info = list.info /\ l.state = list.state
  BY <1>4 DEF SessionsOnly
<1>7. \A w \in Users : w # u => UserItem(list, w) = UserItem(l, w)
  <2> SUFFICES ASSUME NEW w \in Users, w # u PROVE UserItem(list, w) = UserItem(l, w)
    OBVIOUS
  <2>1. LoggedIn(list.sessions, w) <=> LoggedIn(l.sessions, w)
    BY <1>4
  <2> QED BY <1>6, <2>1, ItemLike
<1>8. list.state = "accounts" => (view.initialized => view.list = list.users) /\ (view.model = "connected" => Exact(list, view.rows))
  BY DEF SharedIInv, ViewInv, WrappersOK, RowsOK, Exact
<1>9. CASE u \in X
  <2>1. r = user_list_changed_cb(s, u)
    BY <1>2, <1>5, <1>6, <1>9 DEF TellChanged, user_changed_cb
  <2>2. ViewOK(s.view, X) /\ X = ToSet(s.list.users)
    BY <1>1, <1>5, <1>6
  <2> HIDE DEF X
  <2>3. Same(r, s) /\ ViewOK(r.view, X) /\ r.view.list = s.view.list
    <3>1. s \in StateType
      BY <1>5
    <3> QED BY <2>1, <2>2, <3>1, ViewKept
  <2>4. ASSUME list.state = "accounts", view.model = "connected" PROVE Exact(s.list, r.view.rows)
    <3>1. /\ s.view.initialized => s.view.list = s.list.users
          /\ s.view.model = "connected" => Exact(list, s.view.rows)
      BY <1>5, <1>6, <1>8, <2>4
    <3>2. \A w \in Users : w # u => UserItem(list, w) = UserItem(s.list, w)
      BY <1>5, <1>7
    <3>3. s.view.model = "connected" => Exact(s.list, r.view.rows)
      BY <1>5, <2>1, <2>2, <3>1, <3>2, ShowChanged, SMTT(60)
    <3> QED BY <1>5, <2>4, <3>3
  <2> QED BY <1>4, <1>5, <2>3, <2>4 DEF SessionTold, Same, X
<1>10. CASE u \notin X
  <2>1. r = s
    BY <1>2, <1>5, <1>6, <1>10 DEF TellChanged
  <2>2. ASSUME list.state = "accounts", view.model = "connected" PROVE Exact(l, view.rows)
    <3>1. NamesOf(view.rows) = X /\ Exact(list, view.rows)
      BY <1>1, <1>8, <2>2 DEF ViewOK
    <3>2. X \subseteq Users
      <4>1. list.users \in Seq(Users)
        BY <1>3 DEF ListType
      <4> QED BY <4>1, InSeq
    <3> HIDE DEF X
    <3>3. \A i \in 1..Len(view.rows) : view.rows[i].name \in Users /\ view.rows[i].name # u
      BY <1>10, <3>1, <3>2 DEF NamesOf
    <3> QED BY <1>7, <3>1, <3>3 DEF Exact
  <2> QED BY <1>1, <1>4, <1>5, <2>1, <2>2 DEF SessionTold
<1> QED BY <1>9, <1>10

LEMMA SessionStepKeeps ==
  ASSUME SharedIInv, events # <<>>, ~Waiting, Head(events).t \in {"session_added", "session_removed"},
         NEW p, NEW r, SessionTold(r, p), list' = r.list, view' = r.view, removing' = r.removing,
         events' = Tail(events), UNCHANGED <<process, accounts, dmrc, logins, touched, changes, dirs, data>>,
         "users" \in lost => "users" \in lost', lost' \subseteq {"users", "sessions"},
         "sessions" \notin lost' => \A path \in DOMAIN logins : Seen(path, events', list')
  PROVE  SharedIInv'
<1>1. /\ list.state \in {"accounts", "passwd"} /\ Next1(events, Head(events), events')
      /\ list.session_added_signal /\ ~list.asking /\ list.session_paths = <<>>
  BY SessionSignalIs
<1>2. /\ RowsFrom(events', events) /\ events' \in Seq(Event) /\ (Told(events, DOMAIN accounts) => Told(events', DOMAIN accounts))
      /\ \A w : Silent(events', w) => Silent(events, w)
      /\ \A kind \in {"deleted", "changed", "passwd"} : \A w : Pending(events, kind, w) => Pending(events', kind, w)
  BY <1>1 DEF Next1
<1>3. /\ list' \in ListType /\ list'.state = list.state /\ list'.users = list.users /\ list'.info = list.info
      /\ list'.paths = list.paths /\ list'.watched = list.watched /\ list'.monitor = list.monitor
      /\ list'.session_added_signal = list.session_added_signal
      /\ list'.asking = list.asking /\ list'.session_paths = list.session_paths
      /\ removing' = removing /\ view'.initialized = view.initialized /\ view'.model = view.model /\ view'.list = view.list
      /\ view' \in ViewType /\ ViewOK(view', ToSet(list.users))
      /\ list.state = "accounts" /\ view.model = "connected" => Exact(list', view'.rows)
  BY DEF SessionTold, SessionsOnly, StateType
<1>4. TypeOK'
  BY <1>2, <1>3 DEF SharedIInv, TypeOK
<1>5. EventInv'
  <2>1. /\ FromAccounts(events', list.state) /\ FromKernel(events', list.state, list.monitor)
        /\ FromSessions(events', list.session_added_signal, changes)
    BY <1>2, FewerSignals DEF SharedIInv, EventInv
  <2> QED BY <1>2, <1>3, <2>1 DEF SharedIInv, EventInv
<1>6. ShapeInv'
  BY <1>1, <1>3 DEF SharedIInv, ShapeInv
<1>7. KnownInv'
  <2> SUFFICES ASSUME "users" \notin lost
               PROVE  /\ list'.state \in {"loading", "accounts"} => Listed(events', list', accounts) /\ Known(events', list', accounts)
                      /\ list'.state = "passwd" =>
                           list'.monitor /\ ((\A i \in 1..Len(events') : events'[i].t # "passwd") => AsRead(list', accounts))
    BY <1>1, <1>3 DEF KnownInv
  <2>1. Listed(events, list, accounts) => Listed(events', list', accounts)
    BY <1>2, <1>3 DEF Listed
  <2>2. Known(events, list, accounts) => Known(events', list', accounts)
    BY <1>2, <1>3 DEF Known
  <2>3. AsRead(list, accounts) => AsRead(list', accounts)
    BY <1>3 DEF AsRead
  <2>4. (\A i \in 1..Len(events') : events'[i].t # "passwd") => \A i \in 1..Len(events) : events[i].t # "passwd"
    BY <1>2 DEF Pending
  <2> QED BY <1>1, <1>3, <2>1, <2>2, <2>3, <2>4 DEF SharedIInv, KnownInv
<1>8. SessionsInv'
  <2>1. \A i \in 1..Len(events') : events'[i].t = "session_removed" => events'[i].u \notin DOMAIN logins
    BY <1>2, FewerSignals DEF SharedIInv, SessionsInv
  <2> QED BY <2>1 DEF SessionsInv
<1>9. KeptInv'
  <2>1. \A i \in 1..Len(events) : events[i].t = "deleted" => events[i].u \in touched
    BY DEF SharedIInv, KeptInv
  <2>2. \A i \in 1..Len(events') : events'[i].t = "deleted" => events'[i].u \in touched
    BY <1>2, <2>1, FewerSignals
  <2> QED BY <1>3, <2>2 DEF SharedIInv, KeptInv
<1>10. CoveredInv'
  BY <1>3 DEF SharedIInv, CoveredInv, LookedAt
<1>11. ViewInv'
  <2>1. view'.initialized => WrappersOK(list', view')
    BY <1>3 DEF SharedIInv, ViewInv, WrappersOK
  <2>2. view'.model = "connected" => RowsOK(list', view')
    BY <1>3 DEF ViewOK, RowsOK, NamesOnce, NamesOf, Exact
  <2>3. ~view'.initialized => view' = NoView
    BY <1>3 DEF ViewOK
  <2> QED BY <1>1, <1>3, <2>1, <2>2, <2>3 DEF SharedIInv, ViewInv
<1> QED BY <1>4, <1>5, <1>6, <1>7, <1>8, <1>9, <1>10, <1>11 DEF SharedIInv

LEMMA SessionAddedKeeps ==
  ASSUME SharedIInv, NEW ok \in BOOLEAN, events # <<>>, ~Waiting, session_added_cb(ok), UNCHANGED <<dirs, data>>
  PROVE  SharedIInv'
<1> USE DEF session_added_cb
<1> DEFINE e == Head(events)
           path == e.u
           q == list.sessions
           p == load_session(q, path, ok)
           s == [State EXCEPT !.list.sessions = p]
           r == IF s = State THEN s ELSE TellChanged(s, logins[path])
<1>0. /\ list \in ListType /\ q \in Seq(SessionRow) /\ lost \subseteq {"users", "sessions"}
      /\ DOMAIN logins \subseteq 1..changes /\ logins \in [DOMAIN logins -> Users] /\ changes \in Nat
  BY DEF SharedIInv, TypeOK, ListType
<1>1. /\ Next1(events, e, Tail(events)) /\ path \in 1..changes /\ e.t = "session_added"
      /\ list.session_added_signal /\ ~list.asking /\ ToSet(list.session_paths) = {}
  BY SessionSignalIs
<1>2. /\ State \in StateType /\ State.list = list /\ State.view = view /\ State.removing = removing
      /\ ViewOK(view, ToSet(list.users))
  BY StateIs
<1>3. /\ list' = r.list /\ view' = r.view /\ removing' = r.removing /\ events' = Tail(events) /\ Outcome("sessions", ok)
      /\ UNCHANGED <<process, accounts, dmrc, logins, touched, changes>>
  <2>1. Becomes(r)
    BY <1>2
  <2> QED BY <2>1 DEF Becomes
<1> HIDE DEF session_added_cb, e
<1>4. /\ "users" \in lost => "users" \in lost'
      /\ lost' \subseteq {"users", "sessions"} /\ (~ok => "sessions" \in lost') /\ (ok => lost' = lost)
  BY <1>0, <1>3 DEF Outcome
<1>5. /\ SessionTold(r, p) /\ \A i \in 1..Len(q) : \E j \in 1..Len(p) : p[j] = q[i]
      /\ ok /\ path \in DOMAIN logins => \E j \in 1..Len(p) : p[j].path = path
  <2>1. CASE ok /\ path \in DOMAIN logins
    <3> DEFINE x == [path |-> path, user |-> logins[path]]
               n == Len(q)
    <3>1. p = Append(q, x)
      BY <2>1 DEF load_session
    <3>2. x \in SessionRow /\ x.path = path /\ x.user = logins[path] /\ logins[path] \in Users
      BY <1>0, <1>1, <2>1 DEF SessionRow
    <3> HIDE DEF x, q, p, path, s
    <3>3. p \in Seq(SessionRow) /\ n \in Nat /\ Len(p) = n + 1 /\ p[n + 1] = x /\ \A i \in 1..n : p[i] = q[i]
      BY <1>0, <3>1, <3>2
    <3>4. DOMAIN p = 1..(n + 1) /\ DOMAIN q = 1..n
      BY <1>0, <3>3
    <3> HIDE DEF n
    <3>5. n + 1 \in 1..(n + 1) /\ (\A i \in 1..n : i \in 1..(n + 1)) /\ \A i \in 1..(n + 1) : i \in 1..n \/ i = n + 1
      BY <3>3
    <3>6. \A w \in Users : w # logins[path] => (LoggedIn(p, w) <=> LoggedIn(q, w))
      BY <3>2, <3>3, <3>4, <3>5 DEF LoggedIn
    <3>7. p # q
      BY <3>3, <3>4, <3>5 DEF n
    <3>8. s # State
      <4>1. s.list.sessions = p
        BY <1>0, <1>2 DEF s, StateType, ListType
      <4>2. State.list.sessions = q
        BY <1>2 DEF q
      <4> QED BY <3>7, <4>1, <4>2
    <3>9. r = TellChanged([State EXCEPT !.list.sessions = p], logins[path])
      BY <3>8 DEF s
    <3> HIDE DEF r
    <3>10. \A w \in Users : w # logins[path] => (LoggedIn(p, w) <=> LoggedIn(list.sessions, w))
      BY <3>6 DEF q
    <3>11. SessionTold(r, p)
      BY <3>2, <3>3, <3>9, <3>10, TellIs
    <3> QED BY <3>2, <3>3, <3>5, <3>11 DEF n
  <2>2. CASE ~(ok /\ path \in DOMAIN logins)
    <3>1. p = q
      BY <2>2 DEF load_session
    <3> HIDE DEF p
    <3>2. s = State
      BY <1>0, <1>2, <3>1 DEF StateType, ListType
    <3>3. r = State
      BY <3>2
    <3> HIDE DEF s, r
    <3>4. list.state = "accounts" /\ view.model = "connected" => Exact(list, view.rows)
      BY DEF SharedIInv, ViewInv, RowsOK, Exact
    <3>5. SessionsOnly(list, list)
      BY <1>0 DEF SessionsOnly
    <3>6. SessionTold(r, p)
      BY <1>2, <3>1, <3>3, <3>4, <3>5 DEF SessionTold
    <3> QED BY <2>2, <3>1, <3>6
  <2> QED BY <2>1, <2>2
<1> HIDE DEF r, p, s
<1>6. ASSUME "sessions" \notin lost', NEW z \in DOMAIN logins PROVE Seen(z, events', list')
  <2>1. Seen(z, events, list) /\ ok
    BY <1>1, <1>4, <1>6 DEF SharedIInv, SessionsInv
  <2>2. list'.sessions = p
    BY <1>3, <1>5 DEF SessionTold
  <2>3. CASE \E i \in 1..Len(q) : q[i].path = z
    BY <1>5, <2>2, <2>3 DEF Seen
  <2>4. CASE Pending(events, "session_added", z)
    <3>1. Pending(events', "session_added", z) \/ z = path
      BY <1>1, <1>3, <2>4 DEF Next1
    <3> QED BY <1>5, <1>6, <2>1, <2>2, <3>1 DEF Seen
  <2> QED BY <1>1, <2>1, <2>3, <2>4 DEF Seen
<1>7. e.t \in {"session_added", "session_removed"}
  BY <1>1
<1> HIDE DEF path, q
<1> QED BY <1>3, <1>4, <1>5, <1>6, <1>7, SessionStepKeeps DEF e

(* session_removed_cb looks the session up by its path.                    *)
FoundAt(q, path) == SelectInSeq(q, LAMBDA x : x.path = path)

LEMMA FoundIs ==
  ASSUME NEW S, NEW q \in Seq(S), NEW path
  PROVE  FoundAt(q, path) = 0 \/ (FoundAt(q, path) \in 1..Len(q) /\ q[FoundAt(q, path)].path = path)
<1> DEFINE I == {i \in 1..Len(q) : q[i].path = path}
<1>1. FoundAt(q, path) = IF I # {} THEN Min(I) ELSE 0
  BY Zenon DEF FoundAt, SelectInSeq
<1>2. I \in SUBSET (1..Len(q)) /\ Len(q) \in Nat
  OBVIOUS
<1>3. ASSUME I # {} PROVE Min(I) \in I
  <2> HIDE DEF I
  <2> QED BY <1>2, <1>3, MinOfPlaces
<1> QED BY <1>1, <1>3

LEMMA SessionRemovedKeeps ==
  ASSUME SharedIInv, events # <<>>, ~Waiting, session_removed_cb, UNCHANGED <<dirs, data>>
  PROVE  SharedIInv'
<1> USE DEF session_removed_cb
<1> DEFINE e == Head(events)
           q == list.sessions
           k == FoundAt(q, e.u)
           p == IF k = 0 THEN q ELSE RemoveAt(q, k)
           r == IF k = 0 THEN State ELSE TellChanged([State EXCEPT !.list.sessions = RemoveAt(q, k)], q[k].user)
<1>0. list \in ListType /\ q \in Seq(SessionRow) /\ lost \subseteq {"users", "sessions"}
  BY DEF SharedIInv, TypeOK, ListType
<1>1. /\ Next1(events, e, Tail(events)) /\ e.t = "session_removed"
      /\ list.session_added_signal /\ ~list.asking /\ ToSet(list.session_paths) = {}
  BY SessionSignalIs
<1>2. /\ State \in StateType /\ State.list = list /\ State.view = view /\ State.removing = removing
      /\ ViewOK(view, ToSet(list.users))
  BY StateIs
<1>3. /\ list' = r.list /\ view' = r.view /\ removing' = r.removing /\ events' = Tail(events)
      /\ UNCHANGED <<process, accounts, dmrc, logins, lost, touched, changes>>
  <2>1. [State EXCEPT !.list.sessions = RemoveAt(@, k)] = [State EXCEPT !.list.sessions = RemoveAt(q, k)]
    BY <1>2
  <2>2. SelectInSeq(list.sessions, LAMBDA x : x.path = Head(events).u) = k
    BY Zenon DEF FoundAt
  <2>3. Becomes(r)
    BY <2>1, <2>2, Zenon
  <2> QED BY <2>3, ZenonT(60) DEF Becomes
<1> HIDE DEF session_removed_cb, e
<1>4. k = 0 \/ (k \in 1..Len(q) /\ q[k].path = e.u)
  BY <1>0, FoundIs
<1> HIDE DEF k
<1>5. SessionTold(r, p) /\ \A i \in 1..Len(q) : q[i].path = e.u \/ \E j \in 1..Len(p) : p[j] = q[i]
  <2>1. CASE k = 0
    <3>1. r = State /\ p = q
      BY <2>1
    <3> HIDE DEF r, p
    <3>2. list.state = "accounts" /\ view.model = "connected" => Exact(list, view.rows)
      BY DEF SharedIInv, ViewInv, RowsOK, Exact
    <3>3. SessionsOnly(list, list)
      BY <1>0 DEF SessionsOnly
    <3>4. SessionTold(r, p)
      BY <1>2, <3>1, <3>2, <3>3 DEF SessionTold
    <3> QED BY <3>1, <3>4
  <2>2. CASE k # 0
    <3>1. p = RemoveAt(q, k) /\ r = TellChanged([State EXCEPT !.list.sessions = p], q[k].user)
      BY <2>2
    <3> HIDE DEF p, r, q
    <3>2. k \in 1..Len(q) /\ q[k].path = e.u /\ Len(q) \in Nat
      BY <1>0, <1>4, <2>2
    <3>3. p \in Seq(SessionRow) /\ TakenOut(p, q, k)
      BY <1>0, <3>1, <3>2, Removed
    <3>4. q[k].user \in Users /\ DOMAIN p = 1..Len(p) /\ DOMAIN q = 1..Len(q) /\ Len(p) \in Nat
      <4>1. q[k] \in SessionRow
        BY <1>0, <3>2
      <4> QED BY <1>0, <3>3, <4>1 DEF SessionRow
    <3>5. \A i \in 1..Len(q) : i # k => \E j \in 1..Len(p) : p[j] = q[i]
      BY <3>3 DEF TakenOut
    <3>6. \A i \in 1..Len(p) : \E j \in 1..Len(q) : p[i] = q[j]
      <4>1. Len(p) = Len(q) - 1 /\ \A i \in 1..Len(p) : p[i] = IF i < k THEN q[i] ELSE q[i + 1]
        BY <3>3 DEF TakenOut
      <4> QED BY <3>2, <4>1
    <3>7. \A w \in Users : w # q[k].user => (LoggedIn(p, w) <=> LoggedIn(list.sessions, w))
      <4> SUFFICES ASSUME NEW w \in Users, w # q[k].user PROVE LoggedIn(p, w) <=> LoggedIn(q, w)
        BY DEF q
      <4>1. ASSUME LoggedIn(p, w) PROVE LoggedIn(q, w)
        BY <3>4, <3>6, <4>1 DEF LoggedIn
      <4>2. ASSUME LoggedIn(q, w) PROVE LoggedIn(p, w)
        <5>1. PICK i \in 1..Len(q) : q[i].user = w
          BY <3>4, <4>2 DEF LoggedIn
        <5>2. i # k
          BY <5>1
        <5>3. PICK j \in 1..Len(p) : p[j] = q[i]
          BY <3>5, <5>2
        <5> QED BY <3>4, <5>1, <5>3 DEF LoggedIn
      <4> QED BY <4>1, <4>2
    <3> DEFINE u == q[k].user
    <3>8. u \in Users /\ r = TellChanged([State EXCEPT !.list.sessions = p], u)
          /\ \A w \in Users : w # u => (LoggedIn(p, w) <=> LoggedIn(list.sessions, w))
      BY <3>1, <3>4, <3>7
    <3> HIDE DEF u
    <3>9. SessionTold(r, p)
      BY <3>3, <3>8, TellIs
    <3> QED BY <3>2, <3>5, <3>9
  <2> QED BY <2>1, <2>2
<1> HIDE DEF r, p
<1>6. ASSUME "sessions" \notin lost', NEW z \in DOMAIN logins PROVE Seen(z, events', list')
  <2>1. Seen(z, events, list)
    BY <1>1, <1>3, <1>6 DEF SharedIInv, SessionsInv
  <2>2. list'.sessions = p
    BY <1>3, <1>5 DEF SessionTold
  <2>3. CASE \E i \in 1..Len(q) : q[i].path = z
    <3>1. PICK i \in 1..Len(q) : q[i].path = z
      BY <2>3
    <3>2. e.u # z
      BY <1>1 DEF Next1, SharedIInv, SessionsInv
    <3>3. \E j \in 1..Len(p) : p[j].path = z
      BY <1>5, <3>1, <3>2
    <3> QED BY <2>2, <3>3 DEF Seen
  <2>4. CASE Pending(events, "session_added", z)
    <3>1. Pending(events', "session_added", z)
      BY <1>1, <1>3, <2>4 DEF Next1
    <3> QED BY <3>1 DEF Seen
  <2> QED BY <1>1, <2>1, <2>3, <2>4 DEF Seen
<1>7. e.t \in {"session_added", "session_removed"} /\ lost' \subseteq {"users", "sessions"} /\ ("users" \in lost => "users" \in lost')
  BY <1>0, <1>1, <1>3
<1> HIDE DEF q
<1> QED BY <1>3, <1>5, <1>6, <1>7, SessionStepKeeps DEF e

(***************************************************************************)
(* Changes outside                                                         *)
(***************************************************************************)

LEMMA MoreSignals ==
  ASSUME NEW q, NEW e, NEW r, Last1(q, e, r), NEW state, NEW monitor, NEW signal, NEW n \in Nat, NEW m \in Nat, n <= m,
         FromAccounts(q, state), FromKernel(q, state, monitor), FromSessions(q, signal, n),
         e.t \in {"added", "deleted", "changed"} => state \in {"listing", "loading", "accounts"} /\ e.u \in Users \ System,
         e.t = "passwd" => state = "passwd" /\ monitor,
         e.t \in {"session_added", "session_removed"} => signal /\ e.u \in 1..m
  PROVE  FromAccounts(r, state) /\ FromKernel(r, state, monitor) /\ FromSessions(r, signal, m)
<1>1. \A i \in 1..Len(r) : r[i] = e \/ \E j \in 1..Len(q) : r[i] = q[j]
  BY DEF Last1
<1>2. FromAccounts(r, state)
  BY <1>1 DEF FromAccounts
<1>3. FromKernel(r, state, monitor)
  BY <1>1 DEF FromKernel
<1>4. \A i : i \in 1..n => i \in 1..m
  OBVIOUS
<1>5. FromSessions(r, signal, m)
  BY <1>1, <1>4 DEF FromSessions
<1> QED BY <1>2, <1>3, <1>5

LEMMA LaterPaths ==
  ASSUME NEW q, NEW signal, NEW n \in Nat, NEW m \in Nat, n <= m, FromSessions(q, signal, n)
  PROVE  FromSessions(q, signal, m)
<1>1. \A i : i \in 1..n => i \in 1..m
  OBVIOUS
<1> QED BY <1>1 DEF FromSessions

(* What AccountsService or the kernel tells of a change, and what stays.   *)
AccountsTold(t, u) ==
  /\ changes' = changes + 1
  /\ \/ /\ list.state \in {"listing", "loading", "accounts"} /\ (t = "changed" => u \in list.watched)
        /\ Last1(events, [t |-> t, u |-> u], events')
     \/ list.state \in {"listing", "loading", "accounts"} /\ t = "changed" /\ u \notin list.watched /\ events' = events
     \/ /\ list.state = "passwd" /\ list.monitor /\ Last1(events, [t |-> "passwd", u |-> 0], events')
     \/ /\ list.state = "passwd" /\ events' = events /\ (list.monitor => \E i \in 1..Len(events) : events[i].t = "passwd")
     \/ list.state \in {"unloaded", "unwatched"} /\ events' = events
  /\ lost' = IF list.state = "unwatched" THEN lost \union {"users"} ELSE lost
  /\ UNCHANGED <<process, logins, list, view, removing>>

LEMMA AccountsTells ==
  ASSUME SharedIInv, NEW t \in {"added", "deleted", "changed"}, NEW u \in Users, Accounts(t, u)
  PROVE  AccountsTold(t, u)
<1>1. events \in Seq(Event) /\ list.state \in ListStates
  BY DEF SharedIInv, TypeOK, ListType
<1>2. [t |-> t, u |-> u] \in Event /\ [t |-> "passwd", u |-> 0] \in Event
  BY UserListAssumption DEF Event, Kinds
<1>3. Last1(events, [t |-> t, u |-> u], Append(events, [t |-> t, u |-> u]))
  BY <1>1, <1>2, AppendSignal
<1>4. Last1(events, [t |-> "passwd", u |-> 0], Append(events, [t |-> "passwd", u |-> 0]))
  BY <1>1, <1>2, AppendSignal
<1>5. DOMAIN events = 1..Len(events)
  BY <1>1
<1> DEFINE e == [t |-> t, u |-> u]
           f == [t |-> "passwd", u |-> 0]
<1>6. /\ changes' = changes + 1 /\ lost' = (IF list.state = "unwatched" THEN lost \union {"users"} ELSE lost)
      /\ UNCHANGED <<process, logins, list, view, removing>>
  BY DEF Accounts
<1>7. events' =
        IF list.state \in {"listing", "loading", "accounts"} /\ (t = "changed" => u \in list.watched) THEN Append(events, e)
        ELSE IF list.state = "passwd" /\ list.monitor /\ (\A i \in 1..Len(events) : events[i].t # "passwd") THEN Append(events, f)
        ELSE events
  BY <1>5, Zenon DEF Accounts
<1> HIDE DEF e, f
<1>8. Last1(events, e, Append(events, e)) /\ Last1(events, f, Append(events, f))
  BY <1>3, <1>4 DEF e, f
<1>9. \/ /\ list.state \in {"listing", "loading", "accounts"} /\ (t = "changed" => u \in list.watched)
         /\ Last1(events, e, events')
      \/ list.state \in {"listing", "loading", "accounts"} /\ t = "changed" /\ u \notin list.watched /\ events' = events
      \/ list.state = "passwd" /\ list.monitor /\ Last1(events, f, events')
      \/ list.state = "passwd" /\ events' = events /\ (list.monitor => \E i \in 1..Len(events) : events[i].t = "passwd")
      \/ list.state \in {"unloaded", "unwatched"} /\ events' = events
  <2>1. CASE list.state \in {"listing", "loading", "accounts"} /\ (t = "changed" => u \in list.watched)
    BY <1>7, <1>8, <2>1
  <2>2. CASE list.state \in {"listing", "loading", "accounts"} /\ ~(t = "changed" => u \in list.watched)
    BY <1>7, <2>2
  <2>3. CASE list.state = "passwd"
    <3>1. CASE list.monitor /\ \A i \in 1..Len(events) : events[i].t # "passwd"
      BY <1>7, <1>8, <2>3, <3>1
    <3>2. CASE ~(list.monitor /\ \A i \in 1..Len(events) : events[i].t # "passwd")
      BY <1>7, <2>3, <3>2
    <3> QED BY <3>1, <3>2
  <2>4. CASE list.state \in {"unloaded", "unwatched"}
    BY <1>7, <2>4
  <2> QED BY <1>1, <2>1, <2>2, <2>3, <2>4 DEF ListStates
<1> QED BY <1>6, <1>9 DEF AccountsTold, e, f

LEMMA OutsideKeeps ==
  ASSUME SharedIInv, NEW t \in {"added", "deleted", "changed"}, NEW u \in Users \ System, AccountsTold(t, u),
         AccountsOK(accounts'), dmrc' \in [Users -> [home : SessionNames, cache : SessionNames]],
         touched' \subseteq Users, touched \subseteq touched',
         \A w : w # u => (w \in DOMAIN accounts' <=> w \in DOMAIN accounts),
         \A w \in DOMAIN accounts : w # u => accounts'[w] = accounts[w],
         t = "added" => u \notin DOMAIN accounts /\ u \in DOMAIN accounts' /\ u \in touched',
         t = "deleted" => u \in DOMAIN accounts /\ u \notin DOMAIN accounts' /\ u \in touched',
         t = "changed" => u \in DOMAIN accounts /\ u \in DOMAIN accounts',
         UNCHANGED <<dirs, data>>
  PROVE  SharedIInv'
<1> USE DEF AccountsTold
<1> DEFINE e == [t |-> t, u |-> u]
           f == [t |-> "passwd", u |-> 0]
           D == DOMAIN accounts
           E == DOMAIN accounts'
<1>1. /\ list \in ListType /\ AccountsOK(accounts) /\ events \in Seq(Event) /\ lost \subseteq {"users", "sessions"}
      /\ changes \in Nat /\ DOMAIN logins \subseteq 1..changes
  BY DEF SharedIInv, TypeOK
<1>2. e.t = t /\ e.u = u /\ f.t = "passwd"
  OBVIOUS
<1> HIDE DEF e, f
<1>3. /\ changes' = changes + 1 /\ lost' = IF list.state = "unwatched" THEN lost \union {"users"} ELSE lost
      /\ UNCHANGED <<process, logins, list, view, removing>>
  OBVIOUS
<1>4. \/ /\ list.state \in {"listing", "loading", "accounts"} /\ (t = "changed" => u \in list.watched)
         /\ Last1(events, e, events')
      \/ list.state \in {"listing", "loading", "accounts"} /\ t = "changed" /\ u \notin list.watched /\ events' = events
      \/ list.state = "passwd" /\ list.monitor /\ Last1(events, f, events')
      \/ list.state = "passwd" /\ events' = events /\ (list.monitor => \E i \in 1..Len(events) : events[i].t = "passwd")
      \/ list.state \in {"unloaded", "unwatched"} /\ events' = events
  BY DEF e, f
<1> HIDE DEF AccountsTold
<1>5. t = "changed" => D = E
  OBVIOUS
<1> HIDE DEF D, E
<1>6. events' \in Seq(Event) /\ changes' \in Nat /\ changes <= changes'
  BY <1>1, <1>3, <1>4 DEF Last1
<1>7. TypeOK'
  <2>1. DOMAIN logins \subseteq 1..changes'
    BY <1>1, <1>3
  <2>2. lost' \subseteq {"users", "sessions"}
    BY <1>1, <1>3
  <2> QED BY <1>3, <1>6, <2>1, <2>2 DEF SharedIInv, TypeOK
<1>8. EventInv'
  <2>1. /\ FromAccounts(events, list.state) /\ FromKernel(events, list.state, list.monitor)
        /\ FromSessions(events, list.session_added_signal, changes)
        /\ list.state \in {"listing", "loading", "accounts"} => Told(events, D)
    BY DEF SharedIInv, EventInv, D
  <2>2. FromSessions(events, list.session_added_signal, changes')
    BY <1>1, <1>6, <2>1, LaterPaths
  <2>3. /\ FromAccounts(events', list.state) /\ FromKernel(events', list.state, list.monitor)
        /\ FromSessions(events', list.session_added_signal, changes')
    <3>1. CASE list.state \in {"listing", "loading", "accounts"} /\ Last1(events, e, events')
      BY <1>1, <1>2, <1>6, <2>1, <3>1, MoreSignals
    <3>2. CASE list.state = "passwd" /\ list.monitor /\ Last1(events, f, events')
      <4>1. f.t \notin {"added", "deleted", "changed", "session_added", "session_removed"}
        BY <1>2
      <4>2. f.t = "passwd" => list.state = "passwd" /\ list.monitor
        BY <3>2
      <4> QED BY <1>1, <1>6, <2>1, <3>2, <4>1, <4>2, MoreSignals
    <3>3. CASE events' = events
      BY <2>1, <2>2, <3>3
    <3> QED BY <1>4, <3>1, <3>2, <3>3
  <2>4. ASSUME list.state \in {"listing", "loading", "accounts"} PROVE Told(events', E)
    <3>1. CASE Last1(events, e, events')
      <4>1. \A w \in Users : e.u # w => (w \in D <=> w \in E)
        BY <1>2 DEF D, E
      <4>2. IF e.t \in {"added", "deleted"} THEN e.t = "added" <=> e.u \in E ELSE D = E
        BY <1>2, <1>5 DEF E
      <4>3. Told(events, D)
        BY <2>1, <2>4
      <4> QED BY <3>1, <4>1, <4>2, <4>3 DEF Last1
    <3>2. CASE t = "changed" /\ events' = events
      BY <1>5, <2>1, <2>4, <3>2
    <3> QED BY <1>4, <2>4, <3>1, <3>2
  <2> QED BY <1>3, <2>3, <2>4 DEF EventInv, E
<1>9. ShapeInv'
  BY <1>3 DEF SharedIInv, ShapeInv
<1>10. /\ \A w : Silent(events', w) => Silent(events, w)
       /\ \A kind, w : Pending(events, kind, w) => Pending(events', kind, w)
  BY <1>4 DEF Last1
<1>11. KnownInv'
  <2> SUFFICES ASSUME "users" \notin lost, list.state # "unwatched"
               PROVE  /\ list.state \in {"loading", "accounts"} => Listed(events', list, accounts') /\ Known(events', list, accounts')
                      /\ list.state = "passwd" =>
                           list.monitor /\ ((\A i \in 1..Len(events') : events'[i].t # "passwd") => AsRead(list, accounts'))
    BY <1>3 DEF KnownInv
  <2>1. ASSUME list.state \in {"loading", "accounts"} PROVE Listed(events', list, accounts') /\ Known(events', list, accounts')
    <3>1. Listed(events, list, accounts) /\ Known(events, list, accounts)
      BY <2>1 DEF SharedIInv, KnownInv
    <3>2. ASSUME NEW w \in Users \ System, Silent(events', w)
          PROVE  w \in ToSet(list.users) \union ToSet(list.paths) <=> w \in E
      <4>1. w \in ToSet(list.users) \union ToSet(list.paths) <=> w \in D
        BY <1>10, <3>1, <3>2 DEF Listed, D
      <4>2. w = u => t = "changed"
        BY <1>2, <1>4, <2>1, <3>2 DEF Last1
      <4>3. w \in D <=> w \in E
        BY <1>5, <4>2 DEF D, E
      <4> QED BY <4>1, <4>3
    <3>3. ASSUME NEW w \in ToSet(list.users)
          PROVE  Pending(events', "deleted", w) \/ (w \in E /\ (list.info[w] = accounts'[w] \/ Pending(events', "changed", w)))
      <4>1. Pending(events, "deleted", w) \/ (w \in D /\ (list.info[w] = accounts[w] \/ Pending(events, "changed", w)))
        BY <3>1, <3>3 DEF Known, D
      <4>2. CASE w # u
        BY <1>10, <4>1, <4>2 DEF D, E
      <4>3. CASE w = u
        <5>1. u \in list.watched
          BY <2>1, <3>3, <4>3 DEF SharedIInv, ShapeInv
        <5>2. Last1(events, e, events')
          BY <1>4, <2>1, <5>1
        <5>3. Pending(events', t, u)
          BY <1>2, <5>2 DEF Last1
        <5> QED BY <1>10, <4>1, <4>3, <5>3 DEF D, E
      <4> QED BY <4>2, <4>3
    <3> QED BY <3>2, <3>3 DEF Listed, Known, E
  <2>2. ASSUME list.state = "passwd" PROVE list.monitor /\ ~\A i \in 1..Len(events') : events'[i].t # "passwd"
    <3>1. list.monitor
      BY <2>2 DEF SharedIInv, KnownInv
    <3> QED BY <1>2, <1>4, <2>2, <3>1 DEF Last1
  <2> QED BY <2>1, <2>2
<1>12. \A i \in 1..Len(events') : (\E j \in 1..Len(events) : events'[i] = events[j]) \/ events'[i] = f \/ events'[i] = e
  BY <1>4 DEF Last1
<1>13. SessionsInv'
  <2>1. \A i \in 1..Len(events') : events'[i].t = "session_removed" => events'[i].u \notin DOMAIN logins
    BY <1>2, <1>12 DEF SharedIInv, SessionsInv
  <2>2. ASSUME NEW p, Seen(p, events, list) PROVE Seen(p, events', list)
    BY <1>10, <2>2 DEF Seen
  <2>3. "sessions" \notin lost' => "sessions" \notin lost
    BY <1>3
  <2> QED BY <1>3, <2>1, <2>2, <2>3 DEF SharedIInv, SessionsInv
<1>14. KeptInv'
  <2>1. \A w \in removing : MayGo(w, accounts', touched')
    <3>1. ASSUME NEW w \in removing PROVE MayGo(w, accounts', touched')
      <4>1. MayGo(w, accounts, touched)
        BY DEF SharedIInv, KeptInv
      <4> QED BY <4>1 DEF MayGo
    <3> QED BY <3>1
  <2>2. \A i \in 1..Len(events') : events'[i].t = "deleted" => events'[i].u \in touched'
    BY <1>2, <1>12 DEF SharedIInv, KeptInv
  <2>3. E \ (System \union touched') \subseteq D \ (System \union touched)
    BY DEF D, E
  <2> QED BY <1>3, <2>1, <2>2, <2>3 DEF SharedIInv, KeptInv, D, E
<1>15. CoveredInv'
  BY <1>3, CoveredStays DEF SharedIInv
<1>16. ViewInv'
  BY <1>3, ViewStays DEF SharedIInv
<1> QED BY <1>7, <1>8, <1>9, <1>11, <1>13, <1>14, <1>15, <1>16 DEF SharedIInv

LEMMA AddAccountKeeps ==
  ASSUME SharedIInv, NEW u \in Users \ System, NEW real \in Nat, AddAccount(u, real), UNCHANGED <<dirs, data>>
  PROVE  SharedIInv'
<1> USE DEF AddAccount
<1>1. AccountsTold("added", u)
  BY AccountsTells
<1>2. /\ AccountsOK(accounts) /\ dmrc \in [Users -> [home : SessionNames, cache : SessionNames]] /\ touched \subseteq Users
  BY DEF SharedIInv, TypeOK
<1>3. [real |-> real, session |-> 1] \in UserInfo
  BY UserListAssumption DEF UserInfo
<1>4. DOMAIN accounts' = DOMAIN accounts \union {u} /\ \A v \in DOMAIN accounts : v # u => accounts'[v] = accounts[v]
  OBVIOUS
<1>5. AccountsOK(accounts')
  <2>1. \A v \in DOMAIN accounts : accounts[v] \in UserInfo
    BY <1>2 DEF AccountsOK
  <2>2. accounts' \in [DOMAIN accounts \union {u} -> UserInfo]
    BY <1>3, <2>1
  <2> QED BY <1>2, <1>4, <2>2 DEF AccountsOK
<1>6. UNCHANGED dmrc /\ touched' = touched \union {u} /\ u \notin DOMAIN accounts
  BY DEF Accounts
<1> HIDE DEF AddAccount
<1>7. touched' \subseteq Users /\ touched \subseteq touched' /\ u \in touched' /\ u \in DOMAIN accounts'
  BY <1>2, <1>4, <1>6
<1>8. \A w : w # u => (w \in DOMAIN accounts' <=> w \in DOMAIN accounts)
  BY <1>4
<1>9. dmrc' \in [Users -> [home : SessionNames, cache : SessionNames]]
  BY <1>2, <1>6
<1> QED BY <1>1, <1>4, <1>5, <1>6, <1>7, <1>8, <1>9, OutsideKeeps

LEMMA DeleteAccountKeeps ==
  ASSUME SharedIInv, NEW u \in Users \ System, DeleteAccount(u), UNCHANGED <<dirs, data>>
  PROVE  SharedIInv'
<1> USE DEF DeleteAccount
<1>1. AccountsTold("deleted", u)
  BY AccountsTells
<1>2. /\ AccountsOK(accounts) /\ dmrc \in [Users -> [home : SessionNames, cache : SessionNames]] /\ touched \subseteq Users
  BY DEF SharedIInv, TypeOK
<1>4. DOMAIN accounts' = DOMAIN accounts \ {u} /\ \A v \in DOMAIN accounts : v # u => accounts'[v] = accounts[v]
  OBVIOUS
<1>5. AccountsOK(accounts')
  <2>1. \A v \in DOMAIN accounts : accounts[v] \in UserInfo
    BY <1>2 DEF AccountsOK
  <2>2. accounts' \in [DOMAIN accounts \ {u} -> UserInfo]
    BY <2>1
  <2> QED BY <1>2, <1>4, <2>2 DEF AccountsOK
<1>6. UNCHANGED dmrc /\ touched' = touched \union {u} /\ u \in DOMAIN accounts
  BY DEF Accounts
<1> HIDE DEF DeleteAccount
<1>7. touched' \subseteq Users /\ touched \subseteq touched' /\ u \in touched' /\ u \notin DOMAIN accounts'
  BY <1>2, <1>4, <1>6
<1>8. \A w : w # u => (w \in DOMAIN accounts' <=> w \in DOMAIN accounts)
  BY <1>4
<1>9. dmrc' \in [Users -> [home : SessionNames, cache : SessionNames]]
  BY <1>2, <1>6
<1> QED BY <1>1, <1>4, <1>5, <1>6, <1>7, <1>8, <1>9, OutsideKeeps

LEMMA ChangeAccountKeeps ==
  ASSUME SharedIInv, NEW u \in Users \ System, NEW real \in Nat, ChangeAccount(u, real), UNCHANGED <<dirs, data>>
  PROVE  SharedIInv'
<1> USE DEF ChangeAccount
<1> DEFINE x == [accounts[u] EXCEPT !.real = real]
<1>1. AccountsTold("changed", u)
  BY AccountsTells
<1>2. /\ AccountsOK(accounts) /\ dmrc \in [Users -> [home : SessionNames, cache : SessionNames]] /\ touched \subseteq Users
  BY DEF SharedIInv, TypeOK
<1>3. accounts[u] \in UserInfo /\ x \in UserInfo
  BY <1>2 DEF AccountsOK, UserInfo
<1>4. accounts' = [accounts EXCEPT ![u] = x]
  OBVIOUS
<1>6. UNCHANGED dmrc /\ touched' = touched /\ u \in DOMAIN accounts
  BY DEF Accounts
<1> HIDE DEF ChangeAccount, x
<1>5. /\ AccountsOK(accounts') /\ DOMAIN accounts' = DOMAIN accounts
      /\ \A v \in DOMAIN accounts : v # u => accounts'[v] = accounts[v]
  BY <1>2, <1>3, <1>4 DEF AccountsOK
<1>7. touched' \subseteq Users /\ touched \subseteq touched' /\ u \in DOMAIN accounts'
  BY <1>2, <1>5, <1>6
<1>8. \A w : w # u => (w \in DOMAIN accounts' <=> w \in DOMAIN accounts)
  BY <1>5
<1>9. dmrc' \in [Users -> [home : SessionNames, cache : SessionNames]]
  BY <1>2, <1>6
<1> QED BY <1>1, <1>5, <1>6, <1>7, <1>8, <1>9, OutsideKeeps

(* common_user_get_session.                                                *)
LEMMA LoadDmrcIs ==
  ASSUME NEW m \in ListType, dmrc \in [Users -> [home : SessionNames, cache : SessionNames]],
         NEW u \in Users, NEW mounted \in BOOLEAN, NEW l, l = load_dmrc(m, u, mounted)
  PROVE  /\ l \in ListType /\ SameElse(l, m) /\ l.users = m.users /\ l.watched = m.watched
         /\ \A w \in Users : l.info[w].real = m.info[w].real
         /\ m.state = "accounts" => l = m
<1>1. CASE m.state = "accounts" \/ u \in m.loaded_dmrc
  <2>1. l = m
    BY <1>1, Zenon DEF load_dmrc
  <2> QED BY <2>1 DEF SameElse
<1>2. CASE ~(m.state = "accounts" \/ u \in m.loaded_dmrc)
  <2> DEFINE x == dmrc_load(u, mounted)
             i == [m.info[u] EXCEPT !.session = x]
             info == [m.info EXCEPT ![u] = i]
             L == m.loaded_dmrc \union {u}
  <2>1. x \in SessionNames
    BY DEF dmrc_load
  <2>2. m.info \in [Users -> UserInfo] /\ m.loaded_dmrc \subseteq Users
    BY DEF ListType
  <2>3. l = [m EXCEPT !.loaded_dmrc = L, !.info = info]
    BY <1>2, Zenon DEF load_dmrc
  <2> HIDE DEF x
  <2>4. i \in UserInfo /\ i.real = m.info[u].real
    BY <2>1, <2>2 DEF UserInfo
  <2> HIDE DEF i
  <2>5. info \in [Users -> UserInfo] /\ (\A w \in Users : info[w].real = m.info[w].real) /\ L \in SUBSET Users
    BY <2>2, <2>4
  <2> HIDE DEF info, L
  <2>6. l \in ListType /\ l.info = info /\ l.users = m.users /\ l.watched = m.watched /\ SameElse(l, m)
    BY <2>3, <2>5 DEF ListType, SameElse
  <2> QED BY <1>2, <2>5, <2>6
<1> QED BY <1>1, <1>2

LEMMA SetSessionKeeps ==
  ASSUME SharedIInv, NEW u \in Users, NEW choice \in SessionNames, NEW mounted \in BOOLEAN,
         common_user_set_session(u, choice, mounted), UNCHANGED <<dirs, data>>
  PROVE  SharedIInv'
<1> USE DEF common_user_set_session
<1> DEFINE l == load_dmrc(list, u, mounted)
           X == ToSet(list.users)
<1>1. /\ list \in ListType /\ AccountsOK(accounts) /\ dmrc \in [Users -> [home : SessionNames, cache : SessionNames]]
      /\ changes \in Nat /\ touched \subseteq Users /\ events \in Seq(Event) /\ DOMAIN logins \subseteq 1..changes
  BY DEF SharedIInv, TypeOK
<1>2. /\ l \in ListType /\ SameElse(l, list) /\ l.users = list.users /\ l.watched = list.watched
      /\ \A w \in Users : l.info[w].real = list.info[w].real
      /\ list.state = "accounts" => l = list
  BY <1>1, LoadDmrcIs
<1>3. /\ process = "daemon" /\ u \in X /\ changes' = changes + 1 /\ list' = l
      /\ UNCHANGED <<process, logins, view, removing, lost, touched>>
  OBVIOUS
<1>4. u \notin System /\ list.state \in {"accounts", "passwd"} /\ (list.state = "accounts" => u \in list.watched)
  <2>1. list.state \in ListStates
    BY <1>1 DEF ListType
  <2>2. list.users # <<>>
    BY <1>3 DEF ToSet
  <2> QED BY <1>3, <2>1, <2>2 DEF SharedIInv, ShapeInv, Waiting, ListStates
<1>5. dmrc' \in [Users -> [home : SessionNames, cache : SessionNames]]
  <2>1. dmrc_save(u, choice, mounted) \in [Users -> [home : SessionNames, cache : SessionNames]]
    BY <1>1 DEF dmrc_save
  <2> QED BY <1>1, <2>1
<1>6. \/ UNCHANGED <<accounts, events>>
      \/ /\ l.state = "accounts" /\ u \in DOMAIN accounts /\ accounts' = [accounts EXCEPT ![u].session = choice]
         /\ events' = Append(events, [t |-> "changed", u |-> u])
  OBVIOUS
<1> HIDE DEF common_user_set_session, l
<1>7. CASE l.state = "accounts" /\ u \in DOMAIN accounts /\ accounts' = [accounts EXCEPT ![u].session = choice]
           /\ events' = Append(events, [t |-> "changed", u |-> u])
  <2> DEFINE x == [accounts[u] EXCEPT !.session = choice]
  <2>1. accounts[u] \in UserInfo /\ x \in UserInfo /\ accounts' = [accounts EXCEPT ![u] = x]
    BY <1>1, <1>7 DEF AccountsOK, UserInfo
  <2> HIDE DEF x
  <2>2. /\ AccountsOK(accounts') /\ DOMAIN accounts' = DOMAIN accounts
        /\ \A v \in DOMAIN accounts : v # u => accounts'[v] = accounts[v]
    BY <1>1, <1>7, <2>1 DEF AccountsOK
  <2>3. list.state = "accounts" /\ list' = list /\ u \in list.watched
    BY <1>2, <1>3, <1>4, <1>7 DEF SameElse
  <2>4. AccountsTold("changed", u)
    <3>1. [t |-> "changed", u |-> u] \in Event
      BY UserListAssumption DEF Event, Kinds
    <3>2. Last1(events, [t |-> "changed", u |-> u], events')
      BY <1>1, <1>7, <3>1, AppendSignal
    <3> QED BY <1>3, <2>3, <3>2 DEF AccountsTold
  <2>5. u \in Users \ System /\ touched' \subseteq Users /\ touched \subseteq touched' /\ u \in DOMAIN accounts'
    BY <1>1, <1>3, <1>4, <1>7, <2>2
  <2>6. \A w : w # u => (w \in DOMAIN accounts' <=> w \in DOMAIN accounts)
    BY <2>2
  <2> QED BY <1>5, <1>7, <2>2, <2>4, <2>5, <2>6, OutsideKeeps
<1>8. CASE UNCHANGED <<accounts, events>>
  <2>1. changes' \in Nat /\ changes <= changes' /\ DOMAIN logins \subseteq 1..changes'
    BY <1>1, <1>3
  <2>2. TypeOK'
    BY <1>2, <1>3, <1>5, <1>8, <2>1 DEF SharedIInv, TypeOK
  <2>3. EventInv'
    <3>1. FromSessions(events, list.session_added_signal, changes')
      BY <1>1, <2>1, LaterPaths DEF SharedIInv, EventInv
    <3> QED BY <1>2, <1>3, <1>8, <3>1 DEF SharedIInv, EventInv, SameElse
  <2>4. ShapeInv'
    BY <1>2, <1>3 DEF SharedIInv, ShapeInv, SameElse
  <2>5. KnownInv'
    <3>1. AsRead(list, accounts) => AsRead(list', accounts)
      <4>1. X \subseteq Users
        <5>1. list.users \in Seq(Users)
          BY <1>1 DEF ListType
        <5> QED BY <5>1, InSeq
      <4> QED BY <1>2, <1>3, <4>1 DEF AsRead
    <3> QED BY <1>2, <1>3, <1>4, <1>8, <3>1 DEF SharedIInv, KnownInv, SameElse
  <2>6. SessionsInv'
    BY <1>2, <1>3, <1>8 DEF SharedIInv, SessionsInv, SameElse, Seen
  <2>7. KeptInv'
    BY <1>2, <1>3, <1>8 DEF SharedIInv, KeptInv, SameElse
  <2>8. CoveredInv'
    BY <1>2, <1>3, <1>8 DEF SharedIInv, CoveredInv, LookedAt
  <2>9. ViewInv'
    <3>1. ~view.initialized /\ view = NoView
      BY <1>3 DEF SharedIInv, ViewInv
    <3> QED BY <1>3, <3>1, NoViewIs DEF ViewInv
  <2> QED BY <2>2, <2>3, <2>4, <2>5, <2>6, <2>7, <2>8, <2>9 DEF SharedIInv
<1> QED BY <1>6, <1>7, <1>8

(* What the start and the end of a session leave alone.                    *)
LEMMA LoginsKeep ==
  ASSUME SharedIInv, NEW e,
         events' = events \/ (list.session_added_signal /\ Last1(events, e, events')),
         e.t \in {"session_added", "session_removed"}, e.u \in 1..changes', changes' \in Nat, changes <= changes',
         UNCHANGED <<process, accounts, dmrc, list, view, removing, lost, touched, dirs, data>>
  PROVE  EventInv' /\ ShapeInv' /\ KnownInv' /\ KeptInv' /\ CoveredInv' /\ ViewInv'
<1>0. changes \in Nat
  BY DEF SharedIInv, TypeOK
<1>1. /\ \A w : Silent(events', w) => Silent(events, w)
      /\ \A kind, w : Pending(events, kind, w) => Pending(events', kind, w)
      /\ \A kind : (\A i \in 1..Len(events') : events'[i].t # kind) => \A i \in 1..Len(events) : events[i].t # kind
      /\ \A i \in 1..Len(events') : (\E j \in 1..Len(events) : events'[i] = events[j]) \/ events'[i] = e
  BY DEF Last1
<1>2. EventInv'
  <2>1. /\ FromAccounts(events, list.state) /\ FromKernel(events, list.state, list.monitor)
        /\ FromSessions(events, list.session_added_signal, changes)
        /\ list.state \in {"listing", "loading", "accounts"} => Told(events, DOMAIN accounts)
    BY DEF SharedIInv, EventInv
  <2>2. FromSessions(events, list.session_added_signal, changes')
    BY <1>0, <2>1, LaterPaths
  <2>3. /\ FromAccounts(events', list.state) /\ FromKernel(events', list.state, list.monitor)
        /\ FromSessions(events', list.session_added_signal, changes')
    <3>1. CASE events' = events
      BY <2>1, <2>2, <3>1
    <3>2. CASE list.session_added_signal /\ Last1(events, e, events')
      <4>1. e.t \notin {"added", "deleted", "changed", "passwd"}
        OBVIOUS
      <4>2. FromSessions(events', list.session_added_signal, changes')
        BY <1>1, <2>2, <3>2 DEF FromSessions
      <4> QED BY <1>1, <2>1, <4>1, <4>2 DEF FromAccounts, FromKernel
    <3> QED BY <3>1, <3>2
  <2>4. Told(events, DOMAIN accounts) => Told(events', DOMAIN accounts)
    BY DEF Last1
  <2> QED BY <2>1, <2>3, <2>4 DEF EventInv
<1>3. ShapeInv'
  BY ShapeStays DEF SharedIInv
<1>4. KnownInv'
  <2>1. Listed(events, list, accounts) => Listed(events', list, accounts)
    BY <1>1 DEF Listed
  <2>2. Known(events, list, accounts) => Known(events', list, accounts)
    BY <1>1 DEF Known
  <2> QED BY <1>1, <2>1, <2>2 DEF SharedIInv, KnownInv
<1>5. KeptInv'
  <2>1. \A i \in 1..Len(events') : events'[i].t = "deleted" => events'[i].u \in touched
    BY <1>1 DEF SharedIInv, KeptInv
  <2> QED BY <2>1 DEF SharedIInv, KeptInv
<1>6. CoveredInv'
  BY CoveredStays DEF SharedIInv
<1>7. ViewInv'
  BY ViewStays DEF SharedIInv
<1> QED BY <1>2, <1>3, <1>4, <1>5, <1>6, <1>7

LEMMA SignalTells ==
  ASSUME SharedIInv, NEW t \in {"session_added", "session_removed"}, NEW path \in Nat, Signal(t, path),
         NEW e, e = [t |-> t, u |-> path]
  PROVE  /\ events' \in Seq(Event) /\ e.t = t /\ e.u = path
         /\ events' = events \/ (list.session_added_signal /\ Last1(events, e, events'))
         /\ list.session_added_signal => Last1(events, e, events')
<1>1. events \in Seq(Event)
  BY DEF SharedIInv, TypeOK
<1>2. e \in Event /\ e.t = t /\ e.u = path
  BY DEF Event, Kinds
<1>3. Last1(events, e, Append(events, e))
  BY <1>1, <1>2, AppendSignal
<1>4. events' = IF list.session_added_signal THEN Append(events, e) ELSE events
  BY Zenon DEF Signal
<1>5. CASE list.session_added_signal
  BY <1>2, <1>3, <1>4, <1>5, SMTT(60) DEF Last1
<1>6. CASE ~list.session_added_signal
  BY <1>1, <1>2, <1>4, <1>6
<1> QED BY <1>5, <1>6

LEMMA LoginKeeps ==
  ASSUME SharedIInv, NEW u \in Users, NEW path, Login(u, path), UNCHANGED <<dirs, data>>
  PROVE  SharedIInv'
<1> USE DEF Login
<1> DEFINE e == [t |-> "session_added", u |-> path]
<1>1. /\ changes \in Nat /\ DOMAIN logins \subseteq 1..changes /\ logins \in [DOMAIN logins -> Users]
      /\ path = changes + 1 /\ changes' = changes + 1
  BY DEF SharedIInv, TypeOK
<1>2. /\ events' \in Seq(Event) /\ e.t = "session_added" /\ e.u = path
      /\ events' = events \/ (list.session_added_signal /\ Last1(events, e, events'))
      /\ list.session_added_signal => Last1(events, e, events')
  BY <1>1, SignalTells
<1> HIDE DEF e
<1>3. /\ DOMAIN logins' = DOMAIN logins \union {path} /\ logins' \in [DOMAIN logins' -> Users]
      /\ UNCHANGED <<process, accounts, dmrc, list, view, removing, lost, touched>>
  BY <1>1
<1> HIDE DEF Login
<1>4. e.u \in 1..changes' /\ changes' \in Nat /\ changes <= changes' /\ DOMAIN logins' \subseteq 1..changes' /\ path \notin 1..changes
  BY <1>1, <1>2, <1>3
<1>5. EventInv' /\ ShapeInv' /\ KnownInv' /\ KeptInv' /\ CoveredInv' /\ ViewInv'
  BY <1>2, <1>3, <1>4, LoginsKeep
<1>6. TypeOK'
  BY <1>2, <1>3, <1>4 DEF SharedIInv, TypeOK
<1>7. SessionsInv'
  <2>1. ASSUME NEW i \in 1..Len(events'), events'[i].t = "session_removed" PROVE events'[i].u \notin DOMAIN logins'
    <3>1. PICK j \in 1..Len(events) : events'[i] = events[j]
      BY <1>2, <2>1 DEF Last1
    <3>2. events[j].u \notin DOMAIN logins /\ events[j].u \in 1..changes
      BY <2>1, <3>1 DEF SharedIInv, SessionsInv, EventInv, FromSessions
    <3> QED BY <1>3, <1>4, <3>1, <3>2
  <2>2. ASSUME list.session_added_signal, "sessions" \notin lost, NEW p \in DOMAIN logins' PROVE Seen(p, events', list)
    <3>1. Last1(events, e, events')
      BY <1>2, <2>2
    <3>2. CASE p = path
      <4>1. Pending(events', "session_added", p)
        BY <1>2, <3>1, <3>2 DEF Last1
      <4> QED BY <4>1 DEF Seen
    <3>3. CASE p \in DOMAIN logins
      <4>1. Seen(p, events, list)
        BY <2>2, <3>3 DEF SharedIInv, SessionsInv
      <4>2. Pending(events, "session_added", p) => Pending(events', "session_added", p)
        BY <3>1 DEF Last1
      <4> QED BY <4>1, <4>2 DEF Seen
    <3> QED BY <1>3, <2>2, <3>2, <3>3
  <2> QED BY <1>3, <2>1, <2>2 DEF SessionsInv
<1> QED BY <1>5, <1>6, <1>7 DEF SharedIInv

LEMMA LogoutKeeps ==
  ASSUME SharedIInv, NEW path, Logout(path), UNCHANGED <<dirs, data>>
  PROVE  SharedIInv'
<1> USE DEF Logout
<1> DEFINE e == [t |-> "session_removed", u |-> path]
<1>1. /\ changes \in Nat /\ DOMAIN logins \subseteq 1..changes /\ logins \in [DOMAIN logins -> Users]
      /\ path \in DOMAIN logins /\ changes' = changes /\ path \in 1..changes
  BY DEF SharedIInv, TypeOK
<1>2. /\ events' \in Seq(Event) /\ e.t = "session_removed" /\ e.u = path
      /\ events' = events \/ (list.session_added_signal /\ Last1(events, e, events'))
      /\ list.session_added_signal => Last1(events, e, events')
  BY <1>1, SignalTells
<1> HIDE DEF e
<1>3. /\ DOMAIN logins' = DOMAIN logins \ {path} /\ logins' \in [DOMAIN logins' -> Users]
      /\ UNCHANGED <<process, accounts, dmrc, list, view, removing, lost, touched>>
  BY <1>1
<1> HIDE DEF Logout
<1>4. e.u \in 1..changes' /\ changes' \in Nat /\ changes <= changes' /\ DOMAIN logins' \subseteq 1..changes'
  BY <1>1, <1>2, <1>3
<1>5. EventInv' /\ ShapeInv' /\ KnownInv' /\ KeptInv' /\ CoveredInv' /\ ViewInv'
  BY <1>2, <1>3, <1>4, LoginsKeep
<1>6. TypeOK'
  BY <1>2, <1>3, <1>4 DEF SharedIInv, TypeOK
<1>7. SessionsInv'
  <2>1. ASSUME NEW i \in 1..Len(events'), events'[i].t = "session_removed" PROVE events'[i].u \notin DOMAIN logins'
    <3>1. events'[i] = e \/ \E j \in 1..Len(events) : events'[i] = events[j]
      BY <1>2, <2>1 DEF Last1
    <3>2. \A j \in 1..Len(events) : events[j].t = "session_removed" => events[j].u \notin DOMAIN logins
      BY DEF SharedIInv, SessionsInv
    <3> QED BY <1>2, <1>3, <2>1, <3>1, <3>2
  <2>2. ASSUME list.session_added_signal, "sessions" \notin lost, NEW p \in DOMAIN logins' PROVE Seen(p, events', list)
    <3>1. Last1(events, e, events')
      BY <1>2, <2>2
    <3>2. Seen(p, events, list)
      BY <1>3, <2>2 DEF SharedIInv, SessionsInv
    <3>3. Pending(events, "session_added", p) => Pending(events', "session_added", p)
      BY <3>1 DEF Last1
    <3> QED BY <3>2, <3>3 DEF Seen
  <2> QED BY <1>3, <2>1, <2>2 DEF SessionsInv
<1> QED BY <1>5, <1>6, <1>7 DEF SharedIInv

(***************************************************************************)
(* The invariant                                                           *)
(***************************************************************************)

LEMMA SharedInitHolds == SharedInit => SharedIInv
<1> SUFFICES ASSUME SharedInit PROVE SharedIInv
  OBVIOUS
<1> USE DEF SharedInit, ListInit
<1>1. list = NewList /\ view = NoView /\ events = <<>> /\ logins = <<>> /\ removing = {} /\ lost = {} /\ touched = {} /\ changes = 0
  OBVIOUS
<1>2. /\ list.state = "unloaded" /\ list.users = <<>> /\ list.paths = <<>> /\ list.sessions = <<>> /\ list.session_paths = <<>>
      /\ list.watched = {} /\ ~list.monitor /\ ~list.session_added_signal /\ ~list.asking
  BY <1>1 DEF NewList
<1>3. list \in ListType
  <2>1. [u \in Users |-> [real |-> 0, session |-> 1]] \in [Users -> UserInfo]
    BY UserListAssumption DEF UserInfo
  <2> DEFINE info == [u \in Users |-> [real |-> 0, session |-> 1]]
  <2> HIDE DEF info
  <2>2. list = [state |-> "unloaded", users |-> <<>>, info |-> info,
                watched |-> {}, paths |-> <<>>, loaded_dmrc |-> {}, monitor |-> FALSE,
                sessions |-> <<>>, session_added_signal |-> FALSE, asking |-> FALSE, session_paths |-> <<>>]
    BY <1>1 DEF NewList, info
  <2>3. info \in [Users -> UserInfo]
    BY <2>1 DEF info
  <2>4. <<>> \in Seq(Users) /\ <<>> \in Seq(SessionRow) /\ <<>> \in Seq(Nat)
    OBVIOUS
  <2> HIDE DEF SharedInit
  <2> QED BY <2>2, <2>3, <2>4 DEF ListType, ListStates
<1>4. AccountsOK(accounts)
  <2>1. PICK shown \in SUBSET (Users \ System) : accounts = [u \in shown \union System |-> [real |-> 0, session |-> 1]]
    OBVIOUS
  <2>2. [real |-> 0, session |-> 1] \in UserInfo /\ System \subseteq Users
    BY UserListAssumption DEF UserInfo
  <2> QED BY <2>1, <2>2 DEF AccountsOK
<1>5. dmrc \in [Users -> [home : SessionNames, cache : SessionNames]]
  BY UserListAssumption
<1>6. DOMAIN logins \subseteq 1..changes /\ logins \in [DOMAIN logins -> Users] /\ events \in Seq(Event) /\ Len(events) = 0
  BY <1>1
<1>7. process \in {"daemon", "greeter"} /\ dirs \subseteq Users /\ (process = "greeter" => dirs = {})
  OBVIOUS
<1>8. /\ data \in DataType /\ data.phase = "new"
  BY DEF DataType, Phases
<1>9. view \in ViewType /\ ~view.initialized /\ view.model = "none"
  BY <1>1, NoViewIs
<1>10. DOMAIN logins = {}
  BY <1>1
<1> HIDE DEF SharedInit, ListInit
<1>11. TypeOK
  BY <1>1, <1>3, <1>4, <1>5, <1>6, <1>7, <1>8, <1>9 DEF TypeOK
<1>12. EventInv
  BY <1>2, <1>6 DEF EventInv, FromAccounts, FromKernel, FromSessions
<1>13. ShapeInv
  BY <1>1, <1>2 DEF ShapeInv, Once, ToSet
<1>14. KnownInv
  BY <1>2 DEF KnownInv
<1>15. SessionsInv
  BY <1>2, <1>6 DEF SessionsInv
<1>16. KeptInv
  BY <1>1, <1>2, <1>6, <1>8 DEF KeptInv
<1>17. CoveredInv
  BY <1>7, <1>8 DEF CoveredInv
<1>18. ViewInv
  BY <1>1, <1>9 DEF ViewInv
<1> QED BY <1>11, <1>12, <1>13, <1>14, <1>15, <1>16, <1>17, <1>18 DEF SharedIInv

LEMMA AnswersKeep == SharedIInv /\ Answers /\ UNCHANGED <<dirs, data>> => SharedIInv'
<1> SUFFICES ASSUME SharedIInv, Answers, UNCHANGED <<dirs, data>> PROVE SharedIInv'
  OBVIOUS
<1>1. PICK ok \in BOOLEAN :
        ListCachedUsers(ok) \/ load_listed_user(ok) \/ monitor_passwd(ok) \/ GetSessions(ok) \/ load_listed_session(ok)
  BY DEF Answers
<1>2. CASE ListCachedUsers(ok)
  <2>1. CASE ok = TRUE
    BY <1>2, <2>1, ListedKeeps
  <2>2. CASE ok = FALSE
    BY <1>2, <2>2, UnlistedKeeps
  <2> QED BY <2>1, <2>2
<1>3. CASE load_listed_user(ok)
  BY <1>3, LoadListedUserKeeps
<1>4. CASE monitor_passwd(ok)
  BY <1>4, MonitorKeeps
<1>5. CASE GetSessions(ok)
  BY <1>5, GetSessionsKeeps
<1>6. CASE load_listed_session(ok)
  BY <1>6, LoadListedSessionKeeps
<1> QED BY <1>1, <1>2, <1>3, <1>4, <1>5, <1>6

LEMMA DeliversKeep == SharedIInv /\ Delivers /\ UNCHANGED <<dirs, data>> => SharedIInv'
<1> SUFFICES ASSUME SharedIInv, Delivers, UNCHANGED <<dirs, data>> PROVE SharedIInv'
  OBVIOUS
<1>0. events # <<>> /\ ~Waiting
  BY DEF Delivers
<1>1. CASE accounts_user_deleted_cb
  BY <1>0, <1>1, UserDeletedKeeps
<1>2. CASE session_removed_cb
  BY <1>0, <1>2, SessionRemovedKeeps
<1>3. ASSUME NEW ok \in BOOLEAN, passwd_changed_cb(ok) PROVE SharedIInv'
  BY <1>0, <1>3, PasswdChangedKeeps
<1>4. ASSUME NEW ok \in BOOLEAN, accounts_user_added_cb(ok) PROVE SharedIInv'
  BY <1>0, <1>4, UserAddedKeeps
<1>5. ASSUME NEW ok \in BOOLEAN, accounts_user_changed_cb(ok) PROVE SharedIInv'
  BY <1>0, <1>5, UserChangedKeeps
<1>6. ASSUME NEW ok \in BOOLEAN, session_added_cb(ok) PROVE SharedIInv'
  BY <1>0, <1>6, SessionAddedKeeps
<1> QED BY <1>1, <1>2, <1>3, <1>4, <1>5, <1>6 DEF Delivers

LEMMA AsksKeep == SharedIInv /\ Asks /\ UNCHANGED <<dirs, data>> => SharedIInv'
<1> SUFFICES ASSUME SharedIInv, Asks, UNCHANGED <<dirs, data>> PROVE SharedIInv'
  OBVIOUS
<1>1. CASE load_users
  BY <1>1, LoadUsersKeeps
<1>2. CASE load_sessions
  BY <1>2, LoadSessionsKeeps
<1>3. CASE MakeWrappers
  BY <1>3, MakeWrappersKeeps
<1>4. CASE MakeRows
  BY <1>4, MakeRowsKeeps
<1>5. ASSUME NEW u \in Users, NEW choice \in SessionNames, NEW mounted \in BOOLEAN, common_user_set_session(u, choice, mounted)
      PROVE  SharedIInv'
  BY <1>5, SetSessionKeeps
<1> QED BY <1>1, <1>2, <1>3, <1>4, <1>5 DEF Asks

LEMMA OutsideAllKeep == SharedIInv /\ Outside /\ UNCHANGED <<dirs, data>> => SharedIInv'
<1> SUFFICES ASSUME SharedIInv, Outside, UNCHANGED <<dirs, data>> PROVE SharedIInv'
  OBVIOUS
<1>0. (IF process = "greeter" THEN RealNames ELSE {0}) \subseteq Nat
  BY UserListAssumption
<1>1. ASSUME NEW u \in Users \ System, DeleteAccount(u) PROVE SharedIInv'
  BY <1>1, DeleteAccountKeeps
<1>2. ASSUME NEW u \in Users \ System, NEW real \in Nat, AddAccount(u, real) PROVE SharedIInv'
  BY <1>2, AddAccountKeeps
<1>3. ASSUME NEW u \in Users \ System, NEW real \in Nat, ChangeAccount(u, real) PROVE SharedIInv'
  BY <1>3, ChangeAccountKeeps
<1>4. ASSUME NEW u \in Users \ System, NEW path, Login(u, path) PROVE SharedIInv'
  BY <1>4, LoginKeeps
<1>5. ASSUME NEW path, Logout(path) PROVE SharedIInv'
  BY <1>5, LogoutKeeps
<1> QED BY <1>0, <1>1, <1>2, <1>3, <1>4, <1>5 DEF Outside

LEMMA SharesKeep == SharedIInv /\ Shares => SharedIInv'
<1> SUFFICES ASSUME SharedIInv, Shares PROVE SharedIInv'
  OBVIOUS
<1>1. CASE shared_data_manager_start
  BY <1>1, StartKeeps
<1>2. ASSUME NEW ok \in BOOLEAN, list_user_dirs_cb(ok) PROVE SharedIInv'
  BY <1>2, ListDirsKeeps
<1>3. ASSUME NEW files \in SUBSET Users, next_user_dirs_cb(files) PROVE SharedIInv'
  BY <1>3, NextDirsKeeps
<1>4. CASE next_user_dirs_error
  BY <1>4, DirsErrorKeeps
<1>5. CASE delete_unused_users
  BY <1>5, DeleteUnusedKeeps
<1> QED BY <1>1, <1>2, <1>3, <1>4, <1>5 DEF Shares

LEMMA SharedNextKeeps == SharedIInv /\ [SharedNext]_sharedVars => SharedIInv'
<1> SUFFICES ASSUME SharedIInv, [SharedNext]_sharedVars PROVE SharedIInv'
  OBVIOUS
<1>1. CASE (Answers \/ Delivers \/ Asks \/ Outside) /\ UNCHANGED <<dirs, data>>
  BY <1>1, AnswersKeep, DeliversKeep, AsksKeep, OutsideAllKeep
<1>2. CASE Shares
  BY <1>2, SharesKeep
<1>3. ASSUME NEW u \in Users, shared_data_manager_ensure_user_dir(u) PROVE SharedIInv'
  BY <1>3, EnsureDirKeeps
<1>4. ASSUME NEW u \in Users, rm(u) PROVE SharedIInv'
  BY <1>4, RmKeeps
<1>5. CASE UNCHANGED sharedVars
  <2>1. UNCHANGED <<process, accounts, dmrc, logins, events, list, view, removing, lost, touched, changes, dirs, data>>
    BY <1>5 DEF sharedVars, listVars
  <2>2. TypeOK'
    BY <2>1 DEF SharedIInv, TypeOK
  <2> QED BY <2>1, <2>2, ListStays, KeptStays, CoveredStays DEF SharedIInv
<1> QED BY <1>1, <1>2, <1>3, <1>4, <1>5 DEF SharedNext

(***************************************************************************)
(* The theorems                                                            *)
(***************************************************************************)

(* The inductive invariant holds in every state: what is known of the      *)
(* users, the sessions, the directories, the wrappers and the rows always  *)
(* fits the signals that still wait (the callbacks of user-list.c, user.c  *)
(* and shared-data-manager.c).                                             *)
THEOREM SharedInvariant == SharedSpec => []SharedIInv
<1>1. SharedInit => SharedIInv
  BY SharedInitHolds
<1>2. SharedIInv /\ [SharedNext]_sharedVars => SharedIInv'
  BY SharedNextKeeps
<1> QED BY <1>1, <1>2, PTL DEF SharedSpec

(* A sequence without repetition has as many elements as places.           *)
LEMMA OnceCounts ==
  ASSUME NEW q \in Seq(Users), Once(q)
  PROVE  Len(q) = Cardinality(ToSet(q))
BY OnceLength

LEMMA ListFollows == SharedIInv => ListInv
<1> SUFFICES ASSUME SharedIInv PROVE ListInv
  OBVIOUS
<1>0. list \in ListType /\ list.users \in Seq(Users) /\ AccountsOK(accounts)
  BY DEF SharedIInv, TypeOK, ListType
<1>1. ListConverges
  <2> SUFFICES ASSUME Loaded, Settled, "users" \notin lost
               PROVE  /\ ToSet(list.users) = DOMAIN accounts \ System
                      /\ Len(list.users) = Cardinality(ToSet(list.users))
                      /\ \A u \in ToSet(list.users) : InfoIs(u)
    BY DEF ListConverges
  <2>1. Len(list.users) = Cardinality(ToSet(list.users))
    BY <1>0, OnceCounts DEF SharedIInv, ShapeInv
  <2>2. events = <<>> /\ Len(events) = 0
    BY DEF Settled
  <2>3. CASE list.state = "accounts"
    <3>1. Listed(events, list, accounts) /\ Known(events, list, accounts)
      BY <2>3 DEF SharedIInv, KnownInv
    <3>2. \A u : Silent(events, u) /\ \A kind : ~Pending(events, kind, u)
      BY <2>2 DEF Silent, Pending
    <3>3. list.paths = <<>> /\ ToSet(list.paths) = {}
      BY <2>3 DEF SharedIInv, ShapeInv, ToSet
    <3>4. ToSet(list.users) \intersect System = {} /\ ToSet(list.users) \subseteq Users
      BY <1>0, InSeq DEF SharedIInv, ShapeInv
    <3>5. ToSet(list.users) = DOMAIN accounts \ System
      <4>1. \A u \in Users \ System : u \in ToSet(list.users) <=> u \in DOMAIN accounts
        BY <3>1, <3>2, <3>3 DEF Listed
      <4>2. DOMAIN accounts \subseteq Users
        BY <1>0 DEF AccountsOK
      <4> QED BY <3>4, <4>1, <4>2
    <3>6. \A u \in ToSet(list.users) : InfoIs(u)
      BY <2>3, <3>1, <3>2 DEF Known, InfoIs
    <3> QED BY <2>1, <3>5, <3>6
  <2>4. CASE list.state = "passwd"
    <3>1. AsRead(list, accounts)
      BY <2>2, <2>4 DEF SharedIInv, KnownInv
    <3> QED BY <2>1, <2>4, <3>1 DEF AsRead, InfoIs
  <2> QED BY <2>3, <2>4 DEF Loaded
<1>2. LoginsSeen
  <2> SUFFICES ASSUME list.session_added_signal, Settled, "sessions" \notin lost, NEW path \in DOMAIN logins
               PROVE  \E i \in DOMAIN list.sessions : list.sessions[i].path = path
    BY DEF LoginsSeen
  <2>1. Seen(path, events, list)
    BY DEF SharedIInv, SessionsInv
  <2>2. Len(events) = 0 /\ ~list.asking /\ ToSet(list.session_paths) = {} /\ DOMAIN list.sessions = 1..Len(list.sessions)
    BY <1>0 DEF Settled, Waiting, ToSet, ListType
  <2> QED BY <2>1, <2>2 DEF Seen, Pending
<1> QED BY <1>1, <1>2 DEF ListInv

(* When every signal has been handled the list of users has exactly the    *)
(* accounts that are to be shown, once each and as they are, and no        *)
(* session is missed (load_users and load_sessions of user-list.c), for    *)
(* any users and any changes while they are being read.                    *)
THEOREM ListTheorem == SharedSpec => []ListInv
BY SharedInvariant, ListFollows, PTL

(* The rows of a Qt greeter are the listed users, and with AccountsService *)
(* each says what the list knows (user_list_added_cb, user_list_changed_cb *)
(* and user_list_removed_cb of user.c, usersmodel.cpp), whatever comes, in *)
(* whatever order.                                                         *)
THEOREM RowsTheorem == SharedSpec => []RowsMirror
<1>1. SharedIInv => RowsMirror
  <2> SUFFICES ASSUME SharedIInv, view.model = "connected" PROVE
        /\ Len(view.rows) = Len(list.users)
        /\ {view.rows[i].name : i \in DOMAIN view.rows} = ToSet(list.users)
        /\ list.state = "accounts" =>
             view.list = list.users /\ ToSet(view.rows) = {UserItem(list, u) : u \in ToSet(list.users)}
    BY DEF RowsMirror
  <2> DEFINE rows == view.rows
             X == ToSet(list.users)
             names == [i \in 1..Len(rows) |-> rows[i].name]
  <2>1. /\ list \in ListType /\ list.users \in Seq(Users) /\ rows \in Seq(Row) /\ Once(list.users)
        /\ Len(rows) \in Nat /\ DOMAIN rows = 1..Len(rows)
    BY DEF SharedIInv, TypeOK, ListType, ViewType, ShapeInv
  <2>2. RowsOK(list, view) /\ view.initialized
    BY NoViewIs DEF SharedIInv, ViewInv
  <2>3. NamesOnce(rows) /\ NamesOf(rows) = X
    BY <2>2 DEF RowsOK, NamesOnce, NamesOf
  <2> HIDE DEF rows, X
  <2>4. names \in Seq(Users) /\ Len(names) = Len(rows) /\ \A i \in 1..Len(rows) : names[i] = rows[i].name
    <3>1. \A i \in 1..Len(rows) : rows[i].name \in Users
      <4>1. \A i \in 1..Len(rows) : rows[i] \in Row
        BY <2>1
      <4> QED BY <4>1 DEF Row
    <3> QED BY <2>1, <3>1
  <2> HIDE DEF names
  <2>5. Once(names) /\ ToSet(names) = X
    <3>1. Once(names)
      BY <2>3, <2>4 DEF Once, NamesOnce
    <3>2. ToSet(names) = NamesOf(rows)
      BY <2>4, InSeq DEF NamesOf
    <3> QED BY <2>3, <3>1, <3>2
  <2>6. Len(rows) = Len(list.users)
    BY <2>1, <2>4, <2>5, OnceCounts DEF X
  <2>7. ASSUME list.state = "accounts"
        PROVE  view.list = list.users /\ ToSet(rows) = {UserItem(list, u) : u \in X}
    <3>1. view.list = list.users
      BY <2>2, <2>7 DEF SharedIInv, ViewInv, WrappersOK
    <3>2. \A i \in 1..Len(rows) : rows[i] = UserItem(list, rows[i].name)
      BY <2>2, <2>7 DEF RowsOK, rows
    <3>3. \A x : x \in ToSet(rows) <=> \E i \in 1..Len(rows) : x = rows[i]
      BY <2>1, InSeq
    <3>4. \A x : x \in X <=> \E i \in 1..Len(rows) : x = rows[i].name
      BY <2>3 DEF NamesOf
    <3>5. ToSet(rows) = {UserItem(list, u) : u \in X}
      BY <3>2, <3>3, <3>4
    <3> QED BY <3>1, <3>5
  <2>8. {rows[i].name : i \in DOMAIN rows} = X
    BY <2>1, <2>3 DEF NamesOf
  <2> QED BY <2>6, <2>7, <2>8 DEF rows, X
<1> QED BY <1>1, SharedInvariant, PTL

(* Once everything is handled no directory is left without an account, of  *)
(* those there when the daemon started and of those of users that went     *)
(* (delete_unused_user), however the directories and the users were read.  *)
THEOREM ObsoleteTheorem == SharedSpec => []ObsoleteGone
<1>1. SharedIInv => ObsoleteGone
  <2> SUFFICES ASSUME SharedIInv, data.phase = "done", Settled, removing = {}, "users" \notin lost
               PROVE  dirs \subseteq DOMAIN accounts \union data.unlisted
    BY DEF ObsoleteGone
  <2>1. dirs \subseteq data.unlisted \union ToSet(list.users)
    BY DEF SharedIInv, CoveredInv, LookedAt
  <2>2. ListConverges
    BY ListFollows DEF ListInv
  <2>3. list.state \in ListStates
    BY DEF SharedIInv, TypeOK, ListType
  <2>4. CASE list.state = "unloaded"
    <3>1. ToSet(list.users) = {}
      BY <2>4 DEF SharedIInv, ShapeInv, ToSet
    <3> QED BY <2>1, <3>1
  <2>5. CASE Loaded
    BY <2>1, <2>2, <2>5 DEF ListConverges
  <2> QED BY <2>3, <2>4, <2>5 DEF ListStates, Loaded, Settled, Waiting
<1> QED BY <1>1, SharedInvariant, PTL

(* /bin/rm never takes the directory of a user that is shown and whose     *)
(* account was there all the time: every directory handed to it is that of *)
(* a user who went, came or could not be read since (next_user_dirs_cb and *)
(* user_removed_cb of shared-data-manager.c).                              *)
THEOREM DirectoriesTheorem == SharedSpec => DirectoriesKept
<1> DEFINE Kept == \A u \in dirs \ dirs' : u \in touched \union System \/ u \notin DOMAIN accounts
<1>1. SharedIInv /\ [SharedNext]_sharedVars => [Kept]_sharedVars
  <2> SUFFICES ASSUME SharedIInv, SharedNext PROVE Kept
    OBVIOUS
  <2>1. CASE \E w \in Users : rm(w)
    <3>1. PICK w \in Users : rm(w)
      BY <2>1
    <3>2. w \in removing /\ dirs' = dirs \ {w}
      BY <3>1 DEF rm
    <3>3. MayGo(w, accounts, touched)
      BY <3>2 DEF SharedIInv, KeptInv
    <3> QED BY <3>2, <3>3 DEF MayGo
  <2>2. CASE ~\E w \in Users : rm(w)
    <3>1. ASSUME Shares PROVE dirs' = dirs
      <4>1. ASSUME NEW files, next_user_dirs_cb(files) PROVE dirs' = dirs
        BY <4>1, Zenon DEF next_user_dirs_cb
      <4>2. ASSUME NEW ok, list_user_dirs_cb(ok) PROVE dirs' = dirs
        BY <4>2, Zenon DEF list_user_dirs_cb
      <4>3. shared_data_manager_start \/ next_user_dirs_error \/ delete_unused_users => dirs' = dirs
        BY DEF shared_data_manager_start, next_user_dirs_error, delete_unused_users
      <4> QED BY <3>1, <4>1, <4>2, <4>3 DEF Shares
    <3>2. ASSUME NEW w \in Users, shared_data_manager_ensure_user_dir(w) PROVE dirs \subseteq dirs'
      BY <3>2 DEF shared_data_manager_ensure_user_dir
    <3>3. dirs \subseteq dirs'
      BY <2>2, <3>1, <3>2 DEF SharedNext
    <3> QED BY <3>3
  <2> QED BY <2>1, <2>2
<1>2. SharedSpec => [][Kept]_sharedVars
  BY <1>1, SharedInvariant, PTL DEF SharedSpec
<1> QED BY <1>2 DEF DirectoriesKept
=============================================================================
