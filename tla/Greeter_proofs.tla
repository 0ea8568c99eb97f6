--------------------------- MODULE Greeter_proofs ---------------------------
(***************************************************************************)
(* Proofs about Greeter, for any number of clients, authentications and    *)
(* requests and for queues of any length.  AuthenticationEnds needs        *)
(* fairness and is left to TLC.                                            *)
(***************************************************************************)
EXTENDS Greeter, TLAPS

(* What the variables hold.                                                *)
AuthKinds == {"user", "guest", "remote"}
Auths == (Clients \union {NoClient}) \X Nat

ClientRecord ==
  [connected : BOOLEAN, seq : Nat, in_auth : BOOLEAN, is_auth : BOOLEAN, cancelling : BOOLEAN,
   waiting : Nat, received : Nat, show : Nat, nested : SUBSET (Nat \X Nat), prompt : Nat,
   believed : Nat, requests : [Kinds -> Seq(Nat)], gone : BOOLEAN, crossed : BOOLEAN, sent : Nat,
   cancelled : BOOLEAN, asked : BOOLEAN, badsend : BOOLEAN, late : BOOLEAN]

ToMessage ==
  [t : Kinds, id : Nat, auth : Auths, believed : Auths, cancelled : BOOLEAN]
    \union [t : AuthKinds, auth : Auths]
    \union [t : {"continue"}, n : Nat, auth : Auths, late : BOOLEAN]
    \union [t : {"cancel", "language"}]

FromMessage ==
  [t : {"connected", "start", "dir"}, id : Nat]
    \union [t : {"prompt"}, auth : Auths, n : 0..MaxPrompts]
    \union [t : {"end"}, auth : Auths, ok : BOOLEAN]
    \union [t : {"idle", "reset"}]

Reply == [error : BOOLEAN, given : Auths, late : BOOLEAN]

ServerRecord == [connected : BOOLEAN, seq : Nat, guest : Auths, remote : BOOLEAN]

SessionRecord ==
  [state : {"none", "running", "asking", "failing", "complete", "failed"}, auth : Auths,
   prompts : Nat, asks : Nat, replies : Seq(Reply), ok : BOOLEAN]

ClientTypes ==
  /\ cli \in [Clients -> ClientRecord]
  /\ link \in [Clients -> {"none", "pending", "open", "refused", "closed"}]
  /\ issued \in 0..MaxRequests

QueueTypes ==
  /\ toServer \in [Clients -> Seq(ToMessage)]
  /\ fromServer \in [Clients -> Seq(FromMessage)]
  /\ \A c \in Clients : Len(toServer[c]) <= MaxQueue /\ Len(fromServer[c]) <= MaxQueue

DaemonTypes ==
  /\ served \in Clients \union {NoClient}
  /\ srv \in ServerRecord
  /\ session \in SessionRecord

(* The prompts of one message are shown, waited for or answered, unless    *)
(* one came inside another; and nothing is sent that was not begun.        *)
Fit(r) ==
  /\ r.sent <= r.seq
  /\ ~r.late => r.waiting + r.received + r.show <= MaxPrompts

Prompts == \A c \in Clients : Fit(cli[c])

(* One greeter is served, and nobody else hears from the daemon.           *)
Links ==
  /\ \A c \in Clients : link[c] = "open" <=> served = c
  /\ served = NoClient => srv = NewServer /\ session = NoSession
  /\ session.state = "none" => session = NoSession
  /\ \A c \in Clients :
       /\ link[c] \in {"none", "pending", "refused"} => fromServer[c] = <<>> /\ ~cli[c].is_auth
       /\ link[c] = "closed" => cli[c].gone

----------------------------------------------------------------------------
(* What a client has asked for, as far as it matters to the daemon: the    *)
(* last authentication that was sent, whether it was cancelled and whether *)
(* a session was asked for.                                                *)
Shots == [seq : Nat, cancelled : BOOLEAN, asked : BOOLEAN]
Shot(c) == [seq |-> cli[c].sent, cancelled |-> cli[c].cancelled, asked |-> cli[c].asked]

(* The client sends m, and what it has asked for changes from a to b.      *)
Sends(c, m, a, b) ==
  /\ m.t \in AuthKinds =>
       b.seq > a.seq /\ ~b.cancelled /\ ~b.asked /\ m.auth = <<c, b.seq>>
  /\ m.t = "cancel" => b = [seq |-> a.seq, cancelled |-> TRUE, asked |-> a.asked]
  /\ m.t = "start" =>
       /\ b = [seq |-> a.seq, cancelled |-> a.cancelled, asked |-> TRUE]
       /\ m.auth = <<c, a.seq>> /\ m.cancelled = a.cancelled
       /\ m.believed \in {NoAuth, m.auth}
  /\ m.t \notin AuthKinds \union {"cancel", "start"} => b = a

(* The messages q lead from a to b.                                        *)
Leads(c, q, a, b) ==
  \E h \in [0..Len(q) -> Shots] :
    /\ h[0] = a /\ h[Len(q)] = b
    /\ \A i \in 0..Len(q) : h[i].seq <= b.seq
    /\ \A i \in 1..Len(q) : Sends(c, q[i], h[i - 1], h[i])

(* A daemon with the private data v and the session x can start the        *)
(* session of authentication n of client c.                                *)
Agrees(v, x, c, n) ==
  v.guest = <<c, n>> \/ (x.state = "complete" /\ x.ok /\ x.auth = <<c, n>>)

(* A client that was told that n is authenticated can rely on it, unless   *)
(* the daemon has read since, in d, what makes it void.                    *)
Reliable(v, x, c, d, n) ==
  n <= d.seq /\ (n = d.seq /\ ~d.cancelled /\ ~d.asked => Agrees(v, x, c, n))

(* The daemon has read what leads to d.                                    *)
HasRead(c, d) ==
  /\ srv.guest # NoAuth => srv.guest = <<c, d.seq>> /\ session.state = "none"
  /\ session.state # "none" => session.auth = <<c, d.seq>> /\ srv.seq = d.seq /\ ~d.cancelled
  /\ cli[c].is_auth => Reliable(srv, session, c, d, cli[c].seq)
  /\ \A i \in 1..Len(fromServer[c]) :
       LET m == fromServer[c][i] IN m.t = "end" /\ m.ok => Reliable(srv, session, c, d, m.auth[2])

Conversation(c) ==
  \E d \in Shots : Leads(c, toServer[c], d, Shot(c)) /\ (served = c => HasRead(c, d))

----------------------------------------------------------------------------
(* Requests and replies of one kind: reqs is the client's list, ts and fs  *)
(* are the queues to and from the daemon, and n is the last id that was    *)
(* given away.  Ids grow, so that their order says which is answered next. *)
ReplyTo(kind) == IF kind = "connect" THEN "connected" ELSE kind

Asked(ts, kind) == {i \in 1..Len(ts) : ts[i].t = kind}
Replied(fs, kind) == {i \in 1..Len(fs) : fs[i].t = ReplyTo(kind)}

InOrder(kind, reqs, ts, fs) ==
  /\ \A i, j \in 1..Len(reqs) : i < j => reqs[i] < reqs[j]
  /\ \A i, j \in Asked(ts, kind) : i < j => ts[i].id < ts[j].id
  /\ \A i, j \in Replied(fs, kind) : i < j => fs[i].id < fs[j].id
  /\ \A i \in Replied(fs, kind), j \in Asked(ts, kind) : fs[i].id < ts[j].id

UnderWay(kind, reqs, ts, fs, n) ==
  /\ \A k \in 1..Len(reqs) :
       /\ reqs[k] <= n
       /\ \/ \E i \in Asked(ts, kind) : ts[i].id = reqs[k]
          \/ \E i \in Replied(fs, kind) : fs[i].id = reqs[k]
  /\ \A i \in Asked(ts, kind) : \E k \in 1..Len(reqs) : reqs[k] = ts[i].id
  /\ \A i \in Replied(fs, kind) : \E k \in 1..Len(reqs) : reqs[k] = fs[i].id

InStep(kind, reqs, ts, fs, n) == InOrder(kind, reqs, ts, fs) /\ UnderWay(kind, reqs, ts, fs, n)

Matched(c) ==
  ~cli[c].badsend =>
    /\ ~cli[c].crossed
    /\ ~cli[c].gone /\ link[c] \notin {"refused", "closed"} =>
         \A kind \in Kinds : InStep(kind, cli[c].requests[kind], toServer[c], fromServer[c], issued)

----------------------------------------------------------------------------
GreeterIInv ==
  /\ ClientTypes /\ QueueTypes /\ DaemonTypes /\ Prompts /\ Links
  /\ StartsWhatWasAsked
  /\ \A c \in Clients : Conversation(c) /\ Matched(c)

----------------------------------------------------------------------------
(* Facts about message queues                                              *)

(* What is left when the first is taken away.                              *)
LEMMA TailFacts ==
  ASSUME NEW S, NEW q \in Seq(S), q # <<>>
  PROVE  /\ Tail(q) \in Seq(S) /\ Len(Tail(q)) = Len(q) - 1 /\ Len(q) \in Nat \ {0}
         /\ Head(q) = q[1] /\ q[1] \in S
         /\ \A i \in 1..Len(Tail(q)) : Tail(q)[i] = q[i + 1]
OBVIOUS

(* The same for a list of ids.                                             *)
LEMMA TailOfIds ==
  \A q \in Seq(Nat) : q # <<>> => \A i \in 1..Len(Tail(q)) : Tail(q)[i] = q[i + 1]
OBVIOUS

(* What there is when one is put behind the others.                        *)
LEMMA AppendFacts ==
  ASSUME NEW S, NEW q \in Seq(S), NEW m \in S
  PROVE  /\ Append(q, m) \in Seq(S) /\ Len(Append(q, m)) = Len(q) + 1 /\ Len(q) \in Nat
         /\ Append(q, m)[Len(q) + 1] = m
         /\ \A i \in 1..Len(q) : Append(q, m)[i] = q[i]
OBVIOUS

(* Nothing under way leads from a to a, and nowhere else.                  *)
LEMMA LeadsEmpty ==
  ASSUME NEW c, NEW a \in Shots
  PROVE  Leads(c, <<>>, a, a) /\ \A b \in Shots : Leads(c, <<>>, b, a) => b = a
<1>1. Leads(c, <<>>, a, a)
  <2> DEFINE h == [i \in 0..0 |-> a]
  <2>1. h \in [0..Len(<<>>) -> Shots] /\ h[0] = a /\ h[Len(<<>>)] = a
    OBVIOUS
  <2>2. \A i \in 1..Len(<<>>) : Sends(c, <<>>[i], h[i - 1], h[i])
    OBVIOUS
  <2>3. \A i \in 0..Len(<<>>) : h[i].seq <= a.seq
    BY DEF Shots
  <2> HIDE DEF h
  <2> QED BY <2>1, <2>2, <2>3 DEF Leads
<1>2. ASSUME NEW b \in Shots, Leads(c, <<>>, b, a) PROVE b = a
  BY <1>2 DEF Leads
<1> QED BY <1>1, <1>2

(* A message put behind the others.                                        *)
LEMMA LeadsAppend ==
  ASSUME NEW c, NEW S, NEW q \in Seq(S), NEW m \in S, NEW a, NEW b, NEW d \in Shots,
         Leads(c, q, a, b), Sends(c, m, b, d)
  PROVE  Leads(c, Append(q, m), a, d)
<1> DEFINE n == Len(q)
           p == Append(q, m)
<1>1. /\ p \in Seq(S) /\ Len(p) = n + 1 /\ n \in Nat /\ p[n + 1] = m
      /\ \A i \in 1..n : p[i] = q[i]
  BY AppendFacts
<1>2. PICK h \in [0..n -> Shots] :
         /\ h[0] = a /\ h[n] = b
         /\ \A i \in 0..n : h[i].seq <= b.seq
         /\ \A i \in 1..n : Sends(c, q[i], h[i - 1], h[i])
  BY DEF Leads
<1> DEFINE g == [i \in 0..n + 1 |-> IF i = n + 1 THEN d ELSE h[i]]
<1>3. g \in [0..Len(p) -> Shots] /\ g[0] = a /\ g[Len(p)] = d
  BY <1>1, <1>2
<1>5. ASSUME NEW i \in 0..Len(p) PROVE g[i].seq <= d.seq
  <2>1. b \in Shots /\ b.seq \in Nat /\ d.seq \in Nat
    BY <1>1, <1>2 DEF Shots
  <2>2. b.seq <= d.seq
    BY <2>1 DEF Sends
  <2>3. CASE i = n + 1
    BY <1>1, <2>1, <2>3
  <2>4. CASE i # n + 1
    <3>1. i \in 0..n /\ g[i] = h[i] /\ h[i] \in Shots
      BY <1>1, <1>2, <1>5, <2>4
    <3>2. h[i].seq <= b.seq /\ h[i].seq \in Nat
      BY <1>2, <3>1 DEF Shots
    <3> HIDE DEF g
    <3>3. h[i].seq <= d.seq
      BY <2>1, <2>2, <3>2
    <3> QED BY <3>1, <3>3
  <2> QED BY <2>3, <2>4
<1>4. ASSUME NEW i \in 1..Len(p) PROVE Sends(c, p[i], g[i - 1], g[i])
  <2>1. CASE i = n + 1
    <3>1. p[i] = m /\ g[i - 1] = b /\ g[i] = d
      BY <1>1, <1>2, <2>1
    <3> QED BY <3>1
  <2>2. CASE i # n + 1
    <3>1. i \in 1..n /\ p[i] = q[i] /\ g[i - 1] = h[i - 1] /\ g[i] = h[i]
      BY <1>1, <1>4, <2>2
    <3> QED BY <1>2, <3>1
  <2> QED BY <2>1, <2>2
<1> HIDE DEF g, p, n
<1> QED BY <1>3, <1>4, <1>5 DEF Leads, p

(* The first message taken away.                                           *)
LEMMA LeadsTail ==
  ASSUME NEW c, NEW S, NEW q \in Seq(S), q # <<>>, NEW a, NEW b, Leads(c, q, a, b)
  PROVE  \E d \in Shots : Sends(c, Head(q), a, d) /\ Leads(c, Tail(q), d, b)
<1> DEFINE n == Len(q)
           p == Tail(q)
<1>1. /\ p \in Seq(S) /\ Len(p) = n - 1 /\ n \in Nat \ {0} /\ Head(q) = q[1]
      /\ \A i \in 1..Len(p) : p[i] = q[i + 1]
  BY TailFacts
<1>2. PICK h \in [0..n -> Shots] :
         /\ h[0] = a /\ h[n] = b
         /\ \A i \in 0..n : h[i].seq <= b.seq
         /\ \A i \in 1..n : Sends(c, q[i], h[i - 1], h[i])
  BY DEF Leads
<1> DEFINE g == [i \in 0..n - 1 |-> h[i + 1]]
<1>3. g \in [0..Len(p) -> Shots] /\ g[0] = h[1] /\ g[Len(p)] = b /\ h[1] \in Shots
  BY SMTT(60), <1>1, <1>2
<1>4. ASSUME NEW i \in 1..Len(p) PROVE Sends(c, p[i], g[i - 1], g[i])
  <2>1. i + 1 \in 1..n /\ p[i] = q[i + 1] /\ g[i - 1] = h[(i + 1) - 1] /\ g[i] = h[i + 1]
    BY <1>1, <1>4
  <2> QED BY <1>2, <2>1
<1>5. Sends(c, Head(q), a, h[1])
  <2>1. 1 \in 1..n /\ h[1 - 1] = a
    BY <1>1, <1>2
  <2> QED BY <1>1, <1>2, <2>1
<1>6. Leads(c, p, h[1], b)
  <2>1. ASSUME NEW i \in 0..Len(p) PROVE g[i].seq <= b.seq
    <3>1. i + 1 \in 0..n /\ g[i] = h[i + 1]
      BY <1>1, <2>1
    <3> QED BY <1>2, <3>1
  <2> HIDE DEF g, p, n
  <2> QED BY <1>3, <1>4, <2>1 DEF Leads
<1> QED BY <1>3, <1>5, <1>6

(* Numbers only grow.                                                      *)
LEMMA LeadsUp ==
  ASSUME NEW c, NEW S, NEW q \in Seq(S), NEW a, NEW b, Leads(c, q, a, b)
  PROVE  a.seq <= b.seq
BY DEF Leads

----------------------------------------------------------------------------
(* Facts about requests and replies                                        *)

(* A message that is neither changes nothing.                              *)
LEMMA StepAppend ==
  ASSUME NEW kind \in Kinds, NEW reqs \in Seq(Nat), NEW ts \in Seq(ToMessage),
         NEW fs \in Seq(FromMessage), NEW n \in Nat,
         InStep(kind, reqs, ts, fs, n)
  PROVE  /\ \A m \in ToMessage : m.t # kind => InStep(kind, reqs, Append(ts, m), fs, n)
         /\ \A m \in FromMessage : m.t # ReplyTo(kind) => InStep(kind, reqs, ts, Append(fs, m), n)
<1>1. ASSUME NEW m \in ToMessage, m.t # kind PROVE InStep(kind, reqs, Append(ts, m), fs, n)
  <2> DEFINE p == Append(ts, m)
  <2>1. Asked(p, kind) = Asked(ts, kind) /\ \A i \in Asked(ts, kind) : p[i] = ts[i]
    BY <1>1, AppendFacts DEF Asked
  <2> HIDE DEF p
  <2>2. InStep(kind, reqs, p, fs, n)
    BY ZenonT(60), <2>1 DEF InStep, InOrder, UnderWay
  <2> QED BY <2>2 DEF p
<1>2. ASSUME NEW m \in FromMessage, m.t # ReplyTo(kind) PROVE InStep(kind, reqs, ts, Append(fs, m), n)
  <2> DEFINE p == Append(fs, m)
  <2>1. Replied(p, kind) = Replied(fs, kind) /\ \A i \in Replied(fs, kind) : p[i] = fs[i]
    BY <1>2, AppendFacts DEF Replied
  <2> HIDE DEF p
  <2>2. InStep(kind, reqs, ts, p, n)
    BY ZenonT(60), <2>1 DEF InStep, InOrder, UnderWay
  <2> QED BY <2>2 DEF p
<1> QED BY <1>1, <1>2

(* Places move by one when the head is taken.                              *)
LEMMA AskedTail ==
  ASSUME NEW kind, NEW ts \in Seq(ToMessage), ts # <<>>
  PROVE  /\ \A i \in Asked(Tail(ts), kind) : i + 1 \in Asked(ts, kind) /\ Tail(ts)[i] = ts[i + 1]
         /\ \A i \in Asked(ts, kind) : i # 1 => i - 1 \in Asked(Tail(ts), kind)
                                                  /\ Tail(ts)[i - 1] = ts[i]
         /\ 1 \in Asked(ts, kind) <=> Head(ts).t = kind
         /\ Asked(ts, kind) \subseteq Nat \ {0} /\ Asked(Tail(ts), kind) \subseteq Nat \ {0}
BY TailFacts DEF Asked

(* The same for replies.                                                   *)
LEMMA RepliedTail ==
  ASSUME NEW kind, NEW fs \in Seq(FromMessage), fs # <<>>
  PROVE  /\ \A i \in Replied(Tail(fs), kind) : i + 1 \in Replied(fs, kind) /\ Tail(fs)[i] = fs[i + 1]
         /\ \A i \in Replied(fs, kind) : i # 1 => i - 1 \in Replied(Tail(fs), kind)
                                                    /\ Tail(fs)[i - 1] = fs[i]
         /\ 1 \in Replied(fs, kind) <=> Head(fs).t = ReplyTo(kind)
         /\ Replied(fs, kind) \subseteq Nat \ {0} /\ Replied(Tail(fs), kind) \subseteq Nat \ {0}
BY TailFacts DEF Replied

(* Taking one that is neither changes nothing.                             *)
LEMMA StepTail ==
  ASSUME NEW kind \in Kinds, NEW reqs \in Seq(Nat), NEW ts \in Seq(ToMessage),
         NEW fs \in Seq(FromMessage), NEW n \in Nat,
         InStep(kind, reqs, ts, fs, n)
  PROVE  /\ ts # <<>> /\ Head(ts).t # kind => InStep(kind, reqs, Tail(ts), fs, n)
         /\ fs # <<>> /\ Head(fs).t # ReplyTo(kind) => InStep(kind, reqs, ts, Tail(fs), n)
<1>1. ASSUME ts # <<>>, Head(ts).t # kind PROVE InStep(kind, reqs, Tail(ts), fs, n)
  <2> DEFINE p == Tail(ts)
  <2>1. /\ \A i \in Asked(p, kind) : i + 1 \in Asked(ts, kind) /\ p[i] = ts[i + 1]
        /\ Asked(ts, kind) \subseteq Nat \ {0} /\ Asked(p, kind) \subseteq Nat \ {0}
    BY <1>1, AskedTail
  <2>2. \A i \in Asked(ts, kind) : i - 1 \in Asked(p, kind) /\ p[i - 1] = ts[i]
    <3>1. 1 \notin Asked(ts, kind)
      BY <1>1, AskedTail
    <3> QED BY ZenonT(60), <1>1, <3>1, AskedTail
  <2> HIDE DEF p
  <2>3. ASSUME NEW i \in Asked(p, kind), NEW j \in Asked(p, kind), i < j PROVE p[i].id < p[j].id
    <3>1. i + 1 < j + 1
      BY <2>1, <2>3
    <3> QED BY <2>1, <3>1 DEF InStep, InOrder
  <2>4. InOrder(kind, reqs, p, fs)
    BY <2>1, <2>3 DEF InStep, InOrder
  <2>5. ASSUME NEW k \in 1..Len(reqs)
        PROVE  /\ reqs[k] <= n
               /\ \/ \E i \in Asked(p, kind) : p[i].id = reqs[k]
                  \/ \E i \in Replied(fs, kind) : fs[i].id = reqs[k]
    <3>1. /\ reqs[k] <= n
          /\ \/ \E i \in Asked(ts, kind) : ts[i].id = reqs[k]
             \/ \E i \in Replied(fs, kind) : fs[i].id = reqs[k]
      BY DEF InStep, UnderWay
    <3>2. ASSUME NEW i \in Asked(ts, kind), ts[i].id = reqs[k]
          PROVE  \E l \in Asked(p, kind) : p[l].id = reqs[k]
      <4>1. i - 1 \in Asked(p, kind) /\ p[i - 1].id = reqs[k]
        BY <2>2, <3>2
      <4> QED BY <4>1
    <3> QED BY <3>1, <3>2
  <2>6. ASSUME NEW i \in Asked(p, kind) PROVE \E k \in 1..Len(reqs) : reqs[k] = p[i].id
    <3>1. i + 1 \in Asked(ts, kind) /\ p[i] = ts[i + 1]
      BY <2>1
    <3>2. \E k \in 1..Len(reqs) : reqs[k] = ts[i + 1].id
      BY <3>1 DEF InStep, UnderWay
    <3> QED BY <3>1, <3>2
  <2>7. UnderWay(kind, reqs, p, fs, n)
    BY <2>5, <2>6 DEF InStep, UnderWay
  <2> QED BY <2>4, <2>7 DEF InStep, p
<1>2. ASSUME fs # <<>>, Head(fs).t # ReplyTo(kind) PROVE InStep(kind, reqs, ts, Tail(fs), n)
  <2> DEFINE p == Tail(fs)
  <2>1. /\ \A i \in Replied(p, kind) : i + 1 \in Replied(fs, kind) /\ p[i] = fs[i + 1]
        /\ Replied(fs, kind) \subseteq Nat \ {0} /\ Replied(p, kind) \subseteq Nat \ {0}
    BY <1>2, RepliedTail
  <2>2. \A i \in Replied(fs, kind) : i - 1 \in Replied(p, kind) /\ p[i - 1] = fs[i]
    <3>1. 1 \notin Replied(fs, kind)
      BY <1>2, RepliedTail
    <3> QED BY <1>2, <3>1, RepliedTail
  <2> HIDE DEF p
  <2>3. ASSUME NEW i \in Replied(p, kind), NEW j \in Replied(p, kind), i < j PROVE p[i].id < p[j].id
    <3>1. i + 1 < j + 1
      BY <2>1, <2>3
    <3> QED BY <2>1, <3>1 DEF InStep, InOrder
  <2>4. InOrder(kind, reqs, ts, p)
    BY <2>1, <2>3 DEF InStep, InOrder
  <2>5. ASSUME NEW k \in 1..Len(reqs)
        PROVE  /\ reqs[k] <= n
               /\ \/ \E i \in Asked(ts, kind) : ts[i].id = reqs[k]
                  \/ \E i \in Replied(p, kind) : p[i].id = reqs[k]
    <3>1. /\ reqs[k] <= n
          /\ \/ \E i \in Asked(ts, kind) : ts[i].id = reqs[k]
             \/ \E i \in Replied(fs, kind) : fs[i].id = reqs[k]
      BY DEF InStep, UnderWay
    <3>2. ASSUME NEW i \in Replied(fs, kind), fs[i].id = reqs[k]
          PROVE  \E l \in Replied(p, kind) : p[l].id = reqs[k]
      <4>1. i - 1 \in Replied(p, kind) /\ p[i - 1].id = reqs[k]
        BY <2>2, <3>2
      <4> QED BY <4>1
    <3> QED BY <3>1, <3>2
  <2>6. ASSUME NEW i \in Replied(p, kind) PROVE \E k \in 1..Len(reqs) : reqs[k] = p[i].id
    <3>1. i + 1 \in Replied(fs, kind) /\ p[i] = fs[i + 1]
      BY <2>1
    <3>2. \E k \in 1..Len(reqs) : reqs[k] = fs[i + 1].id
      BY <3>1 DEF InStep, UnderWay
    <3> QED BY <3>1, <3>2
  <2>7. UnderWay(kind, reqs, ts, p, n)
    BY <2>5, <2>6 DEF InStep, UnderWay
  <2> QED BY <2>4, <2>7 DEF InStep, p
<1> QED BY <1>1, <1>2

(* Ids are numbers, and none is above the last one given away.             *)
LEMMA IdFacts ==
  ASSUME NEW kind \in Kinds, NEW reqs \in Seq(Nat), NEW ts \in Seq(ToMessage),
         NEW fs \in Seq(FromMessage), NEW n \in Nat,
         InStep(kind, reqs, ts, fs, n)
  PROVE  /\ \A k \in 1..Len(reqs) : reqs[k] \in Nat /\ reqs[k] <= n
         /\ \A i \in Asked(ts, kind) : ts[i].id \in Nat /\ ts[i].id <= n
         /\ \A i \in Replied(fs, kind) : fs[i].id \in Nat /\ fs[i].id <= n
<1>1. \A k \in 1..Len(reqs) : reqs[k] \in Nat /\ reqs[k] <= n
  BY DEF InStep, UnderWay
<1>2. ASSUME NEW i \in Asked(ts, kind) PROVE ts[i].id \in Nat /\ ts[i].id <= n
  BY <1>1 DEF InStep, UnderWay
<1>3. ASSUME NEW i \in Replied(fs, kind) PROVE fs[i].id \in Nat /\ fs[i].id <= n
  BY <1>1 DEF InStep, UnderWay
<1> QED BY <1>1, <1>2, <1>3

(* A request of another kind, or of another client, takes an id.           *)
LEMMA StepMore ==
  ASSUME NEW kind \in Kinds, NEW reqs \in Seq(Nat), NEW ts \in Seq(ToMessage),
         NEW fs \in Seq(FromMessage), NEW n \in Nat,
         InStep(kind, reqs, ts, fs, n)
  PROVE  InStep(kind, reqs, ts, fs, n + 1)
<1>1. \A k \in 1..Len(reqs) : reqs[k] <= n + 1
  BY IdFacts
<1> QED BY <1>1 DEF InStep, UnderWay

(* A request is sent: it is the last in the list and in the queue.         *)
LEMMA StepRequest ==
  ASSUME NEW kind \in Kinds, NEW reqs \in Seq(Nat), NEW ts \in Seq(ToMessage),
         NEW fs \in Seq(FromMessage), NEW n \in Nat,
         InStep(kind, reqs, ts, fs, n), NEW m \in ToMessage, m.t = kind, m.id = n + 1
  PROVE  InStep(kind, Append(reqs, n + 1), Append(ts, m), fs, n + 1)
<1> DEFINE p == Append(ts, m)
           r == Append(reqs, n + 1)
           x == Len(ts) + 1
           y == Len(reqs) + 1
<1>1. /\ Asked(p, kind) = Asked(ts, kind) \union {x} /\ p[x].id = n + 1
      /\ \A i \in Asked(ts, kind) : p[i] = ts[i] /\ i < x /\ i \in Nat
  BY AppendFacts DEF Asked
<1>2. /\ 1..Len(r) = 1..Len(reqs) \union {y} /\ r[y] = n + 1
      /\ \A k \in 1..Len(reqs) : r[k] = reqs[k] /\ k < y /\ k \in Nat
  BY AppendFacts
<1> HIDE DEF p, r, x, y
<1>3. InOrder(kind, r, p, fs)
  <2>1. ASSUME NEW i \in 1..Len(r), NEW j \in 1..Len(r), i < j PROVE r[i] < r[j]
    <3>1. i \in 1..Len(reqs)
      BY SMTT(60), <1>2, <2>1 DEF y
    <3>2. CASE j = y
      BY SMTT(60), <1>2, <3>1, <3>2, IdFacts
    <3>3. CASE j \in 1..Len(reqs)
      BY <1>2, <2>1, <3>1, <3>3 DEF InStep, InOrder
    <3> QED BY <1>2, <3>2, <3>3
  <2>2. ASSUME NEW i \in Asked(p, kind), NEW j \in Asked(p, kind), i < j PROVE p[i].id < p[j].id
    <3>1. i \in Asked(ts, kind)
      BY <1>1, <2>2 DEF x
    <3>2. CASE j = x
      BY SMTT(60), <1>1, <3>1, <3>2, IdFacts
    <3>3. CASE j \in Asked(ts, kind)
      BY <1>1, <2>2, <3>1, <3>3 DEF InStep, InOrder
    <3> QED BY <1>1, <3>2, <3>3
  <2>3. ASSUME NEW i \in Replied(fs, kind), NEW j \in Asked(p, kind) PROVE fs[i].id < p[j].id
    <3>1. CASE j = x
      BY <1>1, <3>1, IdFacts
    <3>2. CASE j \in Asked(ts, kind)
      BY <1>1, <3>2 DEF InStep, InOrder
    <3> QED BY <1>1, <3>1, <3>2
  <2> QED BY <2>1, <2>2, <2>3 DEF InStep, InOrder
<1>4. UnderWay(kind, r, p, fs, n + 1)
  <2>1. ASSUME NEW k \in 1..Len(r)
        PROVE  /\ r[k] <= n + 1
               /\ \/ \E i \in Asked(p, kind) : p[i].id = r[k]
                  \/ \E i \in Replied(fs, kind) : fs[i].id = r[k]
    <3>1. CASE k = y
      BY <1>1, <1>2, <3>1
    <3>2. CASE k \in 1..Len(reqs)
      <4>0. reqs[k] \in Nat /\ reqs[k] <= n
        BY <3>2, IdFacts
      <4>1. r[k] = reqs[k] /\ reqs[k] <= n + 1
        BY <1>2, <3>2, <4>0
      <4>2. \/ \E i \in Asked(ts, kind) : ts[i].id = reqs[k]
            \/ \E i \in Replied(fs, kind) : fs[i].id = reqs[k]
        BY <3>2 DEF InStep, UnderWay
      <4> QED BY <1>1, <4>1, <4>2
    <3> QED BY <1>2, <3>1, <3>2
  <2>2. ASSUME NEW i \in Asked(p, kind) PROVE \E k \in 1..Len(r) : r[k] = p[i].id
    <3>1. CASE i = x
      BY <1>1, <1>2, <3>1
    <3>2. CASE i \in Asked(ts, kind)
      <4>1. \E k \in 1..Len(reqs) : reqs[k] = ts[i].id
        BY <3>2 DEF InStep, UnderWay
      <4> QED BY <1>1, <1>2, <3>2, <4>1
    <3> QED BY <1>1, <3>1, <3>2
  <2>3. ASSUME NEW i \in Replied(fs, kind) PROVE \E k \in 1..Len(r) : r[k] = fs[i].id
    <3>1. \E k \in 1..Len(reqs) : reqs[k] = fs[i].id
      BY DEF InStep, UnderWay
    <3> QED BY <1>2, <3>1
  <2> QED BY <2>1, <2>2, <2>3 DEF UnderWay
<1> QED BY <1>3, <1>4 DEF InStep, p, r

(* A request is served: it is the first in the queue, and its reply the    *)
(* last in the other.                                                      *)
LEMMA StepServe ==
  ASSUME NEW kind \in Kinds, NEW reqs \in Seq(Nat), NEW ts \in Seq(ToMessage),
         NEW fs \in Seq(FromMessage), NEW n \in Nat,
         InStep(kind, reqs, ts, fs, n), ts # <<>>, Head(ts).t = kind,
         NEW m \in FromMessage, m.t = ReplyTo(kind), m.id = Head(ts).id
  PROVE  InStep(kind, reqs, Tail(ts), Append(fs, m), n)
<1> DEFINE q == Tail(ts)
           g == Append(fs, m)
           z == Len(fs) + 1
<1>1. /\ Replied(g, kind) = Replied(fs, kind) \union {z} /\ g[z].id = ts[1].id
      /\ \A i \in Replied(fs, kind) : g[i] = fs[i] /\ i < z /\ i \in Nat
  BY AppendFacts, TailFacts DEF Replied
<1>2. /\ \A i \in Asked(q, kind) : i + 1 \in Asked(ts, kind) /\ q[i] = ts[i + 1] /\ 1 < i + 1
      /\ \A i \in Asked(ts, kind) : i # 1 => i - 1 \in Asked(q, kind) /\ q[i - 1] = ts[i]
      /\ 1 \in Asked(ts, kind)
      /\ Asked(ts, kind) \subseteq Nat \ {0} /\ Asked(q, kind) \subseteq Nat \ {0}
  <2>1. \A i \in Asked(q, kind) : i + 1 \in Asked(ts, kind) /\ q[i] = ts[i + 1]
    BY TailFacts DEF Asked
  <2>2. \A i \in Asked(ts, kind) : i # 1 => i - 1 \in Asked(q, kind) /\ q[i - 1] = ts[i]
    BY TailFacts DEF Asked
  <2>3. /\ 1 \in Asked(ts, kind)
        /\ Asked(ts, kind) \subseteq Nat \ {0} /\ Asked(q, kind) \subseteq Nat \ {0}
    BY AskedTail
  <2> HIDE DEF q
  <2>4. \A i \in Asked(q, kind) : 1 < i + 1
    BY <2>3
  <2> QED BY <2>1, <2>2, <2>3, <2>4
<1> HIDE DEF q, g, z
<1>3. InOrder(kind, reqs, q, g)
  <2>1. ASSUME NEW i \in Asked(q, kind), NEW j \in Asked(q, kind), i < j PROVE q[i].id < q[j].id
    <3>1. i + 1 < j + 1
      BY <1>2, <2>1
    <3> QED BY ZenonT(60), <1>2, <3>1 DEF InStep, InOrder
  <2>2. ASSUME NEW i \in Replied(g, kind), NEW j \in Replied(g, kind), i < j PROVE g[i].id < g[j].id
    <3>1. i \in Replied(fs, kind)
      BY <1>1, <2>2 DEF z
    <3>2. CASE j = z
      BY <1>1, <1>2, <3>1, <3>2 DEF InStep, InOrder
    <3>3. CASE j \in Replied(fs, kind)
      BY <1>1, <2>2, <3>1, <3>3 DEF InStep, InOrder
    <3> QED BY <1>1, <3>2, <3>3
  <2>3. ASSUME NEW i \in Replied(g, kind), NEW j \in Asked(q, kind) PROVE g[i].id < q[j].id
    <3>1. j + 1 \in Asked(ts, kind) /\ q[j] = ts[j + 1] /\ 1 < j + 1
      BY <1>2
    <3>2. CASE i = z
      BY <1>1, <1>2, <3>1, <3>2 DEF InStep, InOrder
    <3>3. CASE i \in Replied(fs, kind)
      BY <1>1, <3>1, <3>3 DEF InStep, InOrder
    <3> QED BY <1>1, <3>2, <3>3
  <2> QED BY <2>1, <2>2, <2>3 DEF InStep, InOrder
<1>4. UnderWay(kind, reqs, q, g, n)
  <2>1. ASSUME NEW k \in 1..Len(reqs)
        PROVE  \/ \E i \in Asked(q, kind) : q[i].id = reqs[k]
               \/ \E i \in Replied(g, kind) : g[i].id = reqs[k]
    <3>1. ASSUME NEW i \in Asked(ts, kind), ts[i].id = reqs[k], i # 1
          PROVE  \E l \in Asked(q, kind) : q[l].id = reqs[k]
      <4>1. i - 1 \in Asked(q, kind) /\ q[i - 1].id = reqs[k]
        BY <1>2, <3>1
      <4> QED BY <4>1
    <3>2. ASSUME ts[1].id = reqs[k] PROVE \E l \in Replied(g, kind) : g[l].id = reqs[k]
      BY <1>1, <3>2
    <3>3. \/ \E i \in Asked(ts, kind) : ts[i].id = reqs[k]
          \/ \E i \in Replied(fs, kind) : fs[i].id = reqs[k]
      BY DEF InStep, UnderWay
    <3> QED BY <1>1, <3>1, <3>2, <3>3
  <2>2. ASSUME NEW i \in Asked(q, kind) PROVE \E k \in 1..Len(reqs) : reqs[k] = q[i].id
    <3>1. i + 1 \in Asked(ts, kind) /\ q[i] = ts[i + 1]
      BY <1>2
    <3>2. \E k \in 1..Len(reqs) : reqs[k] = ts[i + 1].id
      BY <3>1 DEF InStep, UnderWay
    <3> QED BY <3>1, <3>2
  <2>3. ASSUME NEW i \in Replied(g, kind) PROVE \E k \in 1..Len(reqs) : reqs[k] = g[i].id
    <3>1. CASE i = z
      <4>1. \E k \in 1..Len(reqs) : reqs[k] = ts[1].id
        BY <1>2 DEF InStep, UnderWay
      <4> QED BY <1>1, <3>1, <4>1
    <3>2. CASE i \in Replied(fs, kind)
      <4>1. \E k \in 1..Len(reqs) : reqs[k] = fs[i].id
        BY <3>2 DEF InStep, UnderWay
      <4> QED BY <1>1, <3>2, <4>1
    <3> QED BY <1>1, <3>1, <3>2
  <2> QED BY <2>1, <2>2, <2>3 DEF InStep, UnderWay
<1> QED BY <1>3, <1>4 DEF InStep, q, g

(* A reply is taken: it is the one to the first request in the list.       *)
LEMMA StepComplete ==
  ASSUME NEW kind \in Kinds, NEW reqs \in Seq(Nat), NEW ts \in Seq(ToMessage),
         NEW fs \in Seq(FromMessage), NEW n \in Nat,
         InStep(kind, reqs, ts, fs, n), fs # <<>>, Head(fs).t = ReplyTo(kind)
  PROVE  /\ reqs # <<>> /\ Head(reqs) = Head(fs).id
         /\ InStep(kind, Tail(reqs), ts, Tail(fs), n)
<1> DEFINE f == Tail(fs)
           r == Tail(reqs)
<1>1. /\ \A i \in Replied(f, kind) : i + 1 \in Replied(fs, kind) /\ f[i] = fs[i + 1] /\ 1 < i + 1
      /\ \A i \in Replied(fs, kind) : i # 1 => i - 1 \in Replied(f, kind) /\ f[i - 1] = fs[i] /\ 1 < i
      /\ 1 \in Replied(fs, kind) /\ Head(fs).id = fs[1].id
      /\ Replied(fs, kind) \subseteq Nat \ {0} /\ Replied(f, kind) \subseteq Nat \ {0}
  <2>1. /\ \A i \in Replied(f, kind) : i + 1 \in Replied(fs, kind) /\ f[i] = fs[i + 1]
        /\ \A i \in Replied(fs, kind) : i # 1 => i - 1 \in Replied(f, kind) /\ f[i - 1] = fs[i]
        /\ 1 \in Replied(fs, kind)
        /\ Replied(fs, kind) \subseteq Nat \ {0} /\ Replied(f, kind) \subseteq Nat \ {0}
    BY RepliedTail
  <2>2. Head(fs).id = fs[1].id
    BY TailFacts
  <2> HIDE DEF f
  <2>3. /\ \A i \in Replied(f, kind) : 1 < i + 1
        /\ \A i \in Replied(fs, kind) : i # 1 => 1 < i
    BY <2>1
  <2> QED BY <2>1, <2>2, <2>3
<1>2. PICK x \in 1..Len(reqs) : reqs[x] = fs[1].id
  BY <1>1 DEF InStep, UnderWay
<1>3. 1 \in 1..Len(reqs) /\ reqs # <<>>
  BY <1>2
<1>4. fs[1].id \in Nat /\ reqs[1] \in Nat
  BY <1>1, <1>3, IdFacts
<1>5. x = 1
  <2> SUFFICES ASSUME x # 1 PROVE FALSE
    OBVIOUS
  <2>1. 1 < x
    BY <1>2
  <2>2. reqs[1] < fs[1].id
    BY <1>2, <1>3, <2>1 DEF InStep, InOrder
  <2>3. \/ \E i \in Asked(ts, kind) : ts[i].id = reqs[1]
        \/ \E i \in Replied(fs, kind) : fs[i].id = reqs[1]
    BY <1>3 DEF InStep, UnderWay
  <2>4. \A i \in Asked(ts, kind) : fs[1].id < ts[i].id
    BY <1>1 DEF InStep, InOrder
  <2>5. \A i \in Replied(fs, kind) : i # 1 => fs[1].id < fs[i].id
    BY <1>1 DEF InStep, InOrder
  <2> QED BY SMTT(60), <1>4, <2>2, <2>3, <2>4, <2>5
<1>6. reqs[1] = fs[1].id /\ Head(reqs) = Head(fs).id
  BY <1>1, <1>2, <1>3, <1>5, TailFacts
<1>7. /\ r \in Seq(Nat) /\ \A k \in 1..Len(r) : k + 1 \in 1..Len(reqs) /\ r[k] = reqs[k + 1] /\ 1 < k + 1
      /\ \A k \in 1..Len(reqs) : k # 1 => k - 1 \in 1..Len(r) /\ r[k - 1] = reqs[k] /\ 1 < k
  <2>1. r \in Seq(Nat) /\ Len(r) = Len(reqs) - 1 /\ Len(reqs) \in Nat
    BY <1>3, TailFacts
  <2>2. \A i \in 1..Len(r) : r[i] = reqs[i + 1]
    BY <1>3, TailOfIds
  <2> HIDE DEF r
  <2>3. \A k \in 1..Len(r) : k + 1 \in 1..Len(reqs) /\ 1 < k + 1
    BY <2>1
  <2>4. ASSUME NEW k \in 1..Len(reqs), k # 1 PROVE k - 1 \in 1..Len(r) /\ r[k - 1] = reqs[k] /\ 1 < k
    <3>1. k - 1 \in 1..Len(r) /\ (k - 1) + 1 = k /\ 1 < k
      BY <2>1, <2>4
    <3>2. r[k - 1] = reqs[(k - 1) + 1]
      BY <2>2, <3>1
    <3> QED BY <3>1, <3>2
  <2> QED BY <2>1, <2>2, <2>3, <2>4
<1> HIDE DEF f, r
<1>8. InOrder(kind, r, ts, f)
  <2>1. ASSUME NEW i \in 1..Len(r), NEW j \in 1..Len(r), i < j PROVE r[i] < r[j]
    <3>1. i + 1 < j + 1
      BY <2>1
    <3> QED BY <1>7, <3>1 DEF InStep, InOrder
  <2>2. ASSUME NEW i \in Replied(f, kind), NEW j \in Replied(f, kind), i < j PROVE f[i].id < f[j].id
    <3>1. i + 1 < j + 1
      BY <1>1, <2>2
    <3> QED BY ZenonT(60), <1>1, <3>1 DEF InStep, InOrder
  <2> QED BY ZenonT(60), <1>1, <2>1, <2>2 DEF InStep, InOrder
<1>9. UnderWay(kind, r, ts, f, n)
  <2>1. ASSUME NEW k \in 1..Len(r)
        PROVE  /\ r[k] <= n
               /\ \/ \E i \in Asked(ts, kind) : ts[i].id = r[k]
                  \/ \E i \in Replied(f, kind) : f[i].id = r[k]
    <3>1. k + 1 \in 1..Len(reqs) /\ r[k] = reqs[k + 1] /\ 1 < k + 1
      BY <1>7
    <3>2. /\ reqs[k + 1] <= n
          /\ \/ \E i \in Asked(ts, kind) : ts[i].id = reqs[k + 1]
             \/ \E i \in Replied(fs, kind) : fs[i].id = reqs[k + 1]
      BY <3>1 DEF InStep, UnderWay
    <3>3. fs[1].id # reqs[k + 1]
      <4>1. reqs[1] < reqs[k + 1] /\ reqs[k + 1] \in Nat
        BY <1>3, <3>1, IdFacts DEF InStep, InOrder
      <4> QED BY <1>4, <1>6, <4>1
    <3>4. ASSUME NEW i \in Replied(fs, kind), fs[i].id = reqs[k + 1]
          PROVE  \E l \in Replied(f, kind) : f[l].id = r[k]
      <4>1. i - 1 \in Replied(f, kind) /\ f[i - 1].id = r[k]
        BY <1>1, <3>1, <3>3, <3>4
      <4> QED BY <4>1
    <3> QED BY <3>1, <3>2, <3>4
  <2>2. ASSUME NEW k \in 1..Len(reqs), NEW y \in Nat, reqs[k] = y, fs[1].id < y
        PROVE  \E l \in 1..Len(r) : r[l] = y
    <3>1. k - 1 \in 1..Len(r) /\ r[k - 1] = y
      BY SMTT(60), <1>4, <1>6, <1>7, <2>2
    <3> QED BY <3>1
  <2>3. ASSUME NEW i \in Asked(ts, kind) PROVE \E k \in 1..Len(r) : r[k] = ts[i].id
    <3>1. \E k \in 1..Len(reqs) : reqs[k] = ts[i].id
      BY DEF InStep, UnderWay
    <3>2. fs[1].id < ts[i].id /\ ts[i].id \in Nat
      BY <1>1, IdFacts DEF InStep, InOrder
    <3> QED BY <2>2, <3>1, <3>2
  <2>4. ASSUME NEW i \in Replied(f, kind) PROVE \E k \in 1..Len(r) : r[k] = f[i].id
    <3>1. i + 1 \in Replied(fs, kind) /\ f[i] = fs[i + 1] /\ 1 < i + 1
      BY <1>1
    <3>2. \E k \in 1..Len(reqs) : reqs[k] = fs[i + 1].id
      BY <3>1 DEF InStep, UnderWay
    <3>3. fs[1].id < fs[i + 1].id /\ fs[i + 1].id \in Nat
      BY <1>1, <3>1, IdFacts DEF InStep, InOrder
    <3> QED BY <2>2, <3>1, <3>2, <3>3
  <2> QED BY <2>1, <2>3, <2>4 DEF UnderWay
<1> QED BY <1>3, <1>6, <1>8, <1>9 DEF InStep, f, r

----------------------------------------------------------------------------
(* Facts about the two sides of the conversation                           *)

(* What a message carries.                                                 *)
LEMMA MessageFacts ==
  /\ \A m \in ToMessage :
       /\ m.t \in Kinds =>
            m.id \in Nat /\ m.auth \in Auths /\ m.believed \in Auths /\ m.cancelled \in BOOLEAN
       /\ m.t \in AuthKinds => m.auth \in Auths
       /\ m.t = "continue" => m.n \in Nat /\ m.auth \in Auths /\ m.late \in BOOLEAN
  /\ \A m \in FromMessage :
       /\ m.t \in {"connected", "start", "dir"} => m.id \in Nat
       /\ m.t = "prompt" => m.auth \in Auths /\ m.n \in 0..MaxPrompts
       /\ m.t = "end" => m.auth \in Auths /\ m.ok \in BOOLEAN
BY DEF ToMessage, FromMessage, Kinds, AuthKinds

(* What a client has asked for.                                            *)
LEMMA ShotFacts ==
  ASSUME ClientTypes, NEW c \in Clients
  PROVE  Shot(c) \in Shots
BY DEF ClientTypes, ClientRecord, Shot, Shots

(* The client neither sends nor is read from.                              *)
LEMMA ConvSame ==
  ASSUME NEW c \in Clients, Conversation(c), Shot(c)' = Shot(c), toServer'[c] = toServer[c],
         \A d \in Shots : (served = c => HasRead(c, d)) /\ served' = c => HasRead(c, d)'
  PROVE  Conversation(c)'
<1>1. PICK d \in Shots : Leads(c, toServer[c], d, Shot(c)) /\ (served = c => HasRead(c, d))
  BY DEF Conversation
<1>2. Leads(c, toServer'[c], d, Shot(c)')
  BY <1>1
<1>3. served' = c => HasRead(c, d)'
  BY <1>1
<1> QED BY <1>2, <1>3 DEF Conversation

(* The client sends m.                                                     *)
LEMMA ConvSend ==
  ASSUME QueueTypes, NEW c \in Clients, Conversation(c), NEW m \in ToMessage, Shot(c)' \in Shots,
         Sends(c, m, Shot(c), Shot(c)'), toServer'[c] = Append(toServer[c], m),
         \A d \in Shots : (served = c => HasRead(c, d)) /\ served' = c => HasRead(c, d)'
  PROVE  Conversation(c)'
<1>1. PICK d \in Shots : Leads(c, toServer[c], d, Shot(c)) /\ (served = c => HasRead(c, d))
  BY DEF Conversation
<1>2. Leads(c, toServer'[c], d, Shot(c)')
  <2>1. toServer[c] \in Seq(ToMessage)
    BY DEF QueueTypes
  <2>2. Leads(c, Append(toServer[c], m), d, Shot(c)')
    BY <1>1, <2>1, LeadsAppend
  <2> QED BY <2>2
<1>3. served' = c => HasRead(c, d)'
  BY <1>1
<1> QED BY <1>2, <1>3 DEF Conversation

(* The daemon reads a message of the client.                               *)
LEMMA ConvRead ==
  ASSUME QueueTypes, NEW c \in Clients, Conversation(c), Shot(c)' = Shot(c),
         toServer[c] # <<>>, toServer'[c] = Tail(toServer[c]), served = c,
         \A d, e \in Shots : HasRead(c, d) /\ Sends(c, Head(toServer[c]), d, e) => HasRead(c, e)'
  PROVE  Conversation(c)'
<1>1. PICK d \in Shots : Leads(c, toServer[c], d, Shot(c)) /\ HasRead(c, d)
  BY DEF Conversation
<1>2. toServer[c] \in Seq(ToMessage)
  BY DEF QueueTypes
<1>3. PICK e \in Shots : Sends(c, Head(toServer[c]), d, e) /\ Leads(c, Tail(toServer[c]), e, Shot(c))
  BY <1>1, <1>2, LeadsTail
<1>4. Leads(c, toServer'[c], e, Shot(c)')
  BY <1>3
<1>5. HasRead(c, e)'
  BY <1>1, <1>3
<1> QED BY <1>4, <1>5 DEF Conversation

(* What a client does leaves alone what the daemon has read.               *)
LEMMA HasReadClient ==
  ASSUME NEW c \in Clients, NEW d \in Shots, HasRead(c, d), UNCHANGED <<srv, session>>,
         \A i \in 1..Len(fromServer'[c]) :
           \E j \in 1..Len(fromServer[c]) : fromServer'[c][i] = fromServer[c][j],
         cli'[c].is_auth =>
           \/ cli[c].is_auth /\ cli'[c].seq = cli[c].seq
           \/ \E j \in 1..Len(fromServer[c]) :
                LET m == fromServer[c][j] IN m.t = "end" /\ m.ok /\ m.auth[2] = cli'[c].seq
  PROVE  HasRead(c, d)'
<1>1. ASSUME cli'[c].is_auth PROVE Reliable(srv', session', c, d, cli'[c].seq)
  BY <1>1 DEF HasRead
<1>2. ASSUME NEW i \in 1..Len(fromServer'[c]), fromServer'[c][i].t = "end", fromServer'[c][i].ok
      PROVE  Reliable(srv', session', c, d, fromServer'[c][i].auth[2])
  BY <1>2 DEF HasRead
<1>3. /\ srv'.guest # NoAuth => srv'.guest = <<c, d.seq>> /\ session'.state = "none"
      /\ session'.state # "none" => session'.auth = <<c, d.seq>> /\ srv'.seq = d.seq /\ ~d.cancelled
  BY DEF HasRead
<1> QED BY <1>1, <1>2, <1>3 DEF HasRead

(* What the daemon does: it has read what leads to d, and then e.          *)
LEMMA HasReadDaemon ==
  ASSUME QueueTypes, NEW c \in Clients, NEW d \in Shots, NEW e \in Shots, HasRead(c, d), UNCHANGED cli,
         cli[c].seq \in Nat,
         srv'.guest # NoAuth => srv'.guest = <<c, e.seq>> /\ session'.state = "none",
         session'.state # "none" => session'.auth = <<c, e.seq>> /\ srv'.seq = e.seq /\ ~e.cancelled,
         \A n \in Nat : Reliable(srv, session, c, d, n) => Reliable(srv', session', c, e, n),
         \/ fromServer'[c] = fromServer[c]
         \/ \E m \in FromMessage :
              /\ fromServer'[c] = Append(fromServer[c], m)
              /\ m.t = "end" /\ m.ok => Reliable(srv', session', c, e, m.auth[2])
  PROVE  HasRead(c, e)'
<1>1. ASSUME cli'[c].is_auth PROVE Reliable(srv', session', c, e, cli'[c].seq)
  BY <1>1 DEF HasRead
<1>2. fromServer[c] \in Seq(FromMessage)
  BY DEF QueueTypes
<1>3. ASSUME NEW i \in 1..Len(fromServer[c]), fromServer[c][i].t = "end", fromServer[c][i].ok
      PROVE  Reliable(srv', session', c, e, fromServer[c][i].auth[2])
  <2>1. fromServer[c][i].auth[2] \in Nat
    BY <1>2, <1>3, MessageFacts DEF Auths
  <2> QED BY <1>3, <2>1 DEF HasRead
<1>4. ASSUME NEW i \in 1..Len(fromServer'[c]), fromServer'[c][i].t = "end", fromServer'[c][i].ok
      PROVE  Reliable(srv', session', c, e, fromServer'[c][i].auth[2])
  <2>1. CASE fromServer'[c] = fromServer[c]
    BY <1>3, <1>4, <2>1
  <2>2. ASSUME NEW m \in FromMessage, fromServer'[c] = Append(fromServer[c], m),
               m.t = "end" /\ m.ok => Reliable(srv', session', c, e, m.auth[2])
        PROVE  Reliable(srv', session', c, e, fromServer'[c][i].auth[2])
    <3>1. CASE i = Len(fromServer[c]) + 1
      <4>1. fromServer'[c][i] = m
        BY <1>2, <2>2, <3>1, AppendFacts
      <4> QED BY <1>4, <2>2, <4>1
    <3>2. CASE i \in 1..Len(fromServer[c])
      <4>1. fromServer'[c][i] = fromServer[c][i]
        BY <1>2, <2>2, <3>2, AppendFacts
      <4> QED BY <1>3, <1>4, <3>2, <4>1
    <3>3. i = Len(fromServer[c]) + 1 \/ i \in 1..Len(fromServer[c])
      BY <1>2, <2>2, AppendFacts
    <3> QED BY <3>1, <3>2, <3>3
  <2> QED BY <2>1, <2>2
<1> QED BY <1>1, <1>4 DEF HasRead

(* A step that completes no request.                                       *)
LEMMA MatchStep ==
  ASSUME NEW c \in Clients, Matched(c), ~cli'[c].badsend => ~cli[c].badsend,
         cli'[c].crossed = cli[c].crossed, ~cli'[c].gone => ~cli[c].gone,
         link'[c] \notin {"refused", "closed"} => link[c] \notin {"refused", "closed"},
         ~cli'[c].badsend /\ ~cli'[c].gone /\ link'[c] \notin {"refused", "closed"} =>
           \A kind \in Kinds :
             InStep(kind, cli[c].requests[kind], toServer[c], fromServer[c], issued) =>
               InStep(kind, cli'[c].requests[kind], toServer'[c], fromServer'[c], issued')
  PROVE  Matched(c)'
BY DEF Matched

(* The types of what belongs to a client.                                  *)
LEMMA ClientFacts ==
  ASSUME ClientTypes, QueueTypes, NEW c \in Clients
  PROVE  /\ cli[c] \in ClientRecord /\ cli[c].seq \in Nat
         /\ \A kind \in Kinds : cli[c].requests[kind] \in Seq(Nat)
         /\ toServer[c] \in Seq(ToMessage) /\ fromServer[c] \in Seq(FromMessage)
         /\ issued \in Nat
BY GreeterAssumption DEF ClientTypes, QueueTypes, ClientRecord

(* Nothing of client x is touched.                                         *)
LEMMA Bystander ==
  ASSUME GreeterIInv, NEW x \in Clients, cli'[x] = cli[x], toServer'[x] = toServer[x],
         fromServer'[x] = fromServer[x], link'[x] = link[x],
         issued' = issued \/ issued' = issued + 1,
         served' = x => served = x /\ srv' = srv /\ session' = session
  PROVE  Conversation(x)' /\ Matched(x)'
<1>1. Conversation(x) /\ Matched(x) /\ ClientTypes /\ QueueTypes
  BY DEF GreeterIInv
<1>2. Conversation(x)'
  <2>1. Shot(x)' = Shot(x)
    BY DEF Shot
  <2>2. ASSUME NEW d \in Shots, served = x => HasRead(x, d), served' = x PROVE HasRead(x, d)'
    BY <2>2, HasReadClient
  <2> QED BY <1>1, <2>1, <2>2, ConvSame
<1>3. Matched(x)'
  <2>1. ASSUME NEW kind \in Kinds,
               InStep(kind, cli[x].requests[kind], toServer[x], fromServer[x], issued)
        PROVE  InStep(kind, cli'[x].requests[kind], toServer'[x], fromServer'[x], issued')
    BY <1>1, <2>1, ClientFacts, StepMore
  <2> QED BY <1>1, <2>1, MatchStep
<1> QED BY <1>2, <1>3

(* A step of client c, its new data r and its queues ts and fs.            *)
LEMMA ClientDone ==
  ASSUME GreeterIInv, NEW c \in Clients, NEW r \in ClientRecord,
         NEW ts \in Seq(ToMessage), NEW fs \in Seq(FromMessage),
         cli' = [cli EXCEPT ![c] = r], toServer' = [toServer EXCEPT ![c] = ts],
         fromServer' = [fromServer EXCEPT ![c] = fs],
         UNCHANGED <<link, served, srv, session, grant>>,
         Len(ts) <= MaxQueue, Len(fs) <= MaxQueue, Fit(r),
         issued' \in 0..MaxRequests, issued' = issued \/ issued' = issued + 1,
         link[c] \in {"none", "pending", "refused"} => fs = <<>> /\ ~r.is_auth,
         link[c] = "closed" => r.gone,
         Conversation(c)', Matched(c)'
  PROVE  GreeterIInv'
<1>1. ClientTypes /\ QueueTypes /\ DaemonTypes /\ Prompts /\ Links /\ StartsWhatWasAsked
  BY DEF GreeterIInv
<1>2. ClientTypes'
  BY <1>1 DEF ClientTypes
<1>3. QueueTypes'
  BY <1>1 DEF QueueTypes
<1>4. DaemonTypes'
  BY <1>1 DEF DaemonTypes
<1>5. Prompts'
  BY <1>1 DEF Prompts, ClientTypes
<1>6. Links'
  BY <1>1 DEF Links, ClientTypes, QueueTypes
<1>7. StartsWhatWasAsked'
  BY <1>1 DEF StartsWhatWasAsked
<1>8. ASSUME NEW x \in Clients PROVE Conversation(x)' /\ Matched(x)'
  <2>1. CASE x = c
    BY <2>1
  <2>2. CASE x # c
    <3>1. cli'[x] = cli[x] /\ toServer'[x] = toServer[x] /\ fromServer'[x] = fromServer[x]
      BY <1>1, <2>2 DEF ClientTypes, QueueTypes
    <3> QED BY <3>1, Bystander
  <2> QED BY <2>1, <2>2
<1> QED BY <1>2, <1>3, <1>4, <1>5, <1>6, <1>7, <1>8 DEF GreeterIInv

(* A step of the daemon for the client c that it serves.                   *)
LEMMA DaemonDone ==
  ASSUME GreeterIInv, NEW c \in Clients, served = c,
         NEW ts \in Seq(ToMessage), NEW fs \in Seq(FromMessage),
         toServer' = [toServer EXCEPT ![c] = ts], fromServer' = [fromServer EXCEPT ![c] = fs],
         UNCHANGED <<cli, link, served, issued>>,
         Len(ts) <= MaxQueue, Len(fs) <= MaxQueue,
         srv' \in ServerRecord, session' \in SessionRecord,
         session'.state = "none" => session' = NoSession,
         StartsWhatWasAsked', Conversation(c)', Matched(c)'
  PROVE  GreeterIInv'
<1>1. ClientTypes /\ QueueTypes /\ DaemonTypes /\ Prompts /\ Links
  BY DEF GreeterIInv
<1>2. ClientTypes'
  BY <1>1 DEF ClientTypes
<1>3. QueueTypes'
  BY <1>1 DEF QueueTypes
<1>4. DaemonTypes'
  BY <1>1 DEF DaemonTypes
<1>5. Prompts'
  BY <1>1 DEF Prompts
<1>6. Links'
  <2>1. c # NoClient /\ link[c] = "open"
    BY <1>1, GreeterAssumption DEF Links
  <2> QED BY <1>1, <2>1 DEF Links, QueueTypes
<1>7. ASSUME NEW x \in Clients PROVE Conversation(x)' /\ Matched(x)'
  <2>1. CASE x = c
    BY <2>1
  <2>2. CASE x # c
    <3>1. toServer'[x] = toServer[x] /\ fromServer'[x] = fromServer[x]
      BY <1>1, <2>2 DEF QueueTypes
    <3> QED BY <2>2, <3>1, Bystander
  <2> QED BY <2>1, <2>2
<1> QED BY <1>2, <1>3, <1>4, <1>5, <1>6, <1>7 DEF GreeterIInv

(* A client that sends nothing and takes nothing.                          *)
LEMMA QuietDone ==
  ASSUME GreeterIInv, NEW c \in Clients, NEW r \in ClientRecord, cli' = [cli EXCEPT ![c] = r],
         UNCHANGED <<link, toServer, fromServer, served, srv, session, grant>>,
         Fit(r),
         issued' \in 0..MaxRequests, issued' = issued \/ issued' = issued + 1,
         r.sent = cli[c].sent, r.cancelled = cli[c].cancelled, r.asked = cli[c].asked,
         r.is_auth => cli[c].is_auth /\ r.seq = cli[c].seq, cli[c].gone => r.gone, Matched(c)'
  PROVE  GreeterIInv'
<1>1. ClientTypes /\ QueueTypes /\ Links /\ Conversation(c)
  BY DEF GreeterIInv
<1>2. cli'[c] = r
  BY <1>1 DEF ClientTypes
<1>3. /\ toServer' = [toServer EXCEPT ![c] = toServer[c]]
      /\ fromServer' = [fromServer EXCEPT ![c] = fromServer[c]]
      /\ Len(toServer[c]) <= MaxQueue /\ Len(fromServer[c]) <= MaxQueue
      /\ toServer[c] \in Seq(ToMessage) /\ fromServer[c] \in Seq(FromMessage)
  BY <1>1 DEF QueueTypes
<1>4. Conversation(c)'
  <2>1. Shot(c)' = Shot(c)
    BY <1>2 DEF Shot
  <2>2. ASSUME NEW d \in Shots, served = c => HasRead(c, d), served' = c PROVE HasRead(c, d)'
    BY <1>2, <2>2, HasReadClient
  <2> QED BY <1>1, <2>1, <2>2, ConvSame
<1>5. /\ link[c] \in {"none", "pending", "refused"} => fromServer[c] = <<>> /\ ~r.is_auth
      /\ link[c] = "closed" => r.gone
  BY <1>1 DEF Links
<1> QED BY <1>3, <1>4, <1>5, ClientDone

(* A client that sends the message m.                                      *)
LEMMA SendDone ==
  ASSUME GreeterIInv, NEW c \in Clients, NEW r \in ClientRecord, NEW m \in ToMessage,
         Usable(c), cli' = [cli EXCEPT ![c] = r], send_message(c, m),
         UNCHANGED <<link, fromServer, served, srv, session, grant>>,
         Fit(r),
         issued' \in 0..MaxRequests, issued' = issued \/ issued' = issued + 1,
         Sends(c, m, Shot(c), [seq |-> r.sent, cancelled |-> r.cancelled, asked |-> r.asked]),
         r.is_auth => cli[c].is_auth /\ r.seq = cli[c].seq, Matched(c)'
  PROVE  GreeterIInv'
<1> DEFINE ts == Append(toServer[c], m)
<1>1. ClientTypes /\ QueueTypes /\ Links /\ Conversation(c)
  BY DEF GreeterIInv
<1>2. cli'[c] = r /\ toServer'[c] = ts
  BY <1>1 DEF ClientTypes, QueueTypes, send_message
<1>3. /\ toServer' = [toServer EXCEPT ![c] = ts]
      /\ fromServer' = [fromServer EXCEPT ![c] = fromServer[c]]
      /\ Len(fromServer[c]) <= MaxQueue
      /\ toServer[c] \in Seq(ToMessage) /\ fromServer[c] \in Seq(FromMessage)
  BY <1>1 DEF QueueTypes, send_message
<1>4. ts \in Seq(ToMessage) /\ Len(ts) <= MaxQueue
  <2>1. Len(toServer[c]) < MaxQueue /\ MaxQueue \in Nat
    BY GreeterAssumption DEF Usable
  <2> QED BY <1>3, <2>1, AppendFacts
<1>5. Conversation(c)'
  <2>1. Shot(c)' = [seq |-> r.sent, cancelled |-> r.cancelled, asked |-> r.asked]
    BY <1>2 DEF Shot
  <2>2. Shot(c)' \in Shots
    BY <2>1 DEF Shots, ClientRecord
  <2>3. ASSUME NEW d \in Shots, served = c => HasRead(c, d), served' = c PROVE HasRead(c, d)'
    BY <1>2, <2>3, HasReadClient
  <2> QED BY <1>1, <1>2, <2>1, <2>2, <2>3, ConvSend
<1>6. /\ link[c] \in {"none", "pending", "refused"} => fromServer[c] = <<>> /\ ~r.is_auth
      /\ link[c] # "closed"
  BY <1>1 DEF Links, Usable
<1> HIDE DEF ts
<1> QED BY <1>3, <1>4, <1>5, <1>6, ClientDone

(* A client that takes a message.                                          *)
LEMMA TakeDone ==
  ASSUME GreeterIInv, NEW c \in Clients, NEW r \in ClientRecord, NEW t, Takes(c, t),
         cli' = [cli EXCEPT ![c] = r],
         Fit(r),
         r.seq = cli[c].seq, r.sent = cli[c].sent, r.cancelled = cli[c].cancelled, r.asked = cli[c].asked,
         r.is_auth =>
           \/ cli[c].is_auth
           \/ LET m == Head(fromServer[c]) IN m.t = "end" /\ m.ok /\ m.auth[2] = r.seq,
         Matched(c)'
  PROVE  GreeterIInv'
<1> DEFINE fs == Tail(fromServer[c])
<1>1. ClientTypes /\ QueueTypes /\ Links /\ Conversation(c)
  BY DEF GreeterIInv
<1>2. /\ fromServer[c] \in Seq(FromMessage) /\ fromServer[c] # <<>> /\ ~cli[c].gone
      /\ fromServer' = [fromServer EXCEPT ![c] = fs] /\ Len(fromServer[c]) <= MaxQueue
      /\ UNCHANGED <<link, toServer, served, srv, session, grant, issued>>
  BY <1>1 DEF QueueTypes, Takes, Calls, srvVars, histVars
<1>3. cli'[c] = r /\ fromServer'[c] = fs
  BY <1>1, <1>2 DEF ClientTypes, QueueTypes
<1>4. /\ fs \in Seq(FromMessage) /\ Len(fs) = Len(fromServer[c]) - 1 /\ Len(fromServer[c]) \in Nat \ {0}
      /\ Head(fromServer[c]) = fromServer[c][1]
      /\ \A i \in 1..Len(fs) : fs[i] = fromServer[c][i + 1]
  BY <1>2, TailFacts
<1> HIDE DEF fs
<1>5. /\ \A i \in 1..Len(fs) : i + 1 \in 1..Len(fromServer[c])
      /\ 1 \in 1..Len(fromServer[c]) /\ Len(fs) <= MaxQueue
  BY <1>2, <1>4, GreeterAssumption
<1>6. Conversation(c)'
  <2>1. Shot(c)' = Shot(c) /\ toServer'[c] = toServer[c]
    BY <1>2, <1>3 DEF Shot
  <2>2. ASSUME NEW d \in Shots, served = c => HasRead(c, d), served' = c PROVE HasRead(c, d)'
    <3>1. \A i \in 1..Len(fromServer'[c]) :
            \E j \in 1..Len(fromServer[c]) : fromServer'[c][i] = fromServer[c][j]
      BY <1>3, <1>4, <1>5
    <3>2. cli'[c].is_auth =>
            \/ cli[c].is_auth /\ cli'[c].seq = cli[c].seq
            \/ \E j \in 1..Len(fromServer[c]) :
                 LET m == fromServer[c][j] IN m.t = "end" /\ m.ok /\ m.auth[2] = cli'[c].seq
      BY <1>3, <1>4, <1>5
    <3> QED BY <1>2, <2>2, <3>1, <3>2, HasReadClient
  <2> QED BY <1>1, <2>1, <2>2, ConvSame
<1>7. link[c] \notin {"none", "pending", "refused", "closed"}
  BY <1>1, <1>2 DEF Links
<1>8. /\ toServer' = [toServer EXCEPT ![c] = toServer[c]] /\ toServer[c] \in Seq(ToMessage)
      /\ Len(toServer[c]) <= MaxQueue /\ issued' \in 0..MaxRequests
  BY <1>1, <1>2 DEF QueueTypes, ClientTypes
<1> QED BY <1>2, <1>4, <1>5, <1>6, <1>7, <1>8, ClientDone

(* A message that is no request.                                           *)
LEMMA SendMatched ==
  ASSUME GreeterIInv, NEW c \in Clients, NEW m \in ToMessage, m.t \notin Kinds, send_message(c, m),
         UNCHANGED <<link, fromServer, issued>>, cli'[c].requests = cli[c].requests,
         cli'[c].crossed = cli[c].crossed, cli'[c].badsend = cli[c].badsend,
         cli'[c].gone = cli[c].gone
  PROVE  Matched(c)'
<1>1. ClientTypes /\ QueueTypes /\ Matched(c)
  BY DEF GreeterIInv
<1>2. toServer'[c] = Append(toServer[c], m)
  BY <1>1 DEF QueueTypes, send_message
<1>3. ASSUME NEW kind \in Kinds,
             InStep(kind, cli[c].requests[kind], toServer[c], fromServer[c], issued)
      PROVE  InStep(kind, cli'[c].requests[kind], toServer'[c], fromServer'[c], issued')
  BY <1>1, <1>2, <1>3, ClientFacts, StepAppend
<1> QED BY <1>1, <1>3, MatchStep

(* A message that is no reply.                                             *)
LEMMA TakeMatched ==
  ASSUME GreeterIInv, NEW c \in Clients, NEW t, Takes(c, t), t \notin {"connected", "start", "dir"},
         cli'[c].requests = cli[c].requests,
         cli'[c].crossed = cli[c].crossed, cli'[c].badsend = cli[c].badsend,
         cli'[c].gone = cli[c].gone
  PROVE  Matched(c)'
<1>1. ClientTypes /\ QueueTypes /\ Matched(c)
  BY DEF GreeterIInv
<1>2. /\ fromServer'[c] = Tail(fromServer[c]) /\ fromServer[c] # <<>> /\ Head(fromServer[c]).t = t
      /\ UNCHANGED <<link, toServer, issued>>
  BY <1>1 DEF QueueTypes, Takes
<1>3. ASSUME NEW kind \in Kinds,
             InStep(kind, cli[c].requests[kind], toServer[c], fromServer[c], issued)
      PROVE  InStep(kind, cli'[c].requests[kind], toServer'[c], fromServer'[c], issued')
  <2>1. t # ReplyTo(kind)
    BY DEF ReplyTo, Kinds
  <2> QED BY <1>1, <1>2, <1>3, <2>1, ClientFacts, StepTail
<1> QED BY <1>1, <1>2, <1>3, MatchStep

----------------------------------------------------------------------------
(* The steps of the client library                                         *)

(* What a client that runs believes to be authenticated was sent.          *)
LEMMA BelievedSent ==
  ASSUME GreeterIInv, NEW c \in Clients, cli[c].is_auth, ~cli[c].gone
  PROVE  cli[c].sent = cli[c].seq
<1>1. ClientTypes /\ QueueTypes /\ Links /\ Prompts /\ Conversation(c)
  BY DEF GreeterIInv
<1>2. served = c
  BY <1>1 DEF Links, ClientTypes
<1>3. PICK d \in Shots : Leads(c, toServer[c], d, Shot(c)) /\ HasRead(c, d)
  BY <1>1, <1>2 DEF Conversation
<1>4. d.seq <= Shot(c).seq /\ Shot(c).seq = cli[c].sent
  BY <1>1, <1>3, LeadsUp DEF QueueTypes, Shot
<1>5. cli[c].seq <= d.seq
  BY <1>3 DEF HasRead, Reliable
<1>6. cli[c].sent <= cli[c].seq
  BY <1>1 DEF Prompts, Fit
<1>7. cli[c].sent \in Nat /\ cli[c].seq \in Nat /\ d.seq \in Nat
  BY <1>1, <1>3 DEF ClientTypes, ClientRecord, Shots
<1> QED BY <1>4, <1>5, <1>6, <1>7

(* A request gets a new id, and is sent when it can be.                    *)
LEMMA RequestStep ==
  ASSUME GreeterIInv, NEW c \in Clients, NEW kind \in Kinds, NEW ok \in BOOLEAN,
         send_request(c, kind, ok), NEW r \in ClientRecord, cli' = [cli EXCEPT ![c] = r],
         r.waiting = cli[c].waiting, r.received = cli[c].received, r.show = cli[c].show, r.late = cli[c].late,
         r.seq = cli[c].seq, r.sent = cli[c].sent, r.cancelled = cli[c].cancelled, r.is_auth = cli[c].is_auth,
         r.asked = (cli[c].asked \/ (ok /\ kind = "start")),
         r.gone = cli[c].gone, r.crossed = cli[c].crossed,
         ok => r.badsend = cli[c].badsend
                 /\ r.requests = [cli[c].requests EXCEPT ![kind] = Append(@, issued + 1)],
         ~ok /\ ~r.badsend => ~cli[c].badsend /\ r.requests = cli[c].requests
  PROVE  GreeterIInv'
<1>1. ClientTypes /\ QueueTypes /\ Prompts /\ Matched(c)
  BY DEF GreeterIInv
<1>2. /\ cli'[c] = r /\ issued' = issued + 1 /\ issued' \in 0..MaxRequests
      /\ UNCHANGED <<link, fromServer, served, srv, session, grant>>
  BY <1>1, GreeterAssumption DEF ClientTypes, send_request, srvVars, histVars
<1>6. Fit(r)
  BY <1>1 DEF Prompts, Fit
<1>3. /\ cli[c] \in ClientRecord /\ cli[c].requests \in [Kinds -> Seq(Nat)] /\ issued \in Nat
      /\ toServer[c] \in Seq(ToMessage) /\ fromServer[c] \in Seq(FromMessage)
  BY <1>1, ClientFacts DEF ClientRecord
<1>4. CASE ok
  <2> DEFINE w == IF cli[c].is_auth THEN Auth(c) ELSE NoAuth
             m == [t |-> kind, id |-> issued + 1, auth |-> Sent(c), believed |-> w,
                   cancelled |-> cli[c].cancelled]
  <2>1. Usable(c) /\ send_message(c, m) /\ toServer'[c] = Append(toServer[c], m)
    BY <1>1, <1>4 DEF send_request, send_message, QueueTypes
  <2>7. w \in {NoAuth, Sent(c)}
    BY <1>4, BelievedSent DEF send_request, Calls, Auth, Sent
  <2>8. w \in Auths /\ Sent(c) \in Auths
    <3>1. cli[c].sent \in Nat
      BY SMTT(60), <1>3 DEF ClientRecord
    <3>2. Sent(c) \in Auths /\ NoAuth \in Auths
      BY <3>1 DEF Sent, NoAuth, Auths
    <3> QED BY <2>7, <3>2
  <2> HIDE DEF w
  <2>2. m \in ToMessage
    BY <1>3, <2>8 DEF ToMessage, ClientRecord
  <2>3. Sends(c, m, Shot(c), [seq |-> r.sent, cancelled |-> r.cancelled, asked |-> r.asked])
    BY <1>3, <1>4, <2>7 DEF Sends, Shot, Sent, AuthKinds, Kinds, ClientRecord
  <2>4. m.t = kind /\ m.id = issued + 1
    OBVIOUS
  <2> HIDE DEF m
  <2>5. ASSUME NEW k \in Kinds, InStep(k, cli[c].requests[k], toServer[c], fromServer[c], issued)
        PROVE  InStep(k, cli'[c].requests[k], toServer'[c], fromServer'[c], issued')
    <3>1. CASE k = kind
      <4>1. cli'[c].requests[k] = Append(cli[c].requests[k], issued + 1)
        BY <1>2, <1>3, <1>4, <3>1
      <4>2. InStep(k, Append(cli[c].requests[k], issued + 1), Append(toServer[c], m), fromServer[c], issued + 1)
        BY <1>3, <2>2, <2>4, <2>5, <3>1, StepRequest
      <4> QED BY <1>2, <2>1, <4>1, <4>2
    <3>2. CASE k # kind
      <4>1. cli'[c].requests[k] = cli[c].requests[k]
        BY <1>2, <1>3, <1>4, <3>2
      <4>2. InStep(k, cli[c].requests[k], Append(toServer[c], m), fromServer[c], issued)
        BY <1>3, <2>2, <2>4, <2>5, <3>2, StepAppend
      <4>3. InStep(k, cli[c].requests[k], Append(toServer[c], m), fromServer[c], issued + 1)
        BY <1>3, <2>2, <4>2, AppendFacts, StepMore
      <4> QED BY <1>2, <2>1, <4>1, <4>3
    <3> QED BY <3>1, <3>2
  <2>6. Matched(c)'
    BY <1>1, <1>2, <1>4, <2>5, MatchStep
  <2> QED BY <1>2, <1>6, <2>1, <2>2, <2>3, <2>6, SendDone
<1>5. CASE ~ok
  <2>1. UNCHANGED toServer
    BY <1>5 DEF send_request
  <2>2. ASSUME NEW k \in Kinds, InStep(k, cli[c].requests[k], toServer[c], fromServer[c], issued),
               ~r.badsend
        PROVE  InStep(k, cli'[c].requests[k], toServer'[c], fromServer'[c], issued')
    BY <1>2, <1>3, <1>5, <2>1, <2>2, StepMore
  <2>3. Matched(c)'
    BY <1>1, <1>2, <1>5, <2>2, MatchStep
  <2>4. r.asked = cli[c].asked
    BY <1>3, <1>5 DEF ClientRecord
  <2> QED BY <1>2, <1>6, <2>1, <2>3, <2>4, QuietDone
<1> QED BY <1>4, <1>5

(* The three calls that ask for something, in both their forms.            *)
LEMMA RequestsStep ==
  ASSUME GreeterIInv, NEW c \in Clients, NEW ok \in BOOLEAN,
         \/ lightdm_greeter_connect_to_daemon(c, ok)
         \/ lightdm_greeter_connect_to_daemon_sync(c, ok)
         \/ lightdm_greeter_start_session(c, ok)
         \/ lightdm_greeter_start_session_sync(c, ok)
         \/ lightdm_greeter_ensure_shared_data_dir(c, ok)
         \/ lightdm_greeter_ensure_shared_data_dir_sync(c, ok)
  PROVE  GreeterIInv'
<1>1. cli[c] \in ClientRecord /\ issued \in Nat
  BY ClientFacts DEF GreeterIInv
<1>2. ASSUME NEW kind \in Kinds PROVE Request(c, kind, issued + 1) \in ClientRecord
  <2> DEFINE q == [cli[c].requests EXCEPT ![kind] = Append(@, issued + 1)]
  <2>1. q \in [Kinds -> Seq(Nat)]
    BY <1>1 DEF ClientRecord
  <2>2. Request(c, kind, issued + 1) = [cli[c] EXCEPT !.requests = q]
    BY DEF Request
  <2> HIDE DEF q
  <2> QED BY ZenonT(60), <1>1, <2>1, <2>2 DEF ClientRecord
<1>9. ASSUME NEW kind \in Kinds
      PROVE  /\ RequestSync(c, kind, issued + 1) \in ClientRecord
             /\ \E w : RequestSync(c, kind, issued + 1) = [Request(c, kind, issued + 1) EXCEPT !.nested = w]
  <2> DEFINE q == Request(c, kind, issued + 1)
             inside == IF Shows(c) THEN {<<issued + 1, cli[c].show>>} ELSE {}
             w == q.nested \union inside
  <2>1. q \in ClientRecord
    BY <1>2
  <2>2. RequestSync(c, kind, issued + 1) = [q EXCEPT !.nested = w]
    BY DEF RequestSync
  <2>3. inside \in SUBSET (Nat \X Nat)
    BY <1>1 DEF ClientRecord
  <2> HIDE DEF q, inside
  <2>4. w \in SUBSET (Nat \X Nat)
    BY <2>1, <2>3 DEF ClientRecord
  <2> HIDE DEF w
  <2>5. [q EXCEPT !.nested = w] \in ClientRecord
    BY <2>1, <2>4 DEF ClientRecord
  <2> QED BY <2>2, <2>5 DEF q
<1>3. CASE lightdm_greeter_connect_to_daemon(c, ok)
  <2> DEFINE r == IF ok THEN Request(c, "connect", issued + 1) ELSE cli[c]
  <2>1. send_request(c, "connect", ok) /\ cli' = [cli EXCEPT ![c] = r]
    BY <1>3 DEF lightdm_greeter_connect_to_daemon, Set
  <2>2. r \in ClientRecord
    BY <1>1, <1>2 DEF Kinds
  <2>3. /\ r.waiting = cli[c].waiting /\ r.received = cli[c].received /\ r.show = cli[c].show
        /\ r.late = cli[c].late /\ r.sent = cli[c].sent
        /\ r.seq = cli[c].seq /\ r.cancelled = cli[c].cancelled /\ r.is_auth = cli[c].is_auth
        /\ r.gone = cli[c].gone /\ r.crossed = cli[c].crossed
    BY <1>1 DEF Request, ClientRecord
  <2>4. r.asked = (cli[c].asked \/ (ok /\ "connect" = "start"))
    BY <1>1 DEF Request, ClientRecord
  <2>5. ok => r.badsend = cli[c].badsend
                /\ r.requests = [cli[c].requests EXCEPT !["connect"] = Append(@, issued + 1)]
    BY <1>1 DEF Request, ClientRecord
  <2>6. ~ok /\ ~r.badsend => ~cli[c].badsend /\ r.requests = cli[c].requests
    BY <1>1 DEF Request, ClientRecord
  <2> HIDE DEF r
  <2> QED BY <2>1, <2>2, <2>3, <2>4, <2>5, <2>6, RequestStep DEF Kinds
<1>4. CASE lightdm_greeter_connect_to_daemon_sync(c, ok)
  <2> DEFINE r == IF ok THEN RequestSync(c, "connect", issued + 1) ELSE cli[c]
  <2>1. send_request(c, "connect", ok) /\ cli' = [cli EXCEPT ![c] = r]
    BY <1>4 DEF lightdm_greeter_connect_to_daemon_sync, Set
  <2>2. r \in ClientRecord
    BY <1>1, <1>9 DEF Kinds
  <2>3. /\ r.waiting = cli[c].waiting /\ r.received = cli[c].received /\ r.show = cli[c].show
        /\ r.late = cli[c].late /\ r.sent = cli[c].sent
        /\ r.seq = cli[c].seq /\ r.cancelled = cli[c].cancelled /\ r.is_auth = cli[c].is_auth
        /\ r.gone = cli[c].gone /\ r.crossed = cli[c].crossed
    BY <1>1 DEF RequestSync, Request, ClientRecord
  <2>4. r.asked = (cli[c].asked \/ (ok /\ "connect" = "start"))
    BY SMTT(60), <1>1 DEF RequestSync, Request, ClientRecord
  <2>5. ok => r.badsend = cli[c].badsend
                /\ r.requests = [cli[c].requests EXCEPT !["connect"] = Append(@, issued + 1)]
    BY <1>1 DEF RequestSync, Request, ClientRecord
  <2>6. ~ok /\ ~r.badsend => ~cli[c].badsend /\ r.requests = cli[c].requests
    BY <1>1 DEF RequestSync, Request, ClientRecord
  <2> HIDE DEF r
  <2> QED BY <2>1, <2>2, <2>3, <2>4, <2>5, <2>6, RequestStep DEF Kinds
<1>5. CASE lightdm_greeter_start_session(c, ok)
  <2> DEFINE r == [Request(c, "start", issued + 1) EXCEPT !.asked = @ \/ ok, !.badsend = @ \/ ~ok]
  <2>1. send_request(c, "start", ok) /\ cli' = [cli EXCEPT ![c] = r]
    BY <1>5 DEF lightdm_greeter_start_session, Set
  <2>2. r \in ClientRecord
    <3> DEFINE q == Request(c, "start", issued + 1)
    <3>1. q \in ClientRecord
      BY <1>2 DEF Kinds
    <3> HIDE DEF q
    <3>2. (q.asked \/ ok) \in BOOLEAN /\ (q.badsend \/ ~ok) \in BOOLEAN
      OBVIOUS
    <3>3. [q EXCEPT !.asked = @ \/ ok, !.badsend = @ \/ ~ok] \in ClientRecord
      BY ZenonT(60), <3>1, <3>2 DEF ClientRecord
    <3> QED BY <3>3 DEF q
  <2>3. /\ r.waiting = cli[c].waiting /\ r.received = cli[c].received /\ r.show = cli[c].show
        /\ r.late = cli[c].late /\ r.sent = cli[c].sent
        /\ r.seq = cli[c].seq /\ r.cancelled = cli[c].cancelled /\ r.is_auth = cli[c].is_auth
        /\ r.gone = cli[c].gone /\ r.crossed = cli[c].crossed
    BY <1>1 DEF Request, ClientRecord
  <2>4. r.asked = (cli[c].asked \/ (ok /\ "start" = "start"))
    BY <1>1 DEF Request, ClientRecord
  <2>5. ok => r.badsend = cli[c].badsend
                /\ r.requests = [cli[c].requests EXCEPT !["start"] = Append(@, issued + 1)]
    BY <1>1 DEF Request, ClientRecord
  <2>6. ~ok /\ ~r.badsend => ~cli[c].badsend /\ r.requests = cli[c].requests
    BY <1>1 DEF Request, ClientRecord
  <2> HIDE DEF r
  <2> QED BY <2>1, <2>2, <2>3, <2>4, <2>5, <2>6, RequestStep DEF Kinds
<1>6. CASE lightdm_greeter_start_session_sync(c, ok)
  <2> DEFINE r == IF ok THEN [RequestSync(c, "start", issued + 1) EXCEPT !.asked = TRUE] ELSE cli[c]
  <2>1. send_request(c, "start", ok) /\ cli' = [cli EXCEPT ![c] = r]
    BY <1>6 DEF lightdm_greeter_start_session_sync, Set
  <2>2. r \in ClientRecord
    <3> DEFINE q == RequestSync(c, "start", issued + 1)
    <3>1. q \in ClientRecord
      BY <1>9 DEF Kinds
    <3> HIDE DEF q
    <3>2. [q EXCEPT !.asked = TRUE] \in ClientRecord
      BY <3>1 DEF ClientRecord
    <3> QED BY <1>1, <3>2 DEF q
  <2>3. /\ r.waiting = cli[c].waiting /\ r.received = cli[c].received /\ r.show = cli[c].show
        /\ r.late = cli[c].late /\ r.sent = cli[c].sent
        /\ r.seq = cli[c].seq /\ r.cancelled = cli[c].cancelled /\ r.is_auth = cli[c].is_auth
        /\ r.gone = cli[c].gone /\ r.crossed = cli[c].crossed
    BY <1>1 DEF RequestSync, Request, ClientRecord
  <2>4. r.asked = (cli[c].asked \/ (ok /\ "start" = "start"))
    BY <1>1 DEF RequestSync, Request, ClientRecord
  <2>5. ok => r.badsend = cli[c].badsend
                /\ r.requests = [cli[c].requests EXCEPT !["start"] = Append(@, issued + 1)]
    BY <1>1 DEF RequestSync, Request, ClientRecord
  <2>6. ~ok /\ ~r.badsend => ~cli[c].badsend /\ r.requests = cli[c].requests
    BY <1>1 DEF RequestSync, Request, ClientRecord
  <2> HIDE DEF r
  <2> QED BY <2>1, <2>2, <2>3, <2>4, <2>5, <2>6, RequestStep DEF Kinds
<1>7. CASE lightdm_greeter_ensure_shared_data_dir(c, ok)
  <2> DEFINE r == [Request(c, "dir", issued + 1) EXCEPT !.badsend = @ \/ ~ok]
  <2>1. send_request(c, "dir", ok) /\ cli' = [cli EXCEPT ![c] = r]
    BY <1>7 DEF lightdm_greeter_ensure_shared_data_dir, Set
  <2>2. r \in ClientRecord
    <3> DEFINE q == Request(c, "dir", issued + 1)
               b == q.badsend \/ ~ok
    <3>1. q \in ClientRecord
      BY <1>2 DEF Kinds
    <3>2. b \in BOOLEAN
      OBVIOUS
    <3>3. r = [q EXCEPT !.badsend = b]
      OBVIOUS
    <3> HIDE DEF q, b, r
    <3> QED BY ZenonT(60), <3>1, <3>2, <3>3 DEF ClientRecord
  <2>3. /\ r.waiting = cli[c].waiting /\ r.received = cli[c].received /\ r.show = cli[c].show
        /\ r.late = cli[c].late /\ r.sent = cli[c].sent
        /\ r.seq = cli[c].seq /\ r.cancelled = cli[c].cancelled /\ r.is_auth = cli[c].is_auth
        /\ r.gone = cli[c].gone /\ r.crossed = cli[c].crossed
    BY <1>1 DEF Request, ClientRecord
  <2>4. r.asked = (cli[c].asked \/ (ok /\ "dir" = "start"))
    BY <1>1 DEF Request, ClientRecord
  <2>5. ok => r.badsend = cli[c].badsend
                /\ r.requests = [cli[c].requests EXCEPT !["dir"] = Append(@, issued + 1)]
    BY <1>1 DEF Request, ClientRecord
  <2>6. ~ok /\ ~r.badsend => ~cli[c].badsend /\ r.requests = cli[c].requests
    BY <1>1 DEF Request, ClientRecord
  <2> HIDE DEF r
  <2> QED BY <2>1, <2>2, <2>3, <2>4, <2>5, <2>6, RequestStep DEF Kinds
<1>8. CASE lightdm_greeter_ensure_shared_data_dir_sync(c, ok)
  <2> DEFINE r == IF ok THEN RequestSync(c, "dir", issued + 1) ELSE cli[c]
  <2>1. send_request(c, "dir", ok) /\ cli' = [cli EXCEPT ![c] = r]
    BY <1>8 DEF lightdm_greeter_ensure_shared_data_dir_sync, Set
  <2>2. r \in ClientRecord
    BY <1>1, <1>9 DEF Kinds
  <2>3. /\ r.waiting = cli[c].waiting /\ r.received = cli[c].received /\ r.show = cli[c].show
        /\ r.late = cli[c].late /\ r.sent = cli[c].sent
        /\ r.seq = cli[c].seq /\ r.cancelled = cli[c].cancelled /\ r.is_auth = cli[c].is_auth
        /\ r.gone = cli[c].gone /\ r.crossed = cli[c].crossed
    BY <1>1 DEF RequestSync, Request, ClientRecord
  <2>4. r.asked = (cli[c].asked \/ (ok /\ "dir" = "start"))
    BY <1>1 DEF RequestSync, Request, ClientRecord
  <2>5. ok => r.badsend = cli[c].badsend
                /\ r.requests = [cli[c].requests EXCEPT !["dir"] = Append(@, issued + 1)]
    BY <1>1 DEF RequestSync, Request, ClientRecord
  <2>6. ~ok /\ ~r.badsend => ~cli[c].badsend /\ r.requests = cli[c].requests
    BY <1>1 DEF RequestSync, Request, ClientRecord
  <2> HIDE DEF r
  <2> QED BY <2>1, <2>2, <2>3, <2>4, <2>5, <2>6, RequestStep DEF Kinds
<1> QED BY <1>3, <1>4, <1>5, <1>6, <1>7, <1>8

(* An authentication is asked for.                                         *)
LEMMA AuthenticateStep ==
  ASSUME GreeterIInv, NEW c \in Clients, NEW kind \in AuthKinds, NEW ok \in BOOLEAN,
         authenticate(c, kind, ok)
  PROVE  GreeterIInv'
<1> DEFINE n == cli[c].seq + 1
           r == [cli[c] EXCEPT !.cancelling = FALSE, !.seq = n, !.in_auth = TRUE, !.is_auth = FALSE]
           q == [r EXCEPT !.sent = n, !.cancelled = FALSE, !.asked = FALSE]
           m == [t |-> kind, auth |-> <<c, n>>]
<1>1. ClientTypes /\ Prompts /\ Matched(c)
  BY DEF GreeterIInv
<1>2. /\ UNCHANGED <<link, fromServer, served, srv, session, grant, issued>>
      /\ \/ Usable(c) /\ cli' = [cli EXCEPT ![c] = q] /\ send_message(c, m)
         \/ cli' = [cli EXCEPT ![c] = r] /\ UNCHANGED toServer
  BY DEF authenticate, Set, srvVars, histVars
<1>3. cli[c] \in ClientRecord /\ n \in Nat /\ issued' \in 0..MaxRequests
  BY <1>1, <1>2 DEF ClientTypes, ClientRecord
<1>4. /\ r \in ClientRecord /\ ~r.is_auth /\ r.requests = cli[c].requests /\ r.crossed = cli[c].crossed
      /\ r.badsend = cli[c].badsend /\ r.gone = cli[c].gone /\ r.seq = n /\ r.sent = cli[c].sent
      /\ r.waiting = cli[c].waiting /\ r.received = cli[c].received /\ r.show = cli[c].show
      /\ r.late = cli[c].late /\ r.cancelled = cli[c].cancelled /\ r.asked = cli[c].asked
  <2>1. (~ok) \in BOOLEAN
    OBVIOUS
  <2> QED BY ZenonT(60), <1>3, <2>1 DEF ClientRecord
<1>5. m \in ToMessage /\ m.t = kind /\ m.t \notin Kinds /\ m.auth = <<c, n>>
  BY <1>3 DEF ToMessage, Auths, AuthKinds, Kinds
<1>6. cli[c].sent <= cli[c].seq /\ cli[c].sent \in Nat /\ cli[c].seq \in Nat
  BY <1>1, <1>3 DEF Prompts, Fit, ClientRecord
<1> HIDE DEF r, m
<1>7. /\ q \in ClientRecord /\ ~q.is_auth /\ q.requests = r.requests /\ q.crossed = r.crossed
      /\ q.badsend = r.badsend /\ q.gone = r.gone /\ q.seq = n /\ q.sent = n
      /\ q.waiting = r.waiting /\ q.received = r.received /\ q.show = r.show
      /\ q.late = r.late /\ q.cancelled = FALSE /\ q.asked = FALSE
  BY ZenonT(60), <1>3, <1>4 DEF ClientRecord
<1> HIDE DEF q
<1>8. Fit(q) /\ Fit(r)
  BY <1>1, <1>4, <1>6, <1>7 DEF Prompts, Fit
<1>9. CASE Usable(c) /\ cli' = [cli EXCEPT ![c] = q] /\ send_message(c, m)
  <2>1. cli'[c] = q
    BY <1>1, <1>9 DEF ClientTypes
  <2>2. Sends(c, m, Shot(c), [seq |-> q.sent, cancelled |-> q.cancelled, asked |-> q.asked])
    BY <1>5, <1>6, <1>7 DEF Sends, Shot, AuthKinds
  <2>3. Matched(c)'
    BY <1>2, <1>4, <1>5, <1>7, <1>9, <2>1, SendMatched
  <2> QED BY <1>2, <1>3, <1>5, <1>7, <1>8, <1>9, <2>2, <2>3, SendDone
<1>10. CASE cli' = [cli EXCEPT ![c] = r] /\ UNCHANGED toServer
  <2>1. cli'[c] = r
    BY <1>1, <1>10 DEF ClientTypes
  <2>2. Matched(c)'
    BY <1>1, <1>2, <1>4, <1>10, <2>1, MatchStep
  <2> QED BY <1>2, <1>3, <1>4, <1>8, <1>10, <2>2, QuietDone
<1> QED BY <1>2, <1>9, <1>10

(* The other calls of the library.                                         *)
LEMMA CallStep ==
  ASSUME GreeterIInv, NEW c \in Clients, NEW ok \in BOOLEAN,
         \/ connect_to_daemon(c)
         \/ lightdm_greeter_respond(c, ok)
         \/ lightdm_greeter_cancel_authentication(c, ok)
         \/ lightdm_greeter_set_language(c)
         \/ exit(c)
         \/ show_prompt(c)
  PROVE  GreeterIInv'
<1>1. ClientTypes /\ QueueTypes /\ DaemonTypes /\ Prompts /\ Links /\ Matched(c) /\ Conversation(c)
  BY DEF GreeterIInv
<1>2. /\ cli[c] \in ClientRecord /\ toServer[c] \in Seq(ToMessage) /\ fromServer[c] \in Seq(FromMessage)
      /\ cli[c].waiting \in Nat /\ cli[c].received \in Nat /\ cli[c].show \in Nat /\ MaxPrompts \in Nat
      /\ Len(toServer[c]) <= MaxQueue /\ MaxQueue \in Nat
  BY <1>1, ClientFacts, GreeterAssumption DEF ClientRecord, QueueTypes
<1>9. /\ Fit(cli[c])
      /\ cli[c].sent <= cli[c].seq
      /\ ~cli[c].late => cli[c].waiting + cli[c].received + cli[c].show <= MaxPrompts
  BY <1>1 DEF Prompts, Fit
<1>3. CASE connect_to_daemon(c)
  <2>1. /\ link[c] = "none" /\ link' = [link EXCEPT ![c] = "pending"]
        /\ UNCHANGED <<cli, toServer, fromServer, served, srv, session, issued, grant>>
    BY <1>3 DEF connect_to_daemon, srvVars, histVars
  <2>2. ClientTypes' /\ QueueTypes' /\ DaemonTypes' /\ Prompts'
    BY <1>1, <2>1 DEF ClientTypes, QueueTypes, DaemonTypes, Prompts
  <2>3. Links'
    BY <1>1, <2>1 DEF Links, ClientTypes
  <2>4. StartsWhatWasAsked'
    BY <2>1 DEF GreeterIInv, StartsWhatWasAsked
  <2>5. ASSUME NEW x \in Clients PROVE Conversation(x)' /\ Matched(x)'
    <3>1. CASE x # c
      <4>1. link'[x] = link[x]
        BY <1>1, <2>1, <3>1 DEF ClientTypes
      <4> QED BY <2>1, <4>1, Bystander
    <3>2. CASE x = c
      <4>1. Conversation(c)'
        <5>1. ASSUME NEW d \in Shots, served = c => HasRead(c, d), served' = c PROVE HasRead(c, d)'
          BY <2>1, <5>1, HasReadClient
        <5>2. Shot(c)' = Shot(c)
          BY <2>1 DEF Shot
        <5> QED BY <1>1, <2>1, <5>1, <5>2, ConvSame
      <4>2. Matched(c)'
        BY <1>1, <2>1, MatchStep
      <4> QED BY <3>2, <4>1, <4>2
    <3> QED BY <3>1, <3>2
  <2> QED BY <2>2, <2>3, <2>4, <2>5 DEF GreeterIInv
<1>4. CASE lightdm_greeter_respond(c, ok)
  <2>1. UNCHANGED <<link, fromServer, served, srv, session, grant, issued>> /\ cli[c].waiting > 0
    BY <1>4 DEF lightdm_greeter_respond, srvVars, histVars
  <2>2. issued' \in 0..MaxRequests
    BY <1>1, <2>1 DEF ClientTypes
  <2> DEFINE quiet == [cli[c] EXCEPT !.waiting = @ - 1, !.received = @ + 1]
             late == cli[c].late \/ cli[c].believed # cli[c].seq \/ cli[c].show > 0
             told == [cli[c] EXCEPT !.waiting = 0, !.received = 0, !.late = late]
             m == [t |-> "continue", n |-> cli[c].received + 1, auth |-> <<c, cli[c].prompt>>,
                   late |-> late]
  <2>5. \/ cli' = [cli EXCEPT ![c] = quiet] /\ UNCHANGED toServer
        \/ cli' = [cli EXCEPT ![c] = told] /\ Usable(c) /\ send_message(c, m)
    BY <1>4 DEF lightdm_greeter_respond, Set
  <2>3. CASE cli' = [cli EXCEPT ![c] = quiet] /\ UNCHANGED toServer
    <3> DEFINE r == quiet
    <3>1. cli' = [cli EXCEPT ![c] = r] /\ UNCHANGED toServer
      BY <2>3
    <3>2. r \in ClientRecord
      <4>1. cli[c].waiting - 1 \in Nat /\ cli[c].received + 1 \in Nat
        BY <1>2, <2>1
      <4> QED BY <1>2, <4>1 DEF ClientRecord
    <3>3. /\ r.waiting = cli[c].waiting - 1 /\ r.received = cli[c].received + 1 /\ r.show = cli[c].show
          /\ r.late = cli[c].late /\ r.sent = cli[c].sent
          /\ r.seq = cli[c].seq /\ r.cancelled = cli[c].cancelled /\ r.asked = cli[c].asked
          /\ r.is_auth = cli[c].is_auth /\ r.gone = cli[c].gone /\ r.requests = cli[c].requests
          /\ r.crossed = cli[c].crossed /\ r.badsend = cli[c].badsend
      BY <1>2 DEF ClientRecord
    <3>4. cli'[c] = r
      BY <1>1, <3>1 DEF ClientTypes
    <3> HIDE DEF r
    <3>5. Matched(c)'
      BY <1>1, <2>1, <3>1, <3>3, <3>4, MatchStep
    <3>6. Fit(r)
      <4>1. \A w, v, x, p \in Nat : w + v + x <= p => (w - 1) + (v + 1) + x <= p
        OBVIOUS
      <4>2. ~cli[c].late => (cli[c].waiting - 1) + (cli[c].received + 1) + cli[c].show <= MaxPrompts
        BY <1>2, <1>9, <4>1
      <4> QED BY <1>9, <3>3, <4>2 DEF Fit
    <3> QED BY <2>1, <2>2, <3>1, <3>2, <3>3, <3>5, <3>6, QuietDone
  <2>4. CASE cli' = [cli EXCEPT ![c] = told] /\ Usable(c) /\ send_message(c, m)
    <3> DEFINE r == told
    <3>1. cli' = [cli EXCEPT ![c] = r] /\ Usable(c) /\ send_message(c, m)
      BY <2>4
    <3>2. late \in BOOLEAN
      BY <1>2 DEF ClientRecord
    <3> HIDE DEF late
    <3>3. r \in ClientRecord
      BY <1>2, <3>2 DEF ClientRecord
    <3>4. m \in ToMessage
      BY SMTT(60), <1>2, <3>2 DEF ToMessage, Auths, ClientRecord
    <3>5. /\ r.waiting = 0 /\ r.received = 0 /\ r.show = cli[c].show
          /\ r.late = late /\ r.sent = cli[c].sent
          /\ r.seq = cli[c].seq /\ r.cancelled = cli[c].cancelled /\ r.asked = cli[c].asked
          /\ r.is_auth = cli[c].is_auth /\ r.gone = cli[c].gone /\ r.requests = cli[c].requests
          /\ r.crossed = cli[c].crossed /\ r.badsend = cli[c].badsend
      BY <1>2 DEF ClientRecord
    <3>6. cli'[c] = r
      BY <1>1, <3>1 DEF ClientTypes
    <3>7. m.t = "continue"
      OBVIOUS
    <3> HIDE DEF r, m
    <3>8. Sends(c, m, Shot(c), [seq |-> r.sent, cancelled |-> r.cancelled, asked |-> r.asked])
      BY <3>5, <3>7 DEF Sends, Shot, AuthKinds
    <3>9. Matched(c)'
      BY <2>1, <3>1, <3>4, <3>5, <3>6, <3>7, SendMatched DEF Kinds
    <3>10. Fit(r)
      <4>1. ~late => cli[c].show <= 0
        BY <1>2 DEF late
      <4> QED BY <1>2, <1>9, <3>5, <4>1 DEF Fit
    <3> QED BY <2>1, <2>2, <3>1, <3>3, <3>4, <3>5, <3>8, <3>9, <3>10, SendDone
  <2> QED BY <2>3, <2>4, <2>5
<1>5. CASE lightdm_greeter_cancel_authentication(c, TRUE)
  <2> DEFINE r == [cli[c] EXCEPT !.cancelling = TRUE, !.cancelled = TRUE]
             m == [t |-> "cancel"]
  <2>1. /\ cli' = [cli EXCEPT ![c] = r] /\ Usable(c) /\ send_message(c, m)
        /\ UNCHANGED <<link, fromServer, served, srv, session, grant, issued>>
    BY <1>5 DEF lightdm_greeter_cancel_authentication, Set, srvVars, histVars
  <2>2. r \in ClientRecord /\ m \in ToMessage
    BY <1>2 DEF ClientRecord, ToMessage
  <2>3. /\ r.waiting = cli[c].waiting /\ r.received = cli[c].received /\ r.show = cli[c].show
        /\ r.late = cli[c].late /\ r.sent = cli[c].sent
        /\ r.seq = cli[c].seq /\ r.cancelled = TRUE /\ r.asked = cli[c].asked
        /\ r.is_auth = cli[c].is_auth /\ r.gone = cli[c].gone /\ r.requests = cli[c].requests
        /\ r.crossed = cli[c].crossed /\ r.badsend = cli[c].badsend
    BY <1>2 DEF ClientRecord
  <2>4. cli'[c] = r /\ issued' \in 0..MaxRequests
    BY <1>1, <2>1 DEF ClientTypes
  <2>5. m.t = "cancel"
    OBVIOUS
  <2> HIDE DEF r, m
  <2>6. Sends(c, m, Shot(c), [seq |-> r.sent, cancelled |-> r.cancelled, asked |-> r.asked])
    BY <2>3, <2>5 DEF Sends, Shot, AuthKinds
  <2>7. Matched(c)'
    BY <2>1, <2>2, <2>3, <2>4, <2>5, SendMatched DEF Kinds
  <2>8. Fit(r)
    BY <1>9, <2>3 DEF Fit
  <2> QED BY <2>1, <2>2, <2>3, <2>4, <2>6, <2>7, <2>8, SendDone
<1>10. CASE lightdm_greeter_cancel_authentication(c, FALSE)
  <2> DEFINE r == [cli[c] EXCEPT !.cancelling = TRUE]
  <2>1. /\ cli' = [cli EXCEPT ![c] = r]
        /\ UNCHANGED <<link, toServer, fromServer, served, srv, session, grant, issued>>
    BY <1>10 DEF lightdm_greeter_cancel_authentication, Set, srvVars, histVars
  <2>2. r \in ClientRecord
    BY <1>2 DEF ClientRecord
  <2>3. /\ r.waiting = cli[c].waiting /\ r.received = cli[c].received /\ r.show = cli[c].show
        /\ r.late = cli[c].late /\ r.sent = cli[c].sent
        /\ r.seq = cli[c].seq /\ r.cancelled = cli[c].cancelled /\ r.asked = cli[c].asked
        /\ r.is_auth = cli[c].is_auth /\ r.gone = cli[c].gone /\ r.requests = cli[c].requests
        /\ r.crossed = cli[c].crossed /\ r.badsend = cli[c].badsend
    BY <1>2 DEF ClientRecord
  <2>4. cli'[c] = r /\ issued' \in 0..MaxRequests
    BY <1>1, <2>1 DEF ClientTypes
  <2> HIDE DEF r
  <2>5. Matched(c)'
    BY <1>1, <2>1, <2>3, <2>4, MatchStep
  <2>6. Fit(r)
    BY <1>9, <2>3 DEF Fit
  <2> QED BY <2>1, <2>2, <2>3, <2>4, <2>5, <2>6, QuietDone
<1>6. CASE lightdm_greeter_set_language(c)
  <2> DEFINE r == cli[c]
             m == [t |-> "language"]
  <2>1. /\ cli' = [cli EXCEPT ![c] = r] /\ Usable(c) /\ send_message(c, m)
        /\ UNCHANGED <<cli, link, fromServer, served, srv, session, grant, issued>>
    BY <1>1, <1>6 DEF lightdm_greeter_set_language, srvVars, histVars, ClientTypes
  <2>2. m \in ToMessage /\ issued' \in 0..MaxRequests
    BY <1>1, <2>1 DEF ToMessage, ClientTypes
  <2>3. m.t = "language"
    OBVIOUS
  <2> HIDE DEF m
  <2>4. Sends(c, m, Shot(c), [seq |-> r.sent, cancelled |-> r.cancelled, asked |-> r.asked])
    BY <2>3 DEF Sends, Shot, AuthKinds
  <2>5. Matched(c)'
    BY <2>1, <2>2, <2>3, SendMatched DEF Kinds
  <2> QED BY <1>2, <1>9, <2>1, <2>2, <2>4, <2>5, SendDone
<1>7. CASE exit(c)
  <2> DEFINE r == [NewClient EXCEPT !.gone = TRUE, !.seq = cli[c].seq, !.sent = cli[c].sent,
                                    !.cancelled = cli[c].cancelled, !.asked = cli[c].asked,
                                    !.late = cli[c].late]
  <2>1. /\ cli' = [cli EXCEPT ![c] = r] /\ fromServer' = [fromServer EXCEPT ![c] = <<>>]
        /\ UNCHANGED <<link, toServer, served, srv, session, grant, issued>>
    BY <1>7 DEF exit, Set, srvVars, histVars
  <2>2. r \in ClientRecord
    <3>1. NewClient \in ClientRecord
      BY DEF NewClient, ClientRecord
    <3>2. /\ cli[c].seq \in Nat /\ cli[c].sent \in Nat /\ cli[c].cancelled \in BOOLEAN
          /\ cli[c].asked \in BOOLEAN /\ cli[c].late \in BOOLEAN
      BY <1>2 DEF ClientRecord
    <3> QED BY <3>1, <3>2 DEF ClientRecord
  <2>3. /\ r.waiting = 0 /\ r.received = 0 /\ r.show = 0
        /\ r.late = cli[c].late /\ r.sent = cli[c].sent
        /\ r.seq = cli[c].seq /\ r.cancelled = cli[c].cancelled /\ r.asked = cli[c].asked
        /\ ~r.is_auth /\ r.gone /\ ~r.crossed
    BY <1>2 DEF ClientRecord, NewClient
  <2>4. cli'[c] = r /\ issued' \in 0..MaxRequests /\ fromServer'[c] = <<>>
    BY <1>1, <2>1 DEF ClientTypes, QueueTypes
  <2> HIDE DEF r
  <2>5. Conversation(c)'
    <3>1. Shot(c)' = Shot(c) /\ toServer'[c] = toServer[c]
      BY <2>1, <2>3, <2>4 DEF Shot
    <3>2. ASSUME NEW d \in Shots, served = c => HasRead(c, d), served' = c PROVE HasRead(c, d)'
      <4>1. \A i \in 1..Len(fromServer'[c]) :
              \E j \in 1..Len(fromServer[c]) : fromServer'[c][i] = fromServer[c][j]
        BY <2>4
      <4> QED BY <2>1, <2>3, <2>4, <3>2, <4>1, HasReadClient
    <3> QED BY <1>1, <3>1, <3>2, ConvSame
  <2>6. Matched(c)'
    BY <1>1, <2>1, <2>3, <2>4 DEF Matched
  <2>7. /\ toServer' = [toServer EXCEPT ![c] = toServer[c]]
        /\ <<>> \in Seq(FromMessage) /\ Len(<<>>) <= MaxQueue
    BY <1>1, <1>2, <2>1 DEF QueueTypes
  <2>8. Fit(r)
    BY <1>2, <1>9, <2>3 DEF Fit
  <2> QED BY <1>2, <2>1, <2>2, <2>3, <2>4, <2>5, <2>6, <2>7, <2>8, ClientDone
<1>8. CASE show_prompt(c)
  <2> DEFINE r == [cli[c] EXCEPT !.show = @ - 1, !.waiting = @ + 1]
  <2>1. /\ cli' = [cli EXCEPT ![c] = r] /\ cli[c].show > 0
        /\ UNCHANGED <<link, toServer, fromServer, served, srv, session, grant, issued>>
    BY <1>8 DEF show_prompt, Shows, Set, netVars, srvVars, histVars
  <2>2. r \in ClientRecord
    <3>1. cli[c].show - 1 \in Nat /\ cli[c].waiting + 1 \in Nat
      BY SMTT(60), <1>2, <2>1
    <3> QED BY <1>2, <3>1 DEF ClientRecord
  <2>3. /\ r.waiting = cli[c].waiting + 1 /\ r.received = cli[c].received /\ r.show = cli[c].show - 1
        /\ r.late = cli[c].late /\ r.sent = cli[c].sent
        /\ r.seq = cli[c].seq /\ r.cancelled = cli[c].cancelled /\ r.asked = cli[c].asked
        /\ r.is_auth = cli[c].is_auth /\ r.gone = cli[c].gone /\ r.requests = cli[c].requests
        /\ r.crossed = cli[c].crossed /\ r.badsend = cli[c].badsend
    BY <1>2 DEF ClientRecord
  <2>4. cli'[c] = r /\ issued' \in 0..MaxRequests
    BY <1>1, <2>1 DEF ClientTypes
  <2> HIDE DEF r
  <2>5. Matched(c)'
    BY <1>1, <2>1, <2>3, <2>4, MatchStep
  <2>6. Fit(r)
    <3>1. \A w, v, x, p \in Nat : w + v + x <= p => (w + 1) + v + (x - 1) <= p
      OBVIOUS
    <3>2. ~cli[c].late => (cli[c].waiting + 1) + cli[c].received + (cli[c].show - 1) <= MaxPrompts
      BY <1>2, <1>9, <3>1
    <3> QED BY <1>9, <2>3, <3>2 DEF Fit
  <2> QED BY <2>1, <2>2, <2>3, <2>4, <2>5, <2>6, QuietDone
<1> QED BY <1>3, <1>4, <1>5, <1>6, <1>7, <1>8, <1>10

----------------------------------------------------------------------------
(* The messages of the daemon, at the client                               *)

(* A list of requests gives away its head.                                 *)
LEMMA CompleteFacts ==
  ASSUME NEW c \in Clients, cli[c] \in ClientRecord, NEW kind \in Kinds, NEW id \in Nat,
         NEW r, r = request_complete(c, kind, id)
  PROVE  /\ r \in ClientRecord
         /\ r.waiting = cli[c].waiting /\ r.received = cli[c].received /\ r.show = cli[c].show
         /\ r.late = cli[c].late /\ r.sent = cli[c].sent
         /\ r.seq = cli[c].seq /\ r.cancelled = cli[c].cancelled /\ r.asked = cli[c].asked
         /\ r.is_auth = cli[c].is_auth /\ r.gone = cli[c].gone /\ r.badsend = cli[c].badsend
         /\ \A k \in Kinds : k # kind => r.requests[k] = cli[c].requests[k]
         /\ cli[c].requests[kind] # <<>> /\ Head(cli[c].requests[kind]) = id =>
              r.requests[kind] = Tail(cli[c].requests[kind]) /\ r.crossed = cli[c].crossed
<1> DEFINE q == cli[c].requests[kind]
           rs == [cli[c].requests EXCEPT ![kind] = Tail(q)]
           x == cli[c].crossed \/ Head(q) # id
           w == {y \in cli[c].nested : y[1] # Head(q)}
<1>1. cli[c].requests \in [Kinds -> Seq(Nat)] /\ q \in Seq(Nat) /\ cli[c].crossed \in BOOLEAN
  BY DEF ClientRecord
<1>2. CASE q = <<>>
  BY <1>2 DEF request_complete
<1>3. CASE q # <<>>
  <2>1. /\ Tail(q) \in Seq(Nat) /\ rs \in [Kinds -> Seq(Nat)] /\ x \in BOOLEAN
        /\ w \in SUBSET (Nat \X Nat)
    BY <1>1, <1>3 DEF ClientRecord
  <2>2. r = [cli[c] EXCEPT !.requests = rs, !.nested = w, !.crossed = x]
    BY <1>3 DEF request_complete
  <2>3. /\ rs[kind] = Tail(q) /\ \A k \in Kinds : k # kind => rs[k] = cli[c].requests[k]
        /\ Head(q) = id => x = cli[c].crossed
    BY <1>1
  <2> HIDE DEF rs, x, q, w
  <2>4. r \in ClientRecord
    BY ZenonT(60), <2>1, <2>2 DEF ClientRecord
  <2>5. /\ r.waiting = cli[c].waiting /\ r.received = cli[c].received /\ r.show = cli[c].show
        /\ r.late = cli[c].late /\ r.sent = cli[c].sent
        /\ r.seq = cli[c].seq /\ r.cancelled = cli[c].cancelled /\ r.asked = cli[c].asked
        /\ r.is_auth = cli[c].is_auth /\ r.gone = cli[c].gone /\ r.badsend = cli[c].badsend
        /\ r.requests = rs /\ r.crossed = x
    BY SMTT(60), <2>2 DEF ClientRecord
  <2> QED BY <2>3, <2>4, <2>5 DEF q
<1> QED BY <1>2, <1>3

(* A reply is taken, and r is the client after it.                         *)
LEMMA CompleteStep ==
  ASSUME GreeterIInv, NEW c \in Clients, NEW kind \in Kinds, Takes(c, ReplyTo(kind)),
         NEW b \in BOOLEAN, NEW q, q = request_complete(c, kind, Head(fromServer[c]).id),
         NEW r, r = [q EXCEPT !.connected = b], cli' = [cli EXCEPT ![c] = r]
  PROVE  GreeterIInv'
<1>1. ClientTypes /\ QueueTypes /\ Prompts /\ Links /\ Matched(c)
  BY DEF GreeterIInv
<1>2. /\ cli[c] \in ClientRecord /\ toServer[c] \in Seq(ToMessage) /\ fromServer[c] \in Seq(FromMessage)
      /\ fromServer[c] # <<>> /\ issued \in Nat /\ \A k \in Kinds : cli[c].requests[k] \in Seq(Nat)
      /\ Head(fromServer[c]).t = ReplyTo(kind) /\ ~cli[c].gone /\ Fit(cli[c])
      /\ fromServer'[c] = Tail(fromServer[c]) /\ UNCHANGED <<link, toServer, issued>>
  BY <1>1, ClientFacts DEF Prompts, Takes, Calls, QueueTypes
<1>3. Head(fromServer[c]) \in FromMessage
  BY <1>2, TailFacts
<1>4. Head(fromServer[c]).id \in Nat
  BY <1>2, <1>3, MessageFacts DEF ReplyTo, Kinds
<1>5. /\ q \in ClientRecord
      /\ q.waiting = cli[c].waiting /\ q.received = cli[c].received /\ q.show = cli[c].show
      /\ q.late = cli[c].late /\ q.sent = cli[c].sent
      /\ q.seq = cli[c].seq /\ q.cancelled = cli[c].cancelled /\ q.asked = cli[c].asked
      /\ q.is_auth = cli[c].is_auth /\ q.gone = cli[c].gone /\ q.badsend = cli[c].badsend
      /\ \A k \in Kinds : k # kind => q.requests[k] = cli[c].requests[k]
      /\ cli[c].requests[kind] # <<>> /\ Head(cli[c].requests[kind]) = Head(fromServer[c]).id =>
           q.requests[kind] = Tail(cli[c].requests[kind]) /\ q.crossed = cli[c].crossed
  BY SMTT(60), <1>2, <1>4, CompleteFacts
<1>6. /\ r \in ClientRecord
      /\ r.waiting = q.waiting /\ r.received = q.received /\ r.show = q.show
      /\ r.late = q.late /\ r.sent = q.sent
      /\ r.seq = q.seq /\ r.cancelled = q.cancelled /\ r.asked = q.asked
      /\ r.is_auth = q.is_auth /\ r.gone = q.gone /\ r.badsend = q.badsend
      /\ r.requests = q.requests /\ r.crossed = q.crossed
  BY ZenonT(60), <1>5 DEF ClientRecord
<1>7. cli'[c] = r
  BY <1>1 DEF ClientTypes
<1>8. Matched(c)'
  <2>1. SUFFICES ASSUME ~r.badsend
                 PROVE  /\ ~r.crossed
                        /\ \A k \in Kinds : InStep(k, r.requests[k], toServer[c], Tail(fromServer[c]), issued)
    BY <1>2, <1>7 DEF Matched
  <2>2. /\ ~cli[c].crossed
        /\ \A k \in Kinds : InStep(k, cli[c].requests[k], toServer[c], fromServer[c], issued)
    BY <1>1, <1>2, <1>5, <1>6, <2>1 DEF Matched, Links
  <2>3. /\ cli[c].requests[kind] # <<>> /\ Head(cli[c].requests[kind]) = Head(fromServer[c]).id
        /\ InStep(kind, Tail(cli[c].requests[kind]), toServer[c], Tail(fromServer[c]), issued)
    BY <1>2, <2>2, StepComplete
  <2>4. ASSUME NEW k \in Kinds, k # kind
        PROVE  InStep(k, cli[c].requests[k], toServer[c], Tail(fromServer[c]), issued)
    <3>1. ReplyTo(kind) # ReplyTo(k)
      BY SMTT(60), <2>4 DEF ReplyTo, Kinds
    <3> QED BY <1>2, <2>2, <3>1, StepTail
  <2>5. ~r.crossed
    BY <1>5, <1>6, <2>2, <2>3
  <2>6. ASSUME NEW k \in Kinds
        PROVE  InStep(k, r.requests[k], toServer[c], Tail(fromServer[c]), issued)
    <3>1. CASE k = kind
      <4>1. r.requests[k] = Tail(cli[c].requests[kind])
        BY <1>5, <1>6, <2>3, <3>1
      <4> QED BY SMTT(60), <2>3, <3>1, <4>1
    <3>2. CASE k # kind
      <4>1. r.requests[k] = cli[c].requests[k]
        BY <1>5, <1>6, <3>2
      <4> QED BY <2>4, <3>2, <4>1
    <3> QED BY <3>1, <3>2
  <2> QED BY SMTT(60), <2>5, <2>6
<1>9. Fit(r)
  BY <1>2, <1>5, <1>6 DEF Fit
<1> QED BY <1>5, <1>6, <1>8, <1>9, TakeDone

(* The client handles a message.                                           *)
LEMMA MessageStep ==
  ASSUME GreeterIInv, NEW c \in Clients, handle_message(c)
  PROVE  GreeterIInv'
<1>1. ClientTypes /\ QueueTypes /\ Prompts
  BY DEF GreeterIInv
<1>2. /\ cli[c] \in ClientRecord /\ fromServer[c] \in Seq(FromMessage)
      /\ cli[c].waiting \in Nat /\ cli[c].received \in Nat /\ cli[c].show \in Nat
      /\ Fit(cli[c]) /\ MaxPrompts \in Nat
  BY <1>1, ClientFacts, GreeterAssumption DEF Prompts, ClientRecord
<1>3. CASE handle_connected(c)
  BY <1>3, CompleteStep DEF handle_connected, Set, ReplyTo, Kinds
<1>4. ASSUME NEW kind \in Kinds, Takes(c, ReplyTo(kind)),
             Set(c, request_complete(c, kind, Head(fromServer[c]).id))
      PROVE  GreeterIInv'
  <2> DEFINE q == request_complete(c, kind, Head(fromServer[c]).id)
  <2>1. fromServer[c] # <<>> /\ Head(fromServer[c]).t = ReplyTo(kind)
    BY <1>4 DEF Takes
  <2>2. Head(fromServer[c]).id \in Nat
    BY <1>2, <2>1, TailFacts, MessageFacts DEF ReplyTo, Kinds
  <2>3. q \in ClientRecord
    BY <1>2, <2>2, CompleteFacts
  <2>4. cli' = [cli EXCEPT ![c] = q]
    BY <1>4 DEF Set
  <2>5. q = request_complete(c, kind, Head(fromServer[c]).id)
    OBVIOUS
  <2> HIDE DEF q
  <2>6. q.connected \in BOOLEAN /\ q = [q EXCEPT !.connected = q.connected]
    BY <2>3 DEF ClientRecord
  <2> QED BY <1>4, <2>4, <2>5, <2>6, CompleteStep
<1>5. CASE handle_session_result(c)
  BY <1>4, <1>5 DEF handle_session_result, ReplyTo, Kinds
<1>6. CASE handle_shared_dir_result(c)
  BY <1>4, <1>6 DEF handle_shared_dir_result, ReplyTo, Kinds
<1>7. CASE handle_prompt_authentication(c)
  <2> DEFINE m == Head(fromServer[c])
             n == m.n
             k == m.auth[2]
             late == cli[c].late \/ cli[c].show > 0
             p == [cli[c] EXCEPT !.received = 0, !.waiting = 0, !.show = @ + n, !.prompt = k,
                                 !.believed = cli[c].seq, !.late = late]
             r == IF m.auth # Auth(c) \/ cli[c].cancelling THEN cli[c] ELSE p
  <2>1. Takes(c, "prompt") /\ cli' = [cli EXCEPT ![c] = r]
    BY <1>7 DEF handle_prompt_authentication, Set
  <2>2. n \in 0..MaxPrompts /\ k \in Nat
    BY <1>2, <2>1, TailFacts, MessageFacts DEF Takes, Auths
  <2>3. cli[c].seq \in Nat /\ n \in Nat /\ cli[c].show + n \in Nat /\ late \in BOOLEAN
    <3>1. cli[c].seq \in Nat /\ cli[c].show \in Nat /\ late \in BOOLEAN
      BY <1>2 DEF ClientRecord
    <3> HIDE DEF n, late
    <3>2. n \in Nat
      BY <2>2
    <3> QED BY <3>1, <3>2
  <2>4. ~late => cli[c].show = 0
    BY <1>2
  <2>9. ~late => ~cli[c].late
    OBVIOUS
  <2> HIDE DEF m, n, k, late
  <2>10. /\ p \in ClientRecord
         /\ p.waiting = 0 /\ p.received = 0 /\ p.show = cli[c].show + n /\ p.late = late
         /\ p.sent = cli[c].sent
         /\ p.seq = cli[c].seq /\ p.cancelled = cli[c].cancelled /\ p.asked = cli[c].asked
         /\ p.is_auth = cli[c].is_auth /\ p.gone = cli[c].gone /\ p.badsend = cli[c].badsend
         /\ p.requests = cli[c].requests /\ p.crossed = cli[c].crossed
    BY ZenonT(60), <1>2, <2>2, <2>3 DEF ClientRecord
  <2> HIDE DEF p
  <2>11. Fit(p)
    BY <1>2, <2>2, <2>3, <2>4, <2>9, <2>10 DEF Fit
  <2>5. /\ r \in ClientRecord /\ Fit(r)
        /\ r.seq = cli[c].seq /\ r.cancelled = cli[c].cancelled /\ r.asked = cli[c].asked
        /\ r.is_auth = cli[c].is_auth /\ r.gone = cli[c].gone /\ r.badsend = cli[c].badsend
        /\ r.requests = cli[c].requests /\ r.crossed = cli[c].crossed /\ r.sent = cli[c].sent
    BY <1>2, <2>10, <2>11
  <2>6. cli'[c] = r
    BY <1>1, <2>1 DEF ClientTypes
  <2> HIDE DEF r
  <2>7. Matched(c)'
    BY <2>1, <2>5, <2>6, TakeMatched
  <2> QED BY <2>1, <2>5, <2>7, TakeDone
<1>8. CASE handle_end_authentication(c)
  <2> DEFINE m == Head(fromServer[c])
             r == IF m.auth # Auth(c) THEN cli[c]
                  ELSE [cli[c] EXCEPT !.cancelling = FALSE, !.is_auth = m.ok, !.in_auth = FALSE]
  <2>1. Takes(c, "end") /\ cli' = [cli EXCEPT ![c] = r]
    BY <1>8 DEF handle_end_authentication, Set
  <2>2. m.ok \in BOOLEAN /\ m.auth \in Auths /\ m.t = "end"
    BY <1>2, <2>1, TailFacts, MessageFacts DEF Takes
  <2>3. r \in ClientRecord
    <3> DEFINE b == m.ok
               p == [cli[c] EXCEPT !.cancelling = FALSE, !.is_auth = b, !.in_auth = FALSE]
    <3>1. r \in {cli[c], p} /\ b \in BOOLEAN
      BY <2>2
    <3> HIDE DEF m, b, r
    <3>2. p \in ClientRecord
      BY ZenonT(60), <1>2, <3>1 DEF ClientRecord
    <3> HIDE DEF p
    <3> QED BY <1>2, <3>1, <3>2
  <2>5. /\ r.seq = cli[c].seq /\ r.cancelled = cli[c].cancelled /\ r.asked = cli[c].asked
        /\ r.gone = cli[c].gone /\ r.badsend = cli[c].badsend /\ r.sent = cli[c].sent
        /\ r.waiting = cli[c].waiting /\ r.received = cli[c].received /\ r.show = cli[c].show
        /\ r.requests = cli[c].requests /\ r.crossed = cli[c].crossed /\ r.late = cli[c].late
    BY <1>2 DEF ClientRecord
  <2>4. Fit(r)
    BY <1>2, <2>5 DEF Fit
  <2>6. r.is_auth => cli[c].is_auth \/ (m.ok /\ m.auth[2] = cli[c].seq)
    BY <1>2, <2>2 DEF ClientRecord, Auth
  <2>7. cli'[c] = r
    BY <1>1, <2>1 DEF ClientTypes
  <2> HIDE DEF r
  <2>8. Matched(c)'
    BY <2>1, <2>5, <2>7, TakeMatched
  <2> QED BY <2>1, <2>2, <2>3, <2>4, <2>5, <2>6, <2>8, TakeDone
<1>9. ASSUME NEW t \in {"idle", "reset"}, Takes(c, t), UNCHANGED cli PROVE GreeterIInv'
  <2>1. cli' = [cli EXCEPT ![c] = cli[c]]
    BY <1>1, <1>9 DEF ClientTypes
  <2>2. Matched(c)'
    BY <1>9, TakeMatched
  <2> QED BY <1>2, <1>9, <2>1, <2>2, TakeDone
<1>10. CASE handle_idle(c) \/ handle_reset(c)
  BY <1>9, <1>10 DEF handle_idle, handle_reset
<1> QED BY <1>3, <1>5, <1>6, <1>7, <1>8, <1>10 DEF handle_message

----------------------------------------------------------------------------
(* The steps of the daemon                                                 *)

(* A message is put behind the others, or lost.                            *)
LEMMA WriteFacts ==
  ASSUME QueueTypes, NEW c \in Clients, served = c, NEW m \in FromMessage, write_message(m)
  PROVE  \E fs \in Seq(FromMessage) :
           /\ fromServer' = [fromServer EXCEPT ![c] = fs] /\ fromServer'[c] = fs
           /\ Len(fs) <= MaxQueue
           /\ fs = IF cli[c].gone THEN fromServer[c] ELSE Append(fromServer[c], m)
<1>1. fromServer[c] \in Seq(FromMessage) /\ Len(fromServer[c]) <= MaxQueue /\ MaxQueue \in Nat
  BY GreeterAssumption DEF QueueTypes
<1>2. CASE cli[c].gone
  <2>1. fromServer' = [fromServer EXCEPT ![c] = fromServer[c]] /\ fromServer'[c] = fromServer[c]
    BY <1>2 DEF write_message, QueueTypes
  <2> QED BY <1>1, <1>2, <2>1
<1>3. CASE ~cli[c].gone
  <2> DEFINE fs == Append(fromServer[c], m)
  <2>1. fromServer' = [fromServer EXCEPT ![c] = fs] /\ fromServer'[c] = fs /\ Len(fromServer[c]) < MaxQueue
    BY <1>3 DEF write_message, QueueTypes
  <2>2. fs \in Seq(FromMessage) /\ Len(fs) <= MaxQueue
    BY <1>1, <2>1, AppendFacts
  <2> HIDE DEF fs
  <2> QED BY <1>3, <2>1, <2>2 DEF fs
<1> QED BY <1>2, <1>3

(* The daemon has read a message and done with it what it does.            *)
LEMMA ReadDone ==
  ASSUME GreeterIInv, NEW c \in Clients, served = c, NEW t, Reads(t),
         NEW fs \in Seq(FromMessage), fromServer' = [fromServer EXCEPT ![c] = fs],
         Len(fs) <= MaxQueue, srv' \in ServerRecord, session' \in SessionRecord,
         session'.state = "none" => session' = NoSession, StartsWhatWasAsked', Matched(c)',
         \A d, e \in Shots : HasRead(c, d) /\ Sends(c, Head(toServer[c]), d, e) => HasRead(c, e)'
  PROVE  GreeterIInv'
<1> DEFINE ts == Tail(toServer[c])
<1>1. ClientTypes /\ QueueTypes /\ Conversation(c)
  BY DEF GreeterIInv
<1>2. /\ toServer[c] # <<>> /\ toServer' = [toServer EXCEPT ![c] = ts] /\ toServer'[c] = ts
      /\ UNCHANGED <<cli, link, served, issued>>
  BY <1>1 DEF Reads, QueueTypes
<1>3. ts \in Seq(ToMessage) /\ Len(ts) <= MaxQueue
  <2>1. toServer[c] \in Seq(ToMessage) /\ Len(toServer[c]) <= MaxQueue /\ MaxQueue \in Nat
    BY <1>1, GreeterAssumption DEF QueueTypes
  <2> QED BY <1>2, <2>1, TailFacts
<1>4. Conversation(c)'
  <2>1. Shot(c)' = Shot(c)
    BY <1>2 DEF Shot
  <2> QED BY <1>1, <1>2, <2>1, ConvRead
<1> HIDE DEF ts
<1> QED BY <1>2, <1>3, <1>4, DaemonDone

(* The daemon has done something of its own accord.                        *)
LEMMA TellDone ==
  ASSUME GreeterIInv, NEW c \in Clients, served = c,
         UNCHANGED <<cli, link, toServer, served, issued, grant>>,
         NEW fs \in Seq(FromMessage), fromServer' = [fromServer EXCEPT ![c] = fs],
         Len(fs) <= MaxQueue, srv' \in ServerRecord, session' \in SessionRecord,
         session'.state = "none" => session' = NoSession, Matched(c)',
         \A d \in Shots : HasRead(c, d) => HasRead(c, d)'
  PROVE  GreeterIInv'
<1>1. ClientTypes /\ QueueTypes /\ Conversation(c) /\ StartsWhatWasAsked
  BY DEF GreeterIInv
<1>2. /\ toServer' = [toServer EXCEPT ![c] = toServer[c]] /\ toServer[c] \in Seq(ToMessage)
      /\ Len(toServer[c]) <= MaxQueue
  BY <1>1 DEF QueueTypes
<1>3. Conversation(c)'
  <2>1. Shot(c)' = Shot(c)
    BY DEF Shot
  <2> QED BY <1>1, <2>1, ConvSame
<1>4. StartsWhatWasAsked'
  BY <1>1 DEF StartsWhatWasAsked
<1> QED BY <1>2, <1>3, <1>4, DaemonDone

(* A message that is no request is read, and not replied to.               *)
LEMMA ReadMatched ==
  ASSUME GreeterIInv, NEW c \in Clients, served = c, NEW t, Reads(t), t \notin Kinds,
         \/ fromServer'[c] = fromServer[c]
         \/ \E m \in FromMessage :
              /\ fromServer'[c] = Append(fromServer[c], m) /\ m.t \notin {"connected", "start", "dir"}
  PROVE  Matched(c)'
<1>1. ClientTypes /\ QueueTypes /\ Matched(c)
  BY DEF GreeterIInv
<1>2. /\ toServer'[c] = Tail(toServer[c]) /\ toServer[c] # <<>> /\ Head(toServer[c]).t = t
      /\ UNCHANGED <<cli, link, issued>>
  BY <1>1 DEF QueueTypes, Reads
<1>3. /\ toServer[c] \in Seq(ToMessage) /\ fromServer[c] \in Seq(FromMessage) /\ issued \in Nat
      /\ Tail(toServer[c]) \in Seq(ToMessage) /\ \A k \in Kinds : cli[c].requests[k] \in Seq(Nat)
  BY <1>1, <1>2, ClientFacts, TailFacts
<1>4. ASSUME NEW kind \in Kinds,
             InStep(kind, cli[c].requests[kind], toServer[c], fromServer[c], issued)
      PROVE  InStep(kind, cli'[c].requests[kind], toServer'[c], fromServer'[c], issued')
  <2>1. InStep(kind, cli[c].requests[kind], Tail(toServer[c]), fromServer[c], issued)
    BY <1>2, <1>3, <1>4, StepTail
  <2>2. \A m \in FromMessage : m.t \notin {"connected", "start", "dir"} =>
          InStep(kind, cli[c].requests[kind], Tail(toServer[c]), Append(fromServer[c], m), issued)
    BY <1>3, <2>1, StepAppend DEF ReplyTo, Kinds
  <2> QED BY <1>2, <2>1, <2>2
<1> QED BY <1>1, <1>2, <1>4, MatchStep

(* The daemon says something that is no reply.                             *)
LEMMA TellMatched ==
  ASSUME GreeterIInv, NEW c \in Clients, UNCHANGED <<cli, link, toServer, issued>>,
         \/ fromServer'[c] = fromServer[c]
         \/ \E m \in FromMessage :
              /\ fromServer'[c] = Append(fromServer[c], m) /\ m.t \notin {"connected", "start", "dir"}
  PROVE  Matched(c)'
<1>1. ClientTypes /\ QueueTypes /\ Matched(c)
  BY DEF GreeterIInv
<1>2. ASSUME NEW kind \in Kinds,
             InStep(kind, cli[c].requests[kind], toServer[c], fromServer[c], issued)
      PROVE  InStep(kind, cli'[c].requests[kind], toServer'[c], fromServer'[c], issued')
  <2>1. \A m \in FromMessage : m.t \notin {"connected", "start", "dir"} =>
          InStep(kind, cli[c].requests[kind], toServer[c], Append(fromServer[c], m), issued)
    BY <1>1, <1>2, ClientFacts, StepAppend DEF ReplyTo, Kinds
  <2> QED BY <1>2, <2>1
<1> QED BY <1>1, <1>2, MatchStep

(* A request is read and replied to.                                       *)
LEMMA ServeMatched ==
  ASSUME GreeterIInv, NEW c \in Clients, served = c, NEW kind \in Kinds, Reads(kind),
         NEW m \in FromMessage, m.t = ReplyTo(kind), m.id = Head(toServer[c]).id,
         ~cli[c].gone => fromServer'[c] = Append(fromServer[c], m)
  PROVE  Matched(c)'
<1>1. ClientTypes /\ QueueTypes /\ Matched(c)
  BY DEF GreeterIInv
<1>2. /\ toServer'[c] = Tail(toServer[c]) /\ toServer[c] # <<>> /\ Head(toServer[c]).t = kind
      /\ UNCHANGED <<cli, link, issued>>
  BY <1>1 DEF QueueTypes, Reads
<1>3. /\ toServer[c] \in Seq(ToMessage) /\ fromServer[c] \in Seq(FromMessage) /\ issued \in Nat
      /\ Tail(toServer[c]) \in Seq(ToMessage) /\ \A k \in Kinds : cli[c].requests[k] \in Seq(Nat)
  BY <1>1, <1>2, ClientFacts, TailFacts
<1>4. ASSUME NEW k \in Kinds, ~cli[c].gone,
             InStep(k, cli[c].requests[k], toServer[c], fromServer[c], issued)
      PROVE  InStep(k, cli'[c].requests[k], toServer'[c], fromServer'[c], issued')
  <2>1. CASE k = kind
    BY <1>2, <1>3, <1>4, <2>1, StepServe
  <2>2. CASE k # kind
    <3>1. InStep(k, cli[c].requests[k], Tail(toServer[c]), fromServer[c], issued)
      BY <1>2, <1>3, <1>4, <2>2, StepTail
    <3>2. m.t # ReplyTo(k)
      BY <2>2 DEF ReplyTo, Kinds
    <3> QED BY <1>2, <1>3, <1>4, <3>1, <3>2, StepAppend
  <2> QED BY <2>1, <2>2
<1> QED BY <1>1, <1>2, <1>4, MatchStep

(* What is authenticated stays as it is.                                   *)
LEMMA HasReadSame ==
  ASSUME QueueTypes, NEW c \in Clients, NEW d \in Shots, HasRead(c, d), UNCHANGED cli,
         cli[c].seq \in Nat, srv'.guest = srv.guest, srv'.seq = srv.seq,
         session'.state = session.state, session'.auth = session.auth, session'.ok = session.ok,
         \/ fromServer'[c] = fromServer[c]
         \/ \E m \in FromMessage : fromServer'[c] = Append(fromServer[c], m) /\ m.t # "end"
  PROVE  HasRead(c, d)'
<1>1. /\ srv'.guest # NoAuth => srv'.guest = <<c, d.seq>> /\ session'.state = "none"
      /\ session'.state # "none" => session'.auth = <<c, d.seq>> /\ srv'.seq = d.seq /\ ~d.cancelled
  BY DEF HasRead
<1>2. \A n \in Nat : Reliable(srv, session, c, d, n) => Reliable(srv', session', c, d, n)
  BY DEF Reliable, Agrees
<1> QED BY <1>1, <1>2, HasReadDaemon

(* What the daemon knows of the message it reads.                          *)
LEMMA ReadFacts ==
  ASSUME GreeterIInv, NEW c \in Clients, served = c, NEW t, Reads(t)
  PROVE  /\ Head(toServer[c]) \in ToMessage /\ Head(toServer[c]).t = t /\ Msg = Head(toServer[c])
         /\ QueueTypes /\ cli[c].seq \in Nat /\ srv \in ServerRecord /\ session \in SessionRecord
         /\ session.state = "none" => session = NoSession
         /\ StartsWhatWasAsked /\ fromServer[c] \in Seq(FromMessage) /\ Len(fromServer[c]) <= MaxQueue
         /\ UNCHANGED <<cli, link, served, issued>>
         /\ fromServer' = fromServer =>
              fromServer' = [fromServer EXCEPT ![c] = fromServer[c]] /\ fromServer'[c] = fromServer[c]
<1>1. QueueTypes /\ ClientTypes /\ DaemonTypes /\ Links /\ StartsWhatWasAsked
  BY DEF GreeterIInv
<1>2. toServer[c] \in Seq(ToMessage) /\ toServer[c] # <<>>
  BY <1>1 DEF QueueTypes, Reads
<1>3. Head(toServer[c]) \in ToMessage
  BY <1>2, TailFacts
<1>4. /\ cli[c].seq \in Nat /\ fromServer[c] \in Seq(FromMessage) /\ Len(fromServer[c]) <= MaxQueue
      /\ fromServer' = fromServer =>
           fromServer' = [fromServer EXCEPT ![c] = fromServer[c]] /\ fromServer'[c] = fromServer[c]
  BY <1>1, ClientFacts DEF QueueTypes
<1> QED BY <1>1, <1>3, <1>4 DEF Reads, Msg, DaemonTypes, Links

(* The handlers that leave the authentication alone.                       *)
LEMMA OtherHandlers ==
  ASSUME GreeterIInv, NEW c \in Clients, served = c,
         handle_connect \/ handle_ensure_shared_dir \/ handle_set_language
           \/ handle_continue_authentication
  PROVE  GreeterIInv'
<1> DEFINE msg == Head(toServer[c])
<1>1. ASSUME NEW kind \in {"connect", "dir"}, NEW rt, rt = ReplyTo(kind),
             Reads(kind), write_message([t |-> rt, id |-> msg.id]),
             srv' \in ServerRecord, srv'.guest = srv.guest, srv'.seq = srv.seq,
             UNCHANGED <<session, grant>>
      PROVE  GreeterIInv'
  <2> DEFINE m == [t |-> rt, id |-> msg.id]
  <2>1. /\ msg \in ToMessage /\ msg.t = kind /\ QueueTypes /\ cli[c].seq \in Nat
        /\ session \in SessionRecord /\ (session.state = "none" => session = NoSession)
        /\ StartsWhatWasAsked /\ UNCHANGED cli
    BY <1>1, ReadFacts
  <2>2. m \in FromMessage /\ m.t = ReplyTo(kind) /\ m.id = msg.id /\ m.t # "end" /\ kind \in Kinds
    BY <1>1, <2>1, MessageFacts DEF FromMessage, ReplyTo, Kinds
  <2>3. write_message(m)
    BY <1>1
  <2> HIDE DEF m
  <2>4. PICK fs \in Seq(FromMessage) :
           /\ fromServer' = [fromServer EXCEPT ![c] = fs] /\ fromServer'[c] = fs
           /\ Len(fs) <= MaxQueue
           /\ fs = IF cli[c].gone THEN fromServer[c] ELSE Append(fromServer[c], m)
    BY <2>1, <2>2, <2>3, WriteFacts
  <2>5. Matched(c)'
    BY <1>1, <2>2, <2>4, ServeMatched
  <2>6. ASSUME NEW d \in Shots, NEW e \in Shots, HasRead(c, d), Sends(c, msg, d, e) PROVE HasRead(c, e)'
    <3>1. e = d
      BY <1>1, <2>1, <2>6 DEF Sends, AuthKinds
    <3> QED BY <1>1, <2>1, <2>2, <2>4, <2>6, <3>1, HasReadSame
  <2>7. StartsWhatWasAsked'
    BY <1>1, <2>1 DEF StartsWhatWasAsked
  <2> QED BY <1>1, <2>1, <2>4, <2>5, <2>6, <2>7, ReadDone
<1>2. CASE handle_connect
  <2>1. Reads("connect") /\ write_message([t |-> "connected", id |-> msg.id])
        /\ srv' = [srv EXCEPT !.connected = TRUE] /\ UNCHANGED <<session, grant>>
    BY <1>2 DEF handle_connect, Msg, histVars
  <2>2. srv \in ServerRecord
    BY <2>1, ReadFacts
  <2>3. srv' \in ServerRecord /\ srv'.guest = srv.guest /\ srv'.seq = srv.seq
    BY <2>1, <2>2 DEF ServerRecord
  <2>4. "connected" = ReplyTo("connect")
    BY DEF ReplyTo
  <2> QED BY <1>1, <2>1, <2>3, <2>4
<1>3. CASE handle_ensure_shared_dir
  <2>1. Reads("dir") /\ write_message([t |-> "dir", id |-> msg.id]) /\ UNCHANGED <<srv, session, grant>>
    BY <1>3 DEF handle_ensure_shared_dir, Msg, histVars
  <2>2. srv \in ServerRecord
    BY <2>1, ReadFacts
  <2>3. "dir" = ReplyTo("dir")
    BY DEF ReplyTo
  <2> QED BY <1>1, <2>1, <2>2, <2>3
<1>4. ASSUME NEW t \in {"language", "continue"}, Reads(t), UNCHANGED <<fromServer, srv, grant>>,
             session' \in SessionRecord, session'.state = "none" => session' = NoSession,
             session'.state = session.state, session'.auth = session.auth, session'.ok = session.ok
      PROVE  GreeterIInv'
  <2>1. /\ msg \in ToMessage /\ msg.t = t /\ QueueTypes /\ cli[c].seq \in Nat
        /\ srv \in ServerRecord /\ StartsWhatWasAsked /\ UNCHANGED cli
        /\ fromServer[c] \in Seq(FromMessage) /\ Len(fromServer[c]) <= MaxQueue
        /\ fromServer' = [fromServer EXCEPT ![c] = fromServer[c]] /\ fromServer'[c] = fromServer[c]
    BY <1>4, ReadFacts
  <2>2. t \notin Kinds
    BY DEF Kinds
  <2>3. Matched(c)'
    BY <1>4, <2>1, <2>2, ReadMatched
  <2>4. ASSUME NEW d \in Shots, NEW e \in Shots, HasRead(c, d), Sends(c, msg, d, e) PROVE HasRead(c, e)'
    <3>1. e = d
      BY <1>4, <2>1, <2>4 DEF Sends, AuthKinds
    <3> QED BY <1>4, <2>1, <2>4, <3>1, HasReadSame
  <2>5. StartsWhatWasAsked'
    BY <1>4, <2>1 DEF StartsWhatWasAsked
  <2> QED BY <1>4, <2>1, <2>3, <2>4, <2>5, ReadDone
<1>5. CASE handle_set_language
  <2>1. Reads("language") /\ UNCHANGED <<fromServer, srv, session, grant>>
    BY <1>5 DEF handle_set_language, histVars
  <2>2. session \in SessionRecord /\ (session.state = "none" => session = NoSession)
    BY <2>1, ReadFacts
  <2> QED BY <1>4, <2>1, <2>2
<1>6. CASE handle_continue_authentication
  <2>1. /\ Reads("continue") /\ UNCHANGED <<fromServer, srv, grant>>
        /\ session' =
             IF session.state = "none" THEN session
             ELSE IF msg.n # session.prompts
               THEN [session EXCEPT !.replies = Append(@, [error |-> TRUE, given |-> msg.auth, late |-> msg.late])]
               ELSE [session EXCEPT !.replies = Append(@, [error |-> FALSE, given |-> msg.auth, late |-> msg.late]),
                                    !.prompts = 0]
    BY <1>6 DEF handle_continue_authentication, Msg, histVars
  <2>2. /\ session \in SessionRecord /\ (session.state = "none" => session = NoSession)
        /\ msg \in ToMessage /\ msg.t = "continue"
    BY <2>1, ReadFacts
  <2>3. ASSUME NEW b \in BOOLEAN
        PROVE  Append(session.replies, [error |-> b, given |-> msg.auth, late |-> msg.late]) \in Seq(Reply)
    <3>1. [error |-> b, given |-> msg.auth, late |-> msg.late] \in Reply
      BY <2>2, MessageFacts DEF Reply
    <3> QED BY <2>2, <3>1, AppendFacts DEF SessionRecord
  <2>4. CASE session.state = "none"
    BY <1>4, <2>1, <2>2, <2>4
  <2>5. ASSUME session.state # "none", NEW q \in Seq(Reply),
               session' = [session EXCEPT !.replies = q] \/ session' = [session EXCEPT !.replies = q, !.prompts = 0]
        PROVE  GreeterIInv'
    <3>1. /\ session' \in SessionRecord /\ session'.state = session.state
          /\ session'.auth = session.auth /\ session'.ok = session.ok
      <4>1. CASE session' = [session EXCEPT !.replies = q]
        BY <2>2, <2>5, <4>1 DEF SessionRecord
      <4>2. CASE session' = [session EXCEPT !.replies = q, !.prompts = 0]
        BY <2>2, <2>5, <4>2 DEF SessionRecord
      <4> QED BY <2>5, <4>1, <4>2
    <3> QED BY <1>4, <2>1, <2>5, <3>1
  <2>6. CASE session.state # "none"
    BY <2>1, <2>3, <2>5, <2>6
  <2> QED BY <2>4, <2>6
<1> QED BY <1>2, <1>3, <1>5, <1>6

(* The handlers that begin an authentication.                              *)
LEMMA AuthHandlers ==
  ASSUME GreeterIInv, NEW c \in Clients, served = c,
         \/ handle_authenticate
         \/ \E b \in BOOLEAN : handle_authenticate_as_guest(b) \/ handle_authenticate_remote(b)
  PROVE  GreeterIInv'
<1> DEFINE msg == Head(toServer[c])
<1>1. ASSUME NEW t \in AuthKinds, Reads(t), srv' \in ServerRecord, session' \in SessionRecord,
             session'.state = "none" => session' = NoSession, UNCHANGED grant,
             srv'.guest # NoAuth => srv'.guest = msg.auth /\ session'.state = "none",
             session'.state # "none" => session'.auth = msg.auth /\ srv'.seq = msg.auth[2],
             \/ UNCHANGED fromServer
             \/ \E ok \in BOOLEAN : send_end_authentication(msg.auth, ok) /\ (ok => srv'.guest = msg.auth)
      PROVE  GreeterIInv'
  <2>1. /\ msg \in ToMessage /\ msg.t = t /\ QueueTypes /\ cli[c].seq \in Nat
        /\ StartsWhatWasAsked /\ UNCHANGED cli
        /\ fromServer[c] \in Seq(FromMessage) /\ Len(fromServer[c]) <= MaxQueue
        /\ fromServer' = fromServer =>
             fromServer' = [fromServer EXCEPT ![c] = fromServer[c]] /\ fromServer'[c] = fromServer[c]
    BY <1>1, ReadFacts
  <2>2. msg.auth \in Auths /\ t \notin Kinds
    BY <1>1, <2>1, MessageFacts DEF AuthKinds, Kinds
  <2>3. StartsWhatWasAsked'
    BY <1>1, <2>1 DEF StartsWhatWasAsked
  <2>4. ASSUME NEW d \in Shots, NEW e \in Shots, HasRead(c, d), Sends(c, msg, d, e),
               \/ fromServer'[c] = fromServer[c]
               \/ \E m \in FromMessage :
                    /\ fromServer'[c] = Append(fromServer[c], m) /\ m.auth = msg.auth
                    /\ m.ok => srv'.guest = msg.auth
        PROVE  HasRead(c, e)'
    <3>1. e.seq > d.seq /\ ~e.cancelled /\ ~e.asked /\ msg.auth = <<c, e.seq>>
      BY <1>1, <2>1, <2>4 DEF Sends, AuthKinds
    <3>2. e.seq > d.seq /\ ~e.cancelled /\ ~e.asked /\ d.seq \in Nat /\ e.seq \in Nat
      BY <3>1 DEF Shots
    <3>3. msg.auth[2] = e.seq
      BY <3>1
    <3>4. ASSUME NEW n \in Nat, Reliable(srv, session, c, d, n)
          PROVE  Reliable(srv', session', c, e, n)
      BY <3>2, <3>4 DEF Reliable
    <3>5. ASSUME srv'.guest = msg.auth PROVE Reliable(srv', session', c, e, e.seq)
      BY <3>1, <3>2, <3>5 DEF Reliable, Agrees
    <3>6. /\ srv'.guest # NoAuth => srv'.guest = <<c, e.seq>> /\ session'.state = "none"
          /\ session'.state # "none" => session'.auth = <<c, e.seq>> /\ srv'.seq = e.seq /\ ~e.cancelled
      BY <1>1, <3>1, <3>2, <3>3
    <3>7. \/ fromServer'[c] = fromServer[c]
          \/ \E m \in FromMessage :
               /\ fromServer'[c] = Append(fromServer[c], m)
               /\ m.t = "end" /\ m.ok => Reliable(srv', session', c, e, m.auth[2])
      BY <2>4, <3>3, <3>5
    <3> QED BY <2>1, <2>4, <3>4, <3>6, <3>7, HasReadDaemon
  <2>5. CASE UNCHANGED fromServer
    <3>1. Matched(c)'
      BY <1>1, <2>1, <2>2, <2>5, ReadMatched
    <3> QED BY <1>1, <2>1, <2>3, <2>4, <2>5, <3>1, ReadDone
  <2>6. ASSUME NEW ok \in BOOLEAN, send_end_authentication(msg.auth, ok), ok => srv'.guest = msg.auth
        PROVE  GreeterIInv'
    <3> DEFINE m == [t |-> "end", auth |-> msg.auth, ok |-> ok]
    <3>1. write_message(m) /\ m \in FromMessage /\ m.t = "end" /\ m.auth = msg.auth /\ m.ok = ok
      BY <2>2, <2>6 DEF send_end_authentication, FromMessage
    <3> HIDE DEF m
    <3>2. PICK fs \in Seq(FromMessage) :
             /\ fromServer' = [fromServer EXCEPT ![c] = fs] /\ fromServer'[c] = fs
             /\ Len(fs) <= MaxQueue
             /\ fs = IF cli[c].gone THEN fromServer[c] ELSE Append(fromServer[c], m)
      BY <2>1, <3>1, WriteFacts
    <3>3. Matched(c)'
      BY <1>1, <2>2, <3>1, <3>2, ReadMatched
    <3>4. ASSUME NEW d \in Shots, NEW e \in Shots, HasRead(c, d), Sends(c, msg, d, e) PROVE HasRead(c, e)'
      BY <2>4, <2>6, <3>1, <3>2, <3>4
    <3> QED BY <1>1, <2>3, <3>2, <3>3, <3>4, ReadDone
  <2> QED BY <1>1, <2>5, <2>6
<1>2. /\ NoSession \in SessionRecord /\ NoSession.state = "none" /\ NoAuth \in Auths
  BY GreeterAssumption DEF NoSession, SessionRecord, NoAuth, Auths
<1>3. ASSUME NEW a \in Auths, NEW x \in create_session(a)
      PROVE  /\ x \in SessionRecord /\ (x.state = "none" => x = NoSession)
             /\ x.state # "none" => x.auth = a
  BY ZenonT(60), <1>2, <1>3 DEF create_session, NoSession, SessionRecord
<1>4. CASE handle_authenticate
  <2>1. /\ Reads("user") /\ srv' = [reset_session EXCEPT !.seq = msg.auth[2]]
        /\ session' \in create_session(msg.auth) /\ UNCHANGED grant
        /\ IF session' = NoSession THEN send_end_authentication(msg.auth, FALSE) ELSE UNCHANGED fromServer
    BY <1>4 DEF handle_authenticate, Msg, histVars
  <2>2. msg \in ToMessage /\ msg.t = "user" /\ srv \in ServerRecord
    BY <2>1, ReadFacts
  <2>3. msg.auth \in Auths /\ msg.auth[2] \in Nat
    BY <2>2, MessageFacts DEF AuthKinds, Auths
  <2>4. srv' \in ServerRecord /\ srv'.guest = NoAuth /\ srv'.seq = msg.auth[2]
    BY <1>2, <2>1, <2>2, <2>3 DEF reset_session, ServerRecord
  <2> QED BY <1>1, <1>3, <2>1, <2>3, <2>4 DEF AuthKinds
<1>5. ASSUME NEW b \in BOOLEAN, handle_authenticate_as_guest(b) PROVE GreeterIInv'
  <2>1. /\ Reads("guest") /\ srv' = [reset_session EXCEPT !.guest = IF b THEN msg.auth ELSE NoAuth]
        /\ session' = NoSession /\ UNCHANGED grant /\ send_end_authentication(msg.auth, b)
    BY <1>5 DEF handle_authenticate_as_guest, Msg, histVars
  <2>2. msg \in ToMessage /\ msg.t = "guest" /\ srv \in ServerRecord
    BY <2>1, ReadFacts
  <2>3. msg.auth \in Auths
    BY <2>2, MessageFacts DEF AuthKinds
  <2>4. srv' \in ServerRecord /\ srv'.guest = IF b THEN msg.auth ELSE NoAuth
    BY <1>2, <2>1, <2>2, <2>3 DEF reset_session, ServerRecord
  <2> QED BY <1>1, <1>2, <2>1, <2>4 DEF AuthKinds
<1>6. ASSUME NEW b \in BOOLEAN, handle_authenticate_remote(b) PROVE GreeterIInv'
  <2>1. /\ Reads("remote") /\ UNCHANGED grant
        /\ srv' = IF b THEN [reset_session EXCEPT !.seq = msg.auth[2], !.remote = TRUE] ELSE reset_session
        /\ session' \in IF b THEN create_session(msg.auth) ELSE {NoSession}
        /\ IF session' = NoSession THEN send_end_authentication(msg.auth, FALSE) ELSE UNCHANGED fromServer
    BY <1>6 DEF handle_authenticate_remote, Msg, histVars
  <2>2. msg \in ToMessage /\ msg.t = "remote" /\ srv \in ServerRecord
    BY <2>1, ReadFacts
  <2>3. msg.auth \in Auths /\ msg.auth[2] \in Nat
    BY <2>2, MessageFacts DEF AuthKinds, Auths
  <2>4. srv' \in ServerRecord /\ srv'.guest = NoAuth /\ (b => srv'.seq = msg.auth[2])
    BY <1>2, <2>1, <2>2, <2>3 DEF reset_session, ServerRecord
  <2>5. /\ session' \in SessionRecord /\ (session'.state = "none" => session' = NoSession)
        /\ session'.state # "none" => session'.auth = msg.auth /\ b
    BY <1>2, <1>3, <2>1, <2>3
  <2> QED BY <1>1, <2>1, <2>4, <2>5 DEF AuthKinds
<1> QED BY <1>4, <1>5, <1>6

(* The handlers that end one.                                              *)
LEMMA EndHandlers ==
  ASSUME GreeterIInv, NEW c \in Clients, served = c,
         handle_cancel_authentication \/ \E b \in BOOLEAN : handle_start_session(b)
  PROVE  GreeterIInv'
<1> DEFINE msg == Head(toServer[c])
<1>1. /\ NoSession \in SessionRecord /\ NoSession.state = "none" /\ NoAuth \in Auths
  BY GreeterAssumption DEF NoSession, SessionRecord, NoAuth, Auths
<1>2. CASE handle_cancel_authentication
  <2>1. /\ Reads("cancel") /\ srv' = (IF session.state = "none" THEN srv ELSE reset_session)
        /\ session' = NoSession /\ UNCHANGED <<fromServer, grant>>
    BY <1>2 DEF handle_cancel_authentication, histVars
  <2>2. /\ msg \in ToMessage /\ msg.t = "cancel" /\ QueueTypes /\ cli[c].seq \in Nat
        /\ StartsWhatWasAsked /\ UNCHANGED cli /\ srv \in ServerRecord
        /\ fromServer[c] \in Seq(FromMessage) /\ Len(fromServer[c]) <= MaxQueue
        /\ fromServer' = [fromServer EXCEPT ![c] = fromServer[c]] /\ fromServer'[c] = fromServer[c]
    BY <2>1, ReadFacts
  <2>3. srv' \in ServerRecord /\ (srv' = srv \/ srv'.guest = NoAuth)
    BY <1>1, <2>1, <2>2 DEF reset_session, ServerRecord
  <2>4. Matched(c)'
    BY <2>1, <2>2, ReadMatched DEF Kinds
  <2>5. ASSUME NEW d \in Shots, NEW e \in Shots, HasRead(c, d), Sends(c, msg, d, e) PROVE HasRead(c, e)'
    <3>1. e.seq = d.seq /\ e.cancelled
      BY <2>2, <2>5 DEF Sends, AuthKinds
    <3>2. ASSUME NEW n \in Nat, Reliable(srv, session, c, d, n)
          PROVE  Reliable(srv', session', c, e, n)
      BY <3>1, <3>2 DEF Reliable
    <3>3. /\ srv'.guest # NoAuth => srv'.guest = <<c, e.seq>> /\ session'.state = "none"
          /\ session'.state = "none"
      BY <1>1, <2>1, <2>3, <2>5, <3>1 DEF HasRead
    <3> QED BY <2>2, <2>5, <3>2, <3>3, HasReadDaemon
  <2>6. StartsWhatWasAsked'
    BY <2>1, <2>2 DEF StartsWhatWasAsked
  <2> QED BY <1>1, <2>1, <2>2, <2>3, <2>4, <2>5, <2>6, ReadDone
<1>3. ASSUME NEW b \in BOOLEAN, handle_start_session(b) PROVE GreeterIInv'
  <2> DEFINE guest == srv.guest # NoAuth
             accepted == guest \/ session_get_is_authenticated
             m == [t |-> "start", id |-> msg.id]
  <2>1. /\ Reads("start") /\ session' = (IF accepted /\ ~guest THEN NoSession ELSE session)
        /\ grant' = IF ~accepted THEN grant
                    ELSE [asked |-> msg.auth, believed |-> msg.believed, cancelled |-> msg.cancelled,
                          guest |-> guest, auth |-> IF guest THEN srv.guest ELSE session.auth]
        /\ write_message(m) /\ UNCHANGED srv
    BY <1>3 DEF handle_start_session, Msg
  <2>2. /\ msg \in ToMessage /\ msg.t = "start" /\ QueueTypes /\ cli[c].seq \in Nat
        /\ StartsWhatWasAsked /\ UNCHANGED cli /\ srv \in ServerRecord /\ session \in SessionRecord
        /\ session.state = "none" => session = NoSession
    BY <2>1, ReadFacts
  <2>3. m \in FromMessage /\ m.t = ReplyTo("start") /\ m.id = msg.id /\ m.t # "end" /\ "start" \in Kinds
    BY <2>2, MessageFacts DEF FromMessage, ReplyTo, Kinds
  <2> HIDE DEF m
  <2>4. PICK fs \in Seq(FromMessage) :
           /\ fromServer' = [fromServer EXCEPT ![c] = fs] /\ fromServer'[c] = fs
           /\ Len(fs) <= MaxQueue
           /\ fs = IF cli[c].gone THEN fromServer[c] ELSE Append(fromServer[c], m)
    BY <2>1, <2>2, <2>3, WriteFacts
  <2>5. Matched(c)'
    BY <2>1, <2>3, <2>4, ServeMatched
  <2>6. session' \in SessionRecord /\ (session'.state = "none" => session' = NoSession)
    BY <1>1, <2>1, <2>2
  <2>7. ASSUME NEW d \in Shots, NEW e \in Shots, HasRead(c, d), Sends(c, msg, d, e)
        PROVE  /\ HasRead(c, e)' /\ e.seq = d.seq /\ e.cancelled = d.cancelled
               /\ msg.auth = <<c, d.seq>> /\ msg.cancelled = d.cancelled
               /\ msg.believed \in {NoAuth, msg.auth}
    <3>1. /\ e.seq = d.seq /\ e.cancelled = d.cancelled /\ e.asked
          /\ msg.auth = <<c, d.seq>> /\ msg.cancelled = d.cancelled
          /\ msg.believed \in {NoAuth, msg.auth}
      BY <2>2, <2>7 DEF Sends, AuthKinds
    <3>2. ASSUME NEW n \in Nat, Reliable(srv, session, c, d, n)
          PROVE  Reliable(srv', session', c, e, n)
      BY <3>1, <3>2 DEF Reliable
    <3>3. /\ srv'.guest # NoAuth => srv'.guest = <<c, e.seq>> /\ session'.state = "none"
          /\ session'.state # "none" => session'.auth = <<c, e.seq>> /\ srv'.seq = e.seq /\ ~e.cancelled
      BY <1>1, <2>1, <2>7, <3>1 DEF HasRead
    <3>4. HasRead(c, e)'
      BY <2>2, <2>3, <2>4, <2>7, <3>2, <3>3, HasReadDaemon
    <3> QED BY <3>1, <3>4
  <2>8. StartsWhatWasAsked'
    <3>1. PICK d \in Shots, e \in Shots : HasRead(c, d) /\ Sends(c, msg, d, e)
      <4>1. Conversation(c) /\ toServer[c] \in Seq(ToMessage) /\ toServer[c] # <<>>
        BY <2>1, <2>2 DEF GreeterIInv, QueueTypes, Reads
      <4>2. PICK d \in Shots : Leads(c, toServer[c], d, Shot(c)) /\ HasRead(c, d)
        BY <4>1 DEF Conversation
      <4>3. \E e \in Shots : Sends(c, msg, d, e)
        BY <4>1, <4>2, LeadsTail
      <4> QED BY <4>2, <4>3
    <3>2. /\ msg.auth = <<c, d.seq>> /\ msg.cancelled = d.cancelled
          /\ msg.believed \in {NoAuth, msg.auth}
      BY <2>7, <3>1
    <3>3. CASE ~accepted
      BY <2>1, <2>2, <3>3 DEF StartsWhatWasAsked
    <3>4. CASE guest
      <4>1. srv.guest = <<c, d.seq>>
        BY <3>1, <3>4 DEF HasRead
      <4>2. grant' = [asked |-> msg.auth, believed |-> msg.believed, cancelled |-> msg.cancelled,
                      guest |-> TRUE, auth |-> srv.guest]
        BY <2>1, <3>4
      <4> QED BY <3>2, <4>1, <4>2 DEF StartsWhatWasAsked
    <3>5. CASE ~guest /\ session_get_is_authenticated
      <4>1. session.auth = <<c, d.seq>> /\ ~d.cancelled
        BY <3>1, <3>5 DEF HasRead, session_get_is_authenticated
      <4>2. grant' = [asked |-> msg.auth, believed |-> msg.believed, cancelled |-> msg.cancelled,
                      guest |-> FALSE, auth |-> session.auth]
        BY <2>1, <3>5
      <4> QED BY <3>2, <4>1, <4>2 DEF StartsWhatWasAsked
    <3> QED BY <3>3, <3>4, <3>5
  <2>9. srv' \in ServerRecord
    BY <2>1, <2>2
  <2> QED BY <2>1, <2>4, <2>5, <2>6, <2>7, <2>8, <2>9, ReadDone
<1> QED BY <1>2, <1>3

(* A session that is not over has authenticated nobody: what it does next  *)
(* takes nothing away.                                                     *)
LEMMA PAMRead ==
  ASSUME QueueTypes, NEW c \in Clients, NEW d \in Shots, HasRead(c, d), UNCHANGED <<cli, srv>>,
         cli[c].seq \in Nat, session.state \notin {"none", "complete"},
         session'.state # "none", session'.auth = session.auth,
         \/ fromServer'[c] = fromServer[c]
         \/ \E m \in FromMessage :
              /\ fromServer'[c] = Append(fromServer[c], m)
              /\ m.t = "end" /\ m.ok =>
                   m.auth[2] = srv.seq /\ session'.state = "complete" /\ session'.ok
  PROVE  HasRead(c, d)'
<1>1. /\ srv.guest = NoAuth /\ session.auth = <<c, d.seq>> /\ srv.seq = d.seq /\ ~d.cancelled
      /\ d.seq \in Nat
  BY DEF HasRead, Shots
<1>2. ASSUME NEW n PROVE ~Agrees(srv, session, c, n)
  BY <1>1, GreeterAssumption DEF Agrees, NoAuth
<1>3. ASSUME NEW n \in Nat, Reliable(srv, session, c, d, n) PROVE Reliable(srv', session', c, d, n)
  BY <1>2, <1>3 DEF Reliable
<1>4. ASSUME session'.state = "complete", session'.ok PROVE Reliable(srv', session', c, d, srv.seq)
  BY <1>1, <1>4 DEF Reliable, Agrees
<1>5. \/ fromServer'[c] = fromServer[c]
      \/ \E m \in FromMessage :
           /\ fromServer'[c] = Append(fromServer[c], m)
           /\ m.t = "end" /\ m.ok => Reliable(srv', session', c, d, m.auth[2])
  BY <1>4
<1>6. /\ srv'.guest # NoAuth => srv'.guest = <<c, d.seq>> /\ session'.state = "none"
      /\ session'.state # "none" => session'.auth = <<c, d.seq>> /\ srv'.seq = d.seq /\ ~d.cancelled
  BY <1>1
<1> QED BY <1>3, <1>5, <1>6, HasReadDaemon

(* The steps of PAM, and of the seat.                                      *)
LEMMA PAMStep ==
  ASSUME GreeterIInv, PAM \/ greeter_idle \/ greeter_reset
  PROVE  GreeterIInv'
<1>1. QueueTypes /\ ClientTypes /\ DaemonTypes /\ Links
  BY DEF GreeterIInv
<1>2. PICK c \in Clients : served = c
  <2>1. ASSUME served = NoClient PROVE session.state = "none"
    BY <1>1, <2>1 DEF Links, NoSession
  <2>2. served # NoClient
    BY <2>1 DEF PAM, pam_messages_cb, pam_conv_cb, authentication_complete_cb,
                greeter_idle, greeter_reset, SeatTells
  <2> QED BY <1>1, <2>2 DEF DaemonTypes
<1>3. /\ srv \in ServerRecord /\ session \in SessionRecord /\ srv.seq \in Nat /\ cli[c].seq \in Nat
      /\ fromServer[c] \in Seq(FromMessage) /\ Len(fromServer[c]) <= MaxQueue
      /\ (session.state = "none" => session = NoSession)
  BY <1>1, <1>2, ClientFacts DEF DaemonTypes, ServerRecord, QueueTypes, Links
<1>4. ASSUME NEW m \in FromMessage, write_message(m), m.t \notin {"connected", "start", "dir"},
             UNCHANGED <<cli, link, toServer, served, srv, issued, grant>>, session' \in SessionRecord,
             \/ UNCHANGED session /\ m.t # "end"
             \/ /\ session.state \notin {"none", "complete"}
                /\ session'.state # "none" /\ session'.auth = session.auth
                /\ m.t = "end" /\ m.ok =>
                     m.auth[2] = srv.seq /\ session'.state = "complete" /\ session'.ok
      PROVE  GreeterIInv'
  <2>1. PICK fs \in Seq(FromMessage) :
           /\ fromServer' = [fromServer EXCEPT ![c] = fs] /\ fromServer'[c] = fs
           /\ Len(fs) <= MaxQueue
           /\ fs = IF cli[c].gone THEN fromServer[c] ELSE Append(fromServer[c], m)
    BY <1>1, <1>2, <1>4, WriteFacts
  <2>2. Matched(c)'
    BY <1>2, <1>4, <2>1, TellMatched
  <2>3. ASSUME NEW d \in Shots, HasRead(c, d) PROVE HasRead(c, d)'
    <3>1. CASE UNCHANGED session /\ m.t # "end"
      BY <1>1, <1>2, <1>3, <1>4, <2>1, <2>3, <3>1, HasReadSame
    <3>2. CASE /\ session.state \notin {"none", "complete"}
               /\ session'.state # "none" /\ session'.auth = session.auth
               /\ m.t = "end" /\ m.ok =>
                    m.auth[2] = srv.seq /\ session'.state = "complete" /\ session'.ok
      BY <1>1, <1>2, <1>3, <1>4, <2>1, <2>3, <3>2, PAMRead
    <3> QED BY <1>4, <3>1, <3>2
  <2>4. session'.state = "none" => session' = NoSession
    BY <1>3, <1>4
  <2>5. served = c /\ srv' \in ServerRecord
    BY <1>2, <1>3, <1>4
  <2> QED BY <1>2, <1>4, <2>1, <2>2, <2>3, <2>4, <2>5, TellDone
<1>5. ASSUME NEW n \in 0..MaxPrompts, pam_messages_cb(n) PROVE GreeterIInv'
  <2> DEFINE m == [t |-> "prompt", auth |-> <<c, srv.seq>>, n |-> n]
             q == IF n > 0 THEN session.replies
                  ELSE Append(session.replies, [error |-> FALSE, given |-> session.auth, late |-> FALSE])
  <2>1. /\ session.state = "running" /\ write_message(m)
        /\ session' = [session EXCEPT !.state = "asking", !.asks = @ + 1, !.prompts = n, !.replies = q]
        /\ UNCHANGED <<cli, link, toServer, served, srv, issued, grant>>
    BY <1>2, <1>5 DEF pam_messages_cb, histVars
  <2>2. m \in FromMessage /\ m.t = "prompt"
    BY <1>2, <1>3 DEF FromMessage, Auths
  <2>3. q \in Seq(Reply)
    <3>1. session.replies \in Seq(Reply) /\ [error |-> FALSE, given |-> session.auth, late |-> FALSE] \in Reply
      BY <1>3 DEF SessionRecord, Reply
    <3> QED BY <3>1, AppendFacts
  <2>4. n \in Nat /\ session.asks + 1 \in Nat
    BY <1>3, GreeterAssumption DEF SessionRecord
  <2> HIDE DEF m, q
  <2>5. session' \in SessionRecord /\ session'.state = "asking" /\ session'.auth = session.auth
    BY <1>3, <2>1, <2>3, <2>4 DEF SessionRecord
  <2> QED BY <1>4, <2>1, <2>2, <2>5
<1>6. ASSUME NEW ok \in BOOLEAN, NEW user \in BOOLEAN, authentication_complete_cb(ok, user)
      PROVE  GreeterIInv'
  <2> DEFINE m == [t |-> "end", auth |-> <<c, srv.seq>>, ok |-> ok /\ user]
  <2>1. /\ session.state \notin {"none", "complete"} /\ write_message(m)
        /\ session' = [session EXCEPT !.state = "complete", !.ok = ok]
        /\ UNCHANGED <<cli, link, toServer, served, srv, issued, grant>>
    BY <1>2, <1>6 DEF authentication_complete_cb, send_end_authentication, histVars
  <2>2. m \in FromMessage /\ m.t = "end" /\ m.auth[2] = srv.seq /\ (m.ok => ok)
    BY <1>2, <1>3 DEF FromMessage, Auths
  <2> HIDE DEF m
  <2>3. /\ session' \in SessionRecord /\ session'.state = "complete" /\ session'.auth = session.auth
        /\ session'.ok = ok
    BY <1>3, <2>1 DEF SessionRecord
  <2> QED BY <1>4, <2>1, <2>2, <2>3
<1>7. CASE greeter_idle \/ greeter_reset
  <2>1. PICK t \in {"idle", "reset"} :
          /\ write_message([t |-> t])
          /\ UNCHANGED <<cli, link, toServer, served, srv, session, issued, grant>>
    BY <1>7 DEF greeter_idle, greeter_reset, SeatTells, srvVars, histVars
  <2> DEFINE m == [t |-> t]
  <2>2. m \in FromMessage /\ m.t = t
    BY DEF FromMessage
  <2>3. write_message(m)
    BY <2>1
  <2> HIDE DEF m
  <2> QED BY <1>3, <1>4, <2>1, <2>2, <2>3
<1>8. CASE pam_conv_cb
  <2> DEFINE r == Head(session.replies)
  <2>1. /\ session.state = "asking" /\ session.replies # <<>>
        /\ session' = [session EXCEPT !.replies = Tail(@), !.state = IF r.error THEN "failing" ELSE "running"]
        /\ UNCHANGED <<cli, link, toServer, fromServer, served, srv, issued, grant>>
    BY <1>8 DEF pam_conv_cb, netVars
  <2>2. Tail(session.replies) \in Seq(Reply)
    BY <1>3, <2>1, TailFacts DEF SessionRecord
  <2>3. /\ session' \in SessionRecord /\ session'.state # "none" /\ session'.auth = session.auth
    BY <1>3, <2>1, <2>2 DEF SessionRecord
  <2>4. /\ fromServer' = [fromServer EXCEPT ![c] = fromServer[c]] /\ fromServer'[c] = fromServer[c]
    BY <1>1, <1>2, <2>1 DEF QueueTypes
  <2>5. served = c /\ UNCHANGED served
    BY <1>2, <2>1
  <2>6. Matched(c)'
    BY <1>2, <2>1, <2>4, TellMatched
  <2>7. ASSUME NEW d \in Shots, HasRead(c, d) PROVE HasRead(c, d)'
    BY <1>1, <1>2, <1>3, <2>1, <2>3, <2>4, <2>7, PAMRead
  <2> QED BY <1>2, <1>3, <2>1, <2>3, <2>4, <2>5, <2>6, <2>7, TellDone
<1> QED BY <1>5, <1>6, <1>7, <1>8 DEF PAM

(* The socket: a greeter is served, refused or dropped.                    *)
LEMMA SocketStep ==
  ASSUME GreeterIInv, greeter_disconnected_cb \/ \E c \in Clients : greeter_connect_cb(c)
  PROVE  GreeterIInv'
<1>1. /\ QueueTypes /\ ClientTypes /\ DaemonTypes /\ Links /\ Prompts /\ StartsWhatWasAsked
      /\ \A x \in Clients : Conversation(x) /\ Matched(x)
  BY DEF GreeterIInv
<1>2. /\ NoSession \in SessionRecord /\ NoSession.state = "none"
      /\ NewServer \in ServerRecord /\ NewServer.guest = NoAuth
  BY GreeterAssumption DEF NoSession, SessionRecord, NoAuth, Auths, NewServer, ServerRecord
<1>3. ASSUME NEW c \in Clients, greeter_connect_cb(c) PROVE GreeterIInv'
  <2>1. link[c] = "pending" /\ UNCHANGED <<cli, fromServer, srv, session, issued, grant>>
    BY <1>3 DEF greeter_connect_cb, histVars
  <2>2. CASE served = NoClient
    <3>1. link' = [link EXCEPT ![c] = "open"] /\ served' = c /\ UNCHANGED toServer
      BY <1>3, <2>2 DEF greeter_connect_cb
    <3>2. ClientTypes' /\ QueueTypes' /\ DaemonTypes' /\ Prompts' /\ StartsWhatWasAsked'
      BY <1>1, <2>1, <3>1 DEF ClientTypes, QueueTypes, DaemonTypes, Prompts, StartsWhatWasAsked
    <3>3. Links'
      BY <1>1, <2>1, <2>2, <3>1, GreeterAssumption DEF Links, ClientTypes
    <3>4. ASSUME NEW x \in Clients PROVE Conversation(x)' /\ Matched(x)'
      <4>1. CASE x # c
        <5>1. link'[x] = link[x]
          BY <1>1, <3>1, <4>1 DEF ClientTypes
        <5> QED BY <2>1, <3>1, <4>1, <5>1, Bystander
      <4>2. CASE x = c
        <5>1. ASSUME NEW d \in Shots PROVE HasRead(c, d)'
          BY <1>1, <1>2, <2>1, <2>2, <3>1 DEF HasRead, Links
        <5>2. Conversation(c)'
          <6>1. Shot(c)' = Shot(c)
            BY <2>1 DEF Shot
          <6> QED BY <1>1, <3>1, <5>1, <6>1, ConvSame
        <5>3. Matched(c)'
          BY <1>1, <2>1, <3>1, MatchStep
        <5> QED BY <4>2, <5>2, <5>3
      <4> QED BY <4>1, <4>2
    <3> QED BY <3>2, <3>3, <3>4 DEF GreeterIInv
  <2>3. CASE served # NoClient
    <3>1. link' = [link EXCEPT ![c] = "refused"] /\ toServer' = [toServer EXCEPT ![c] = <<>>]
          /\ UNCHANGED served
      BY <1>3, <2>3 DEF greeter_connect_cb
    <3>2. ClientTypes' /\ DaemonTypes' /\ Prompts' /\ StartsWhatWasAsked'
      BY <1>1, <2>1, <3>1 DEF ClientTypes, DaemonTypes, Prompts, StartsWhatWasAsked
    <3>3. QueueTypes'
      <4>1. <<>> \in Seq(ToMessage) /\ Len(<<>>) <= MaxQueue
        BY GreeterAssumption
      <4> QED BY <1>1, <2>1, <3>1, <4>1 DEF QueueTypes
    <3>4. Links' /\ served # c
      BY <1>1, <2>1, <3>1 DEF Links, ClientTypes
    <3>5. ASSUME NEW x \in Clients PROVE Conversation(x)' /\ Matched(x)'
      <4>1. CASE x # c
        <5>1. link'[x] = link[x] /\ toServer'[x] = toServer[x]
          BY <1>1, <3>1, <4>1 DEF ClientTypes, QueueTypes
        <5> QED BY <2>1, <3>1, <4>1, <5>1, Bystander
      <4>2. CASE x = c
        <5>1. Conversation(c)'
          <6>1. Shot(c) \in Shots /\ Shot(c)' = Shot(c)
            BY <1>1, <2>1, ShotFacts DEF Shot
          <6>2. toServer'[c] = <<>>
            BY <1>1, <3>1 DEF QueueTypes
          <6>3. Leads(c, toServer'[c], Shot(c)', Shot(c)')
            BY <6>1, <6>2, LeadsEmpty
          <6>4. served' # c
            BY <3>1, <3>4
          <6> QED BY <6>1, <6>3, <6>4 DEF Conversation
        <5>2. Matched(c)'
          <6>1. link'[c] = "refused"
            BY <1>1, <3>1 DEF ClientTypes
          <6> QED BY <1>1, <2>1, <6>1 DEF Matched
        <5> QED BY <4>2, <5>1, <5>2
      <4> QED BY <4>1, <4>2
    <3> QED BY <3>2, <3>3, <3>4, <3>5 DEF GreeterIInv
  <2> QED BY <2>2, <2>3
<1>4. CASE greeter_disconnected_cb
  <2>1. /\ served \in Clients /\ cli[served].gone /\ link' = [link EXCEPT ![served] = "closed"]
        /\ served' = NoClient /\ srv' = NewServer /\ session' = NoSession
        /\ UNCHANGED <<cli, toServer, fromServer, issued, grant>>
    BY <1>1, <1>4 DEF greeter_disconnected_cb, histVars, DaemonTypes
  <2>2. ClientTypes' /\ QueueTypes' /\ DaemonTypes' /\ Prompts' /\ StartsWhatWasAsked'
    BY <1>1, <1>2, <2>1 DEF ClientTypes, QueueTypes, DaemonTypes, Prompts, StartsWhatWasAsked
  <2>3. Links'
    BY <1>1, <2>1, GreeterAssumption DEF Links, ClientTypes
  <2>4. ASSUME NEW x \in Clients PROVE Conversation(x)' /\ Matched(x)'
    <3>1. Conversation(x)'
      <4>1. Shot(x)' = Shot(x) /\ served' # x
        BY <2>1, GreeterAssumption DEF Shot
      <4> QED BY <1>1, <2>1, <4>1, ConvSame
    <3>2. Matched(x)'
      <4>1. link'[x] \notin {"refused", "closed"} => link[x] \notin {"refused", "closed"}
        BY <1>1, <2>1 DEF ClientTypes
      <4> QED BY <1>1, <2>1, <4>1, MatchStep
    <3> QED BY <3>1, <3>2
  <2> QED BY <2>2, <2>3, <2>4 DEF GreeterIInv
<1> QED BY <1>3, <1>4

----------------------------------------------------------------------------
(* The theorems                                                            *)

(* The invariant holds before anything has been said.                      *)
LEMMA GreeterInitIInv == GreeterInit => GreeterIInv
<1> SUFFICES ASSUME GreeterInit PROVE GreeterIInv
  OBVIOUS
<1>1. NewClient \in ClientRecord /\ NewClient.requests = [k \in Kinds |-> <<>>]
      /\ ~NewClient.is_auth /\ ~NewClient.crossed
      /\ NewClient.waiting = 0 /\ NewClient.received = 0 /\ NewClient.show = 0
      /\ NewClient.seq = 0 /\ NewClient.sent = 0
  BY DEF NewClient, ClientRecord
<1>2. ClientTypes /\ Prompts
  BY <1>1, GreeterAssumption DEF GreeterInit, ClientTypes, Prompts, Fit
<1>3. QueueTypes
  <2>1. Len(<<>>) <= MaxQueue
    BY GreeterAssumption
  <2> QED BY <2>1 DEF GreeterInit, QueueTypes
<1>4. DaemonTypes
  BY GreeterAssumption DEF GreeterInit, DaemonTypes, NoSession, SessionRecord, NoAuth, Auths, NewServer, ServerRecord
<1>5. Links
  BY <1>1, GreeterAssumption DEF GreeterInit, Links
<1>6. StartsWhatWasAsked
  BY DEF GreeterInit, StartsWhatWasAsked, NoGrant
<1>7. ASSUME NEW c \in Clients PROVE Conversation(c)
  <2>1. toServer[c] = <<>> /\ served # c
    BY GreeterAssumption DEF GreeterInit
  <2>2. Shot(c) \in Shots
    BY <1>2, ShotFacts
  <2> QED BY <2>1, <2>2, LeadsEmpty DEF Conversation
<1>8. ASSUME NEW c \in Clients PROVE Matched(c)
  <2>1. toServer[c] = <<>> /\ fromServer[c] = <<>> /\ cli[c] = NewClient
    BY DEF GreeterInit
  <2>2. ASSUME NEW kind \in Kinds PROVE InStep(kind, <<>>, <<>>, <<>>, issued)
    BY DEF InStep, InOrder, UnderWay, Asked, Replied
  <2> QED BY <1>1, <2>1, <2>2 DEF Matched
<1> QED BY <1>2, <1>3, <1>4, <1>5, <1>6, <1>7, <1>8 DEF GreeterIInv

(* Every step of either process, of PAM and of the seat preserves it.      *)
LEMMA GreeterNextIInv == GreeterIInv /\ [GreeterNext]_greeterVars => GreeterIInv'
<1> SUFFICES ASSUME GreeterIInv, [GreeterNext]_greeterVars PROVE GreeterIInv'
  OBVIOUS
<1>1. CASE UNCHANGED greeterVars
  BY ZenonT(60), <1>1 DEF greeterVars, netVars, srvVars, histVars, GreeterIInv, ClientTypes, QueueTypes, DaemonTypes,
              Prompts, Links, StartsWhatWasAsked, Conversation, Matched, HasRead, Shot
<1>2. ASSUME NEW c \in Clients, Application(c) PROVE GreeterIInv'
  <2>1. ASSUME NEW kind \in AuthKinds, NEW ok \in BOOLEAN, authenticate(c, kind, ok) PROVE GreeterIInv'
    BY <2>1, AuthenticateStep
  <2>2. ASSUME NEW ok \in BOOLEAN,
               \/ lightdm_greeter_authenticate(c, ok) \/ lightdm_greeter_authenticate_as_guest(c, ok)
               \/ lightdm_greeter_authenticate_remote(c, ok) \/ lightdm_greeter_authenticate_autologin(c, ok)
        PROVE  GreeterIInv'
    BY <2>1, <2>2 DEF lightdm_greeter_authenticate, lightdm_greeter_authenticate_as_guest,
                      lightdm_greeter_authenticate_remote, lightdm_greeter_authenticate_autologin, AuthKinds
  <2> QED BY <1>2, <2>2, RequestsStep, CallStep DEF Application
<1>3. ASSUME NEW c \in Clients, handle_message(c) \/ show_prompt(c) \/ greeter_connect_cb(c)
      PROVE  GreeterIInv'
  BY <1>3, MessageStep, CallStep, SocketStep
<1>4. CASE read_cb
  <2>1. CASE greeter_disconnected_cb
    BY <2>1, SocketStep
  <2>2. CASE ~greeter_disconnected_cb
    <3>1. served \in Clients
      BY <1>4, <2>2 DEF read_cb, handle_authenticate_as_guest, handle_authenticate_remote,
            handle_start_session, handle_connect, handle_authenticate, handle_continue_authentication,
            handle_cancel_authentication, handle_set_language, handle_ensure_shared_dir, Reads,
            GreeterIInv, DaemonTypes
    <3>2. PICK c \in Clients : served = c
      BY <3>1
    <3> QED BY <1>4, <2>2, <3>2, AuthHandlers, EndHandlers, OtherHandlers DEF read_cb
  <2> QED BY <2>1, <2>2
<1>5. CASE PAM \/ greeter_idle \/ greeter_reset
  BY <1>5, PAMStep
<1> QED BY <1>1, <1>2, <1>3, <1>4, <1>5 DEF GreeterNext

(* The conversation of a greeter with the daemon keeps the invariant: what *)
(* is under way leads from what the daemon has read to what the client has *)
(* asked for, and ids of requests and replies are in order.                *)
THEOREM GreeterInvariant == GreeterSafety => []GreeterIInv
<1>1. GreeterInit => GreeterIInv
  BY GreeterInitIInv
<1>2. GreeterIInv /\ [GreeterNext]_greeterVars => GreeterIInv'
  BY GreeterNextIInv
<1> QED BY <1>1, <1>2, PTL DEF GreeterSafety

(* A session is started only for the authentication that was the greeter's *)
(* last when it asked (handle_start_session, src/greeter.c).               *)
THEOREM GreeterStarts == GreeterSafety => []StartsWhatWasAsked
<1>1. GreeterIInv => StartsWhatWasAsked
  BY DEF GreeterIInv
<1> QED BY <1>1, GreeterInvariant, PTL

(* A greeter that has been told that its user is authenticated can start   *)
(* the session once nothing is under way (handle_end_authentication,       *)
(* liblightdm-gobject/greeter.c, and authentication_complete_cb).          *)
THEOREM GreeterBelieves == GreeterSafety => []BelievedIsTrue
<1>1. GreeterIInv => BelievedIsTrue
  <2> SUFFICES ASSUME GreeterIInv, NEW c \in Clients,
                      cli[c].is_auth, ~cli[c].cancelled, ~cli[c].asked, ~cli[c].gone,
                      toServer[c] = <<>>, fromServer[c] = <<>>
               PROVE  /\ served = c
                      /\ srv.guest = Auth(c) \/ (session_get_is_authenticated /\ session.auth = Auth(c))
    BY DEF BelievedIsTrue
  <2>1. ClientTypes /\ Links /\ Conversation(c)
    BY DEF GreeterIInv
  <2>2. served = c
    BY <2>1 DEF Links, ClientTypes
  <2>3. PICK d \in Shots : Leads(c, toServer[c], d, Shot(c)) /\ HasRead(c, d)
    BY <2>1, <2>2 DEF Conversation
  <2>4. Shot(c) \in Shots
    BY <2>1, ShotFacts
  <2>5. d = Shot(c)
    <3>1. Leads(c, <<>>, d, Shot(c))
      BY <2>3
    <3> QED BY <2>4, <3>1, LeadsEmpty
  <2>6. d.seq = cli[c].seq /\ ~d.cancelled /\ ~d.asked
    BY <2>5, BelievedSent DEF Shot
  <2>7. Agrees(srv, session, c, cli[c].seq)
    BY <2>3, <2>6 DEF HasRead, Reliable
  <2> QED BY <2>2, <2>7 DEF Agrees, Auth, session_get_is_authenticated
<1> QED BY <1>1, GreeterInvariant, PTL

(* The queues and counters stay within their bounds, and every reply       *)
(* completes the request that it answers (handle_connected,                *)
(* handle_session_result and handle_shared_dir_result,                     *)
(* liblightdm-gobject/greeter.c).                                          *)
THEOREM GreeterReplies == GreeterSafety => []GreeterInv
<1>1. GreeterIInv => GreeterTypeOK
  <2> SUFFICES ASSUME GreeterIInv PROVE GreeterTypeOK
    OBVIOUS
  <2>1. ClientTypes /\ QueueTypes /\ DaemonTypes /\ Prompts
    BY DEF GreeterIInv
  <2>2. /\ link \in [Clients -> {"none", "pending", "open", "refused", "closed"}]
        /\ served \in Clients \union {NoClient} /\ issued \in 0..MaxRequests
    BY <2>1 DEF ClientTypes, DaemonTypes
  <2>3. session.state \in {"none", "running", "asking", "failing", "complete", "failed"}
    BY <2>1 DEF DaemonTypes, SessionRecord
  <2>4. ASSUME NEW c \in Clients
        PROVE  /\ cli[c].sent \in 0..cli[c].seq
               /\ ~cli[c].late => cli[c].waiting + cli[c].received + cli[c].show <= MaxPrompts
    <3>1. cli[c].sent \in Nat /\ cli[c].seq \in Nat /\ Fit(cli[c])
      BY <2>1 DEF ClientTypes, ClientRecord, Prompts
    <3> QED BY <3>1 DEF Fit
  <2> QED BY <2>1, <2>2, <2>3, <2>4 DEF GreeterTypeOK, QueueTypes
<1>2. GreeterIInv => RepliesMatch
  BY DEF GreeterIInv, Matched, RepliesMatch
<1> QED BY <1>1, <1>2, GreeterInvariant, PTL DEF GreeterInv

----------------------------------------------------------------------------
(* Answers.  q and f are the queues to and from the daemon, r is what the  *)
(* client knows, and x the session the daemon has for it, if any.          *)
Begins(q) == {i \in 1..Len(q) : q[i].t \in AuthKinds}
Gives(q) == {i \in 1..Len(q) : q[i].t = "continue"}
Timely(q) == {i \in Gives(q) : ~q[i].late}
Prompting(f, k) == {j \in 1..Len(f) : f[j].t = "prompt" /\ f[j].auth[2] = k}
Open(r) == r.waiting + r.received + r.show

SessionOf(c) == IF served = c THEN session ELSE NoSession

(* The session can still succeed, or has.                                  *)
Alive(x) == x.state \in {"running", "asking"} \/ (x.state = "complete" /\ x.ok)

(* Authentications the daemon has not read of are numbered upwards to the  *)
(* client's last, and there are no prompts for them yet.                   *)
Numbered(c, r, q, f) ==
  /\ \A i \in Begins(q) :
       /\ q[i].auth[1] = c /\ q[i].auth[2] <= r.sent /\ r.believed < q[i].auth[2]
       /\ \A j \in 1..Len(f) : f[j].t = "prompt" => f[j].auth[2] < q[i].auth[2]
  /\ \A i, j \in Begins(q) : i < j => q[i].auth[2] < q[j].auth[2]
  /\ Begins(q) # {} => \E i \in Begins(q) : q[i].auth[2] = r.sent
  /\ r.prompt = r.believed /\ r.believed <= r.sent
  /\ \A j \in 1..Len(f) : f[j].t = "prompt" => f[j].auth[2] <= r.sent

(* The session is the one of the last authentication the daemon has read   *)
(* of.                                                                     *)
Current(c, r, q, x) ==
  x.state # "none" =>
    /\ x.auth[1] = c /\ x.auth[2] <= r.sent
    /\ \A i \in Begins(q) : x.auth[2] < q[i].auth[2]
    /\ Begins(q) = {} => x.auth[2] = r.sent

(* Once an answer was late all are; one that is not is read before the     *)
(* next authentication, and is for the session there is.                   *)
Given(r, q, x) ==
  /\ \A i \in Gives(q) : q[i].n > 0 /\ (q[i].late => r.late)
  /\ \A i, j \in Gives(q) : i < j /\ q[i].late => q[j].late
  /\ \A i \in Timely(q) :
       (\A j \in Begins(q) : i < j) /\ (x.state # "none" => q[i].auth = x.auth)

(* What PAM asked is in one place: the message with the prompts, the       *)
(* client that shows them and waits, or the message with the answers.      *)
OnePlace(r, q, f, x) ==
  Alive(x) =>
    /\ \A i \in Timely(q) : q[i].n = x.prompts
    /\ \A i, j \in Timely(q) : i = j
    /\ ~r.late /\ r.believed = x.auth[2] /\ Open(r) > 0 =>
         Open(r) = x.prompts /\ Timely(q) = {} /\ Prompting(f, x.auth[2]) = {}
    /\ ~r.late =>
         \A j \in Prompting(f, x.auth[2]) :
           f[j].n > 0 =>
             f[j].n = x.prompts /\ Timely(q) = {} /\ \A l \in Prompting(f, x.auth[2]) : l <= j

(* The answers in the pipe to the session's child: one at most can be      *)
(* taken, and only while PAM waits for it.                                 *)
InPipe(x) ==
  /\ x.state # "none" => \A i \in 1..Len(x.replies) : x.replies[i].late \/ x.replies[i].given = x.auth
  /\ Alive(x) =>
       /\ \A i \in 1..Len(x.replies) : x.replies[i].error => x.replies[i].late
       /\ \A i, j \in 1..Len(x.replies) : ~x.replies[i].error /\ ~x.replies[j].error => i = j
       /\ x.state # "asking" => x.prompts = 0
       /\ x.state # "asking" \/ x.prompts > 0 => \A i \in 1..Len(x.replies) : x.replies[i].error

Talk(c, r, q, f, x) == Numbered(c, r, q, f) /\ Current(c, r, q, x) /\ Given(r, q, x) /\ OnePlace(r, q, f, x)

(* The last answer that was taken.                                         *)
Taken == answer.late \/ answer.given = answer.auth

AnswerIInv ==
  /\ \A c \in Clients : Talk(c, cli[c], toServer[c], fromServer[c], SessionOf(c))
  /\ InPipe(session) /\ Taken

----------------------------------------------------------------------------
(* Facts about answers                                                     *)

(* What the places in a queue are, and what lies there.                    *)
LEMMA PlaceFacts ==
  ASSUME NEW q \in Seq(ToMessage), NEW f \in Seq(FromMessage)
  PROVE  /\ \A i \in Begins(q) : i \in Nat \ {0} /\ i <= Len(q) /\ q[i].auth[2] \in Nat
         /\ \A i \in Gives(q) : i \in Nat \ {0} /\ i <= Len(q) /\ q[i].n \in Nat /\ q[i].late \in BOOLEAN
         /\ Begins(q) \intersect Gives(q) = {}
         /\ \A j \in 1..Len(f) : f[j].t = "prompt" => f[j].auth[2] \in Nat /\ f[j].n \in Nat
         /\ Len(q) \in Nat /\ Len(f) \in Nat
<1>1. ASSUME NEW i \in 1..Len(q), q[i].t \in AuthKinds PROVE q[i].auth[2] \in Nat
  BY <1>1, MessageFacts DEF Auths
<1>2. ASSUME NEW i \in 1..Len(q), q[i].t = "continue" PROVE q[i].n \in Nat /\ q[i].late \in BOOLEAN
  BY <1>2, MessageFacts
<1>3. ASSUME NEW j \in 1..Len(f), f[j].t = "prompt" PROVE f[j].auth[2] \in Nat /\ f[j].n \in Nat
  BY <1>3, MessageFacts, GreeterAssumption DEF Auths
<1>4. Len(q) \in Nat /\ Len(f) \in Nat
  OBVIOUS
<1> QED BY <1>1, <1>2, <1>3, <1>4 DEF Begins, Gives, AuthKinds

(* p is q with m behind it, or without its head.                           *)
IsPut(p, q, m) == p = Append(q, m)
IsRest(p, q) == q # <<>> /\ p = Tail(q)

(* Places move by one when the head is taken.                              *)
LEMMA PlaceTail ==
  ASSUME NEW q \in Seq(ToMessage), NEW p, IsRest(p, q)
  PROVE  /\ \A i \in Begins(p) : i + 1 \in Begins(q) /\ p[i] = q[i + 1]
         /\ \A i \in Begins(q) : i # 1 => i - 1 \in Begins(p) /\ p[i - 1] = q[i]
         /\ \A i \in Gives(p) : i + 1 \in Gives(q) /\ p[i] = q[i + 1]
         /\ \A i \in Timely(p) : i + 1 \in Timely(q) /\ p[i] = q[i + 1]
         /\ 1 \in Begins(q) <=> q[1].t \in AuthKinds
         /\ 1 \in Gives(q) <=> q[1].t = "continue"
         /\ Head(q) = q[1] /\ p \in Seq(ToMessage)
BY TailFacts DEF IsRest, Begins, Gives, Timely

(* The same for prompts.                                                   *)
LEMMA PromptTail ==
  ASSUME NEW f \in Seq(FromMessage), NEW p, IsRest(p, f)
  PROVE  /\ \A k : \A j \in Prompting(p, k) : j + 1 \in Prompting(f, k) /\ p[j] = f[j + 1]
         /\ \A k : \A j \in Prompting(f, k) : j # 1 => j - 1 \in Prompting(p, k) /\ p[j - 1] = f[j]
         /\ \A j \in 1..Len(p) : j + 1 \in 1..Len(f) /\ p[j] = f[j + 1]
         /\ \A k : 1 \in Prompting(f, k) <=> f[1].t = "prompt" /\ f[1].auth[2] = k
         /\ Head(f) = f[1] /\ p \in Seq(FromMessage)
BY TailFacts DEF IsRest, Prompting

(* Places stay where they are when a message is put behind the others.     *)
LEMMA PlaceAppend ==
  ASSUME NEW q \in Seq(ToMessage), NEW m \in ToMessage, NEW p, IsPut(p, q, m)
  PROVE  LET n == Len(q) + 1 IN
         /\ \A i \in 1..Len(q) : p[i] = q[i]
         /\ p[n] = m /\ n \in Nat \ {0} /\ p \in Seq(ToMessage)
         /\ Begins(p) = IF m.t \in AuthKinds THEN Begins(q) \union {n} ELSE Begins(q)
         /\ Gives(p) = IF m.t = "continue" THEN Gives(q) \union {n} ELSE Gives(q)
         /\ Timely(p) = IF m.t = "continue" /\ ~m.late THEN Timely(q) \union {n} ELSE Timely(q)
         /\ \A i \in Begins(q) : p[i] = q[i] /\ i < n
         /\ \A i \in Gives(q) : p[i] = q[i] /\ i < n
         /\ \A i \in Timely(q) : p[i] = q[i] /\ i < n
BY AppendFacts DEF IsPut, Begins, Gives, Timely

(* The same for prompts.                                                   *)
LEMMA PromptAppend ==
  ASSUME NEW f \in Seq(FromMessage), NEW m \in FromMessage, NEW p, IsPut(p, f, m)
  PROVE  LET n == Len(f) + 1 IN
         /\ \A j \in 1..Len(f) : p[j] = f[j]
         /\ p[n] = m /\ n \in Nat \ {0} /\ Len(p) = n /\ p \in Seq(FromMessage)
         /\ \A j \in 1..Len(p) : j \in 1..Len(f) \/ j = n
         /\ \A k : Prompting(p, k) = IF m.t = "prompt" /\ m.auth[2] = k
                                       THEN Prompting(f, k) \union {n} ELSE Prompting(f, k)
         /\ \A k : \A j \in Prompting(f, k) : p[j] = f[j] /\ j < n
BY AppendFacts DEF IsPut, Prompting

(* What a client knows.                                                    *)
LEMMA KnowsFacts ==
  ASSUME NEW r \in ClientRecord
  PROVE  /\ r.seq \in Nat /\ r.sent \in Nat /\ r.believed \in Nat /\ r.prompt \in Nat /\ r.late \in BOOLEAN
         /\ r.waiting \in Nat /\ r.received \in Nat /\ r.show \in Nat
BY DEF ClientRecord

(* A client knows the same of prompts as another.                          *)
Alike(s, r) ==
  /\ s.sent = r.sent /\ s.believed = r.believed /\ s.prompt = r.prompt
  /\ s.late = r.late /\ Open(s) = Open(r)

(* Only some of what the client knows matters.                             *)
LEMMA TalkClient ==
  ASSUME NEW c, NEW r, NEW q, NEW f, NEW x, Talk(c, r, q, f, x), NEW s, Alike(s, r)
  PROVE  Talk(c, s, q, f, x)
<1>1. Numbered(c, s, q, f)
  BY DEF Alike, Talk, Numbered
<1>2. Current(c, s, q, x) /\ Given(s, q, x)
  BY DEF Alike, Talk, Current, Given
<1>3. OnePlace(s, q, f, x)
  BY DEF Alike, Talk, OnePlace
<1> QED BY <1>1, <1>2, <1>3 DEF Talk

(* A session that is dropped, or has failed.                               *)
LEMMA TalkDrop ==
  ASSUME NEW c, NEW r, NEW q, NEW f, NEW x, Talk(c, r, q, f, x), NEW y,
         y.state = "none" \/ (~Alive(y) /\ x.state # "none" /\ y.auth = x.auth)
  PROVE  Talk(c, r, q, f, y)
<1>1. ~Alive(y)
  BY DEF Alive
<1>2. Current(c, r, q, y)
  BY DEF Talk, Current
<1>3. Given(r, q, y)
  BY DEF Talk, Given
<1>4. OnePlace(r, q, f, y)
  BY <1>1 DEF OnePlace
<1> QED BY <1>2, <1>3, <1>4 DEF Talk

(* A session of which nothing changes but its answers.                     *)
LEMMA TalkSession ==
  ASSUME NEW c, NEW r, NEW q, NEW f, NEW x, Talk(c, r, q, f, x), NEW y,
         x.state # "none", Alive(y) => Alive(x), y.auth = x.auth, y.prompts = x.prompts
  PROVE  Talk(c, r, q, f, y)
<1>2. Current(c, r, q, y)
  BY DEF Talk, Current
<1>3. Given(r, q, y)
  BY DEF Talk, Given
<1>4. OnePlace(r, q, f, y)
  BY DEF Talk, OnePlace
<1> QED BY <1>2, <1>3, <1>4 DEF Talk

(* A message that neither begins an authentication nor answers.            *)
LEMMA TalkPut ==
  ASSUME NEW c, NEW r, NEW q \in Seq(ToMessage), NEW f, NEW x, Talk(c, r, q, f, x),
         NEW m \in ToMessage, m.t \notin AuthKinds \union {"continue"}, NEW p, IsPut(p, q, m)
  PROVE  Talk(c, r, p, f, x)
<1>1. /\ Begins(p) = Begins(q) /\ Gives(p) = Gives(q) /\ Timely(p) = Timely(q)
      /\ \A i \in Begins(q) : p[i] = q[i]
      /\ \A i \in Gives(q) : p[i] = q[i]
      /\ \A i \in Timely(q) : p[i] = q[i]
  BY PlaceAppend
<1>2. Numbered(c, r, p, f)
  BY <1>1 DEF Talk, Numbered
<1>3. Current(c, r, p, x) /\ Given(r, p, x)
  BY <1>1 DEF Talk, Current, Given
<1>4. OnePlace(r, p, f, x)
  BY <1>1 DEF Talk, OnePlace
<1> QED BY <1>2, <1>3, <1>4 DEF Talk

(* The client begins another authentication.                               *)
LEMMA TalkBegin ==
  ASSUME NEW c, NEW r \in ClientRecord, NEW q \in Seq(ToMessage), NEW f \in Seq(FromMessage), NEW x,
         x.auth[2] \in Nat,
         Talk(c, r, q, f, x), NEW m \in ToMessage, m.t \in AuthKinds, NEW k \in Nat, k > r.sent,
         m.auth = <<c, k>>, NEW p, IsPut(p, q, m), NEW s, s.sent = k, s.believed = r.believed,
         s.prompt = r.prompt, s.late = r.late, Open(s) = Open(r)
  PROVE  Talk(c, s, p, f, x)
<1> DEFINE n == Len(q) + 1
<1>1. /\ Begins(p) = Begins(q) \union {n} /\ Gives(p) = Gives(q) /\ Timely(p) = Timely(q)
      /\ p[n] = m /\ n \in Nat
      /\ \A i \in Begins(q) : p[i] = q[i] /\ i < n
      /\ \A i \in Gives(q) : p[i] = q[i] /\ i < n
      /\ \A i \in Timely(q) : p[i] = q[i] /\ i < n
  BY PlaceAppend DEF AuthKinds
<1> HIDE DEF n
<1>2. r.sent \in Nat /\ r.believed \in Nat /\ m.auth[1] = c /\ m.auth[2] = k
  BY KnowsFacts
<1>3. /\ \A i \in Begins(q) : i \in Nat /\ q[i].auth[2] \in Nat
      /\ \A j \in 1..Len(f) : f[j].t = "prompt" => f[j].auth[2] \in Nat
  BY PlaceFacts
<1>4. Numbered(c, s, p, f)
  <2>1. ASSUME NEW i \in Begins(p)
        PROVE  /\ p[i].auth[1] = c /\ p[i].auth[2] <= s.sent /\ s.believed < p[i].auth[2]
               /\ \A j \in 1..Len(f) : f[j].t = "prompt" => f[j].auth[2] < p[i].auth[2]
    <3>1. CASE i = n
      BY SMTT(60), <1>1, <1>2, <1>3, <3>1 DEF Talk, Numbered
    <3>2. CASE i # n
      BY SMTT(60), <1>1, <1>2, <1>3, <2>1, <3>2 DEF Talk, Numbered
    <3> QED BY <3>1, <3>2
  <2>2. ASSUME NEW i \in Begins(p), NEW j \in Begins(p), i < j PROVE p[i].auth[2] < p[j].auth[2]
    <3>1. CASE j = n
      <4>1. i \in Begins(q) /\ p[i] = q[i]
        <5>1. ~(n < n)
          BY <1>1
        <5> QED BY <1>1, <2>2, <3>1, <5>1
      <4> QED BY SMTT(60), <1>1, <1>2, <1>3, <3>1, <4>1 DEF Talk, Numbered
    <3>2. CASE j # n
      <4>1. j \in Begins(q) /\ i \in Begins(q) /\ p[i] = q[i] /\ p[j] = q[j]
        BY <1>1, <1>3, <2>2, <3>2
      <4> QED BY <2>2, <4>1 DEF Talk, Numbered
    <3> QED BY <3>1, <3>2
  <2>3. \E i \in Begins(p) : p[i].auth[2] = s.sent
    BY <1>1, <1>2
  <2>4. /\ s.prompt = s.believed /\ s.believed <= s.sent
        /\ \A j \in 1..Len(f) : f[j].t = "prompt" => f[j].auth[2] <= s.sent
    BY SMTT(60), <1>2, <1>3 DEF Talk, Numbered
  <2> QED BY <2>1, <2>2, <2>3, <2>4 DEF Numbered
<1>5. Current(c, s, p, x)
  <2> SUFFICES ASSUME x.state # "none"
               PROVE  /\ x.auth[1] = c /\ x.auth[2] <= s.sent
                      /\ \A i \in Begins(p) : x.auth[2] < p[i].auth[2]
    BY <1>1 DEF Current
  <2>1. /\ x.auth[1] = c /\ x.auth[2] <= r.sent
        /\ \A i \in Begins(q) : x.auth[2] < q[i].auth[2]
    BY DEF Talk, Current
  <2> QED BY SMTT(60), <1>1, <1>2, <2>1
<1>6. Given(s, p, x)
  BY <1>1 DEF Talk, Given
<1>7. OnePlace(s, p, f, x)
  BY <1>1 DEF Talk, OnePlace
<1> QED BY <1>4, <1>5, <1>6, <1>7 DEF Talk

(* The client sends its answers, as late as it knows.                      *)
LEMMA TalkGive ==
  ASSUME NEW c, NEW r \in ClientRecord, NEW q \in Seq(ToMessage), NEW f \in Seq(FromMessage),
         NEW x, x.auth[2] \in Nat, x.prompts \in Nat, x.state # "none" => x.auth = <<c, x.auth[2]>>,
         Talk(c, r, q, f, x), r.waiting = 1,
         NEW m \in ToMessage, m.t = "continue", m.n = r.received + 1, m.auth = <<c, r.prompt>>,
         m.late <=> r.late \/ r.believed # r.seq \/ r.show > 0, r.sent <= r.seq,
         NEW p, IsPut(p, q, m), NEW s, s.sent = r.sent, s.believed = r.believed,
         s.prompt = r.prompt, s.late = m.late, Open(s) = r.show
  PROVE  Talk(c, s, p, f, x)
<1> DEFINE n == Len(q) + 1
<1>0. m.late \in BOOLEAN /\ m.t \notin AuthKinds
  BY MessageFacts DEF AuthKinds
<1>1. /\ Begins(p) = Begins(q) /\ Gives(p) = Gives(q) \union {n}
      /\ Timely(p) = IF ~m.late THEN Timely(q) \union {n} ELSE Timely(q)
      /\ p[n] = m /\ n \in Nat
      /\ \A i \in Begins(q) : p[i] = q[i] /\ i < n
      /\ \A i \in Gives(q) : p[i] = q[i] /\ i < n
      /\ \A i \in Timely(q) : p[i] = q[i] /\ i < n
  BY SMTT(60), <1>0, PlaceAppend
<1> HIDE DEF n
<1>2. /\ r.sent \in Nat /\ r.seq \in Nat /\ r.believed \in Nat /\ r.received \in Nat /\ r.show \in Nat /\ r.late \in BOOLEAN
      /\ Open(r) = r.received + 1 + r.show
  BY KnowsFacts DEF Open
<1>3. /\ \A i \in Begins(q) : i \in Nat /\ q[i].auth[2] \in Nat
      /\ \A i \in Gives(q) : i \in Nat /\ q[i].late \in BOOLEAN
      /\ Timely(q) \subseteq Gives(q) /\ \A i \in Timely(q) : ~q[i].late
  BY PlaceFacts DEF Timely
<1>4. r.late => s.late
  BY <1>0, <1>2
<1>5. ASSUME ~m.late
      PROVE  /\ ~r.late /\ r.believed = r.sent /\ r.show = 0 /\ Begins(q) = {}
             /\ x.state # "none" => m.auth = x.auth /\ r.believed = x.auth[2]
             /\ \A i \in Gives(q) : ~q[i].late
  <2>1. ~r.late /\ r.believed = r.sent /\ r.show = 0
    <3>1. ~r.late /\ r.believed = r.seq /\ r.show = 0
      BY SMTT(60), <1>2, <1>5
    <3>2. r.believed <= r.sent
      BY DEF Talk, Numbered
    <3> QED BY <1>2, <3>1, <3>2
  <2>2. Begins(q) = {}
    BY <1>2, <1>3, <2>1 DEF Talk, Numbered
  <2>3. r.prompt = r.believed
    BY DEF Talk, Numbered
  <2>4. x.state # "none" => m.auth = x.auth /\ r.believed = x.auth[2]
    BY <2>1, <2>2, <2>3 DEF Talk, Current
  <2>5. \A i \in Gives(q) : ~q[i].late
    BY <2>1 DEF Talk, Given
  <2> QED BY <2>1, <2>2, <2>4, <2>5
<1>6. Numbered(c, s, p, f)
  BY SMTT(60), <1>1 DEF Talk, Numbered
<1>7. Current(c, s, p, x)
  BY <1>1 DEF Talk, Current
<1>8. Given(s, p, x)
  <2>1. ASSUME NEW i \in Gives(p) PROVE p[i].n > 0 /\ (p[i].late => s.late)
    <3>1. CASE i = n
      BY <1>1, <1>2, <3>1
    <3>2. CASE i # n
      BY <1>1, <1>4, <2>1, <3>2 DEF Talk, Given
    <3> QED BY <3>1, <3>2
  <2>2. ASSUME NEW i \in Gives(p), NEW j \in Gives(p), i < j, p[i].late PROVE p[j].late
    <3>1. CASE j = n
      <4>1. i \in Gives(q) /\ p[i] = q[i]
        <5>1. ~(n < n)
          BY <1>1
        <5> QED BY <1>1, <2>2, <3>1, <5>1
      <4>2. q[i].late
        BY <2>2, <4>1
      <4> QED BY ZenonT(60), <1>0, <1>1, <1>5, <3>1, <4>1, <4>2
    <3>2. CASE j # n
      <4>1. j \in Gives(q) /\ i \in Gives(q) /\ p[i] = q[i] /\ p[j] = q[j]
        BY <1>1, <1>3, <2>2, <3>2
      <4> QED BY <2>2, <4>1 DEF Talk, Given
    <3> QED BY <3>1, <3>2
  <2>3. ASSUME NEW i \in Timely(p)
        PROVE  (\A j \in Begins(p) : i < j) /\ (x.state # "none" => p[i].auth = x.auth)
    <3>1. CASE i = n
      <4>1. ~m.late
        BY <1>1, <2>3, <3>1
      <4> QED BY <1>1, <1>5, <3>1, <4>1
    <3>2. CASE i # n
      <4>1. i \in Timely(q) /\ p[i] = q[i]
        BY <1>1, <2>3, <3>2
      <4> QED BY <1>1, <4>1 DEF Talk, Given
    <3> QED BY <3>1, <3>2
  <2> QED BY <2>1, <2>2, <2>3 DEF Given
<1>9. OnePlace(s, p, f, x)
  <2>1. CASE ~Alive(x)
    BY <2>1 DEF OnePlace
  <2>2. CASE Alive(x) /\ m.late
    <3>1. Timely(p) = Timely(q) /\ s.late
      BY <1>1, <2>2
    <3>2. \A i \in Timely(p) : p[i] = q[i]
      BY <1>1, <3>1
    <3> QED BY <2>2, <3>1, <3>2 DEF Talk, OnePlace
  <2>3. CASE Alive(x) /\ ~m.late
    <3>1. x.state # "none"
      BY <2>3 DEF Alive
    <3>2. /\ ~r.late /\ r.believed = x.auth[2] /\ r.show = 0 /\ Open(r) > 0 /\ Open(r) = m.n
      BY <1>2, <1>5, <2>3, <3>1
    <3>3. Open(r) = x.prompts /\ Timely(q) = {} /\ Prompting(f, x.auth[2]) = {}
      BY <2>3, <3>2 DEF Talk, OnePlace
    <3>4. Timely(p) = {n} /\ p[n].n = x.prompts /\ ~(Open(s) > 0)
      BY <1>1, <2>3, <3>2, <3>3
    <3> QED BY <3>3, <3>4 DEF OnePlace
  <2> QED BY <2>1, <2>2, <2>3
<1> QED BY <1>6, <1>7, <1>8, <1>9 DEF Talk

(* The client takes a message that it does not show.                       *)
LEMMA TalkTake ==
  ASSUME NEW c, NEW r, NEW q, NEW f \in Seq(FromMessage), NEW x, Talk(c, r, q, f, x),
         NEW p, IsRest(p, f)
  PROVE  Talk(c, r, q, p, x)
<1>1. /\ \A j \in 1..Len(p) : j + 1 \in 1..Len(f) /\ p[j] = f[j + 1]
      /\ \A k : \A j \in Prompting(p, k) : j + 1 \in Prompting(f, k) /\ p[j] = f[j + 1]
      /\ \A k : \A j \in Prompting(p, k) : j \in Nat
  BY PromptTail DEF Prompting
<1>2. Numbered(c, r, q, p)
  BY <1>1 DEF Talk, Numbered
<1>3. OnePlace(r, q, p, x)
  <2> SUFFICES ASSUME Alive(x) PROVE OnePlace(r, q, p, x)
    BY DEF OnePlace
  <2> DEFINE k == x.auth[2]
  <2>1. /\ \A i \in Timely(q) : q[i].n = x.prompts
        /\ \A i, j \in Timely(q) : i = j
        /\ ~r.late /\ r.believed = k /\ Open(r) > 0 =>
             Open(r) = x.prompts /\ Timely(q) = {} /\ Prompting(f, k) = {}
        /\ ~r.late =>
             \A j \in Prompting(f, k) :
               f[j].n > 0 =>
                 f[j].n = x.prompts /\ Timely(q) = {} /\ \A l \in Prompting(f, k) : l <= j
    BY DEF Talk, OnePlace
  <2> HIDE DEF k
  <2>2. Prompting(f, k) = {} => Prompting(p, k) = {}
    BY <1>1
  <2>3. ASSUME ~r.late, NEW j \in Prompting(p, k), p[j].n > 0
        PROVE  p[j].n = x.prompts /\ Timely(q) = {} /\ \A l \in Prompting(p, k) : l <= j
    <3>1. j + 1 \in Prompting(f, k) /\ f[j + 1].n > 0 /\ p[j] = f[j + 1]
      BY <1>1, <2>3
    <3>2. \A l \in Prompting(p, k) : l + 1 <= j + 1
      BY <1>1, <2>1, <2>3, <3>1
    <3>3. \A l \in Prompting(p, k) : l <= j
      BY <1>1, <2>3, <3>2
    <3> QED BY <2>1, <2>3, <3>1, <3>3
  <2> QED BY <2>1, <2>2, <2>3 DEF OnePlace, k
<1> QED BY <1>2, <1>3 DEF Talk

(* The client takes prompts that it shows, for its last authentication.    *)
LEMMA TalkPrompt ==
  ASSUME NEW c, NEW r \in ClientRecord, NEW q \in Seq(ToMessage), NEW f \in Seq(FromMessage), NEW x,
         Talk(c, r, q, f, x), NEW p, IsRest(p, f),
         Head(f).t = "prompt", Head(f).auth[2] = r.sent,
         NEW s, s.sent = r.sent, s.believed = r.sent, s.prompt = r.sent,
         r.late => s.late, ~s.late => Open(s) = Head(f).n
  PROVE  Talk(c, s, q, p, x)
<1>1. /\ \A j \in 1..Len(p) : j + 1 \in 1..Len(f) /\ p[j] = f[j + 1]
      /\ \A k : \A j \in Prompting(p, k) : j + 1 \in Prompting(f, k) /\ p[j] = f[j + 1]
      /\ 1 \in Prompting(f, r.sent) /\ Head(f) = f[1]
  BY PromptTail
<1>8. \A k : \A j \in Prompting(p, k) : j \in Nat \ {0}
  BY DEF Prompting
<1>2. Talk(c, r, q, p, x)
  BY TalkTake
<1>3. r.sent \in Nat /\ f[1].n \in Nat /\ 1 \in 1..Len(f)
  BY <1>1, PlaceFacts, KnowsFacts DEF Prompting
<1>4. Begins(q) = {}
  <2> SUFFICES ASSUME NEW i \in Begins(q) PROVE FALSE
    OBVIOUS
  <2>1. PICK i0 \in Begins(q) : q[i0].auth[2] = r.sent
    BY DEF Talk, Numbered
  <2>2. f[1].auth[2] < q[i0].auth[2]
    BY <1>1, <1>3, <2>1 DEF Talk, Numbered
  <2> QED BY <1>1, <1>3, <2>1, <2>2
<1>5. Numbered(c, s, q, p)
  BY <1>2, <1>3, <1>4 DEF Talk, Numbered
<1>6. Current(c, s, q, x) /\ Given(s, q, x)
  BY DEF Talk, Current, Given
<1>7. OnePlace(s, q, p, x)
  <2> SUFFICES ASSUME Alive(x) PROVE OnePlace(s, q, p, x)
    BY DEF OnePlace
  <2>1. x.state # "none" /\ x.auth[2] = r.sent
    BY <1>4 DEF Talk, Current, Alive
  <2>2. ASSUME ~s.late, Open(s) > 0
        PROVE  Open(s) = x.prompts /\ Timely(q) = {} /\ Prompting(p, r.sent) = {}
    <3>1. f[1].n = x.prompts /\ Timely(q) = {} /\ \A l \in Prompting(f, r.sent) : l <= 1
      BY <1>1, <2>1, <2>2 DEF Talk, OnePlace
    <3>2. ASSUME NEW j \in Prompting(p, r.sent) PROVE FALSE
      <4>1. j + 1 <= 1 /\ j \in Nat \ {0}
        BY <1>1, <1>8, <3>1, <3>2
      <4> QED BY <4>1
    <3>3. Open(s) = x.prompts
      BY <1>1, <2>2, <3>1
    <3>4. Timely(q) = {} /\ Prompting(p, r.sent) = {}
      BY <3>1, <3>2
    <3> QED BY <3>3, <3>4
  <2> QED BY <1>2, <2>1, <2>2 DEF Talk, OnePlace
<1> QED BY <1>5, <1>6, <1>7 DEF Talk

(* The daemon sends a message that is no prompt.                           *)
LEMMA TalkTell ==
  ASSUME NEW c, NEW r, NEW q, NEW f \in Seq(FromMessage), NEW x, Talk(c, r, q, f, x),
         NEW m \in FromMessage, m.t # "prompt", NEW p, IsPut(p, f, m)
  PROVE  Talk(c, r, q, p, x)
<1>1. /\ \A j \in 1..Len(f) : p[j] = f[j]
      /\ \A j \in 1..Len(p) : j \in 1..Len(f) \/ p[j] = m
      /\ \A k : Prompting(p, k) = Prompting(f, k)
      /\ \A k : \A j \in Prompting(f, k) : p[j] = f[j]
  BY PromptAppend
<1>2. \A j \in 1..Len(p) : p[j].t = "prompt" => j \in 1..Len(f) /\ p[j] = f[j]
  BY <1>1
<1>3. Numbered(c, r, q, p)
  BY <1>2 DEF Talk, Numbered
<1>4. OnePlace(r, q, p, x)
  BY <1>1 DEF Talk, OnePlace
<1> QED BY <1>3, <1>4 DEF Talk

(* PAM asks, and the prompts are sent or, when the client is gone, lost.   *)
LEMMA TalkAsk ==
  ASSUME NEW c, NEW r \in ClientRecord, NEW q \in Seq(ToMessage), NEW f \in Seq(FromMessage), NEW x,
         Talk(c, r, q, f, x), InPipe(x), x.state = "running", x.auth[2] \in Nat,
         NEW m \in FromMessage, m.t = "prompt", m.auth = x.auth,
         NEW y, y.state = "asking", y.auth = x.auth, y.prompts = m.n,
         NEW p, p = f \/ IsPut(p, f, m)
  PROVE  Talk(c, r, q, p, y)
<1>1. Alive(x) /\ x.prompts = 0 /\ x.state # "none" /\ y.state # "none"
  BY DEF Alive, InPipe
<1> DEFINE k == x.auth[2]
<1>2. /\ \A i \in Gives(q) : q[i].n \in Nat
      /\ \A j \in Prompting(f, k) : f[j].n \in Nat
      /\ m.n \in Nat /\ Len(f) \in Nat
      /\ \A i \in Begins(q) : q[i].auth[2] \in Nat
  BY PlaceFacts, MessageFacts, GreeterAssumption DEF Prompting
<1>3. Timely(q) = {}
  <2> SUFFICES ASSUME NEW i \in Timely(q) PROVE FALSE
    OBVIOUS
  <2>1. q[i].n = 0 /\ q[i].n > 0
    BY <1>1 DEF Talk, OnePlace, Given, Timely
  <2> QED BY <2>1
<1>4. ~(~r.late /\ r.believed = k /\ Open(r) > 0)
  <2>1. ASSUME ~r.late, r.believed = k, Open(r) > 0 PROVE FALSE
    <3>1. Open(r) = 0
      BY <1>1, <2>1 DEF Talk, OnePlace
    <3> QED BY <2>1, <3>1
  <2> QED BY <2>1
<1>5. ASSUME ~r.late, NEW j \in Prompting(f, k) PROVE ~(f[j].n > 0)
  <2>1. f[j].n > 0 => f[j].n = 0
    BY <1>1, <1>5 DEF Talk, OnePlace
  <2> QED BY <2>1
<1>6. \/ \A j : Prompting(p, j) = Prompting(f, j) /\ p = f
      \/ /\ \A j \in 1..Len(f) : p[j] = f[j]
         /\ \A j \in 1..Len(p) : j \in 1..Len(f) \/ p[j] = m
         /\ Prompting(p, k) = Prompting(f, k) \union {Len(f) + 1} /\ p[Len(f) + 1] = m
         /\ \A j \in Prompting(f, k) : p[j] = f[j] /\ j < Len(f) + 1
  BY PromptAppend
<1>7. /\ k <= r.sent /\ \A i \in Begins(q) : k < q[i].auth[2]
  BY <1>1 DEF Talk, Current
<1>8. Numbered(c, r, q, p)
  <2>1. \A j \in 1..Len(p) : p[j].t = "prompt" => (j \in 1..Len(f) /\ p[j] = f[j]) \/ p[j].auth[2] = k
    BY <1>6
  <2> HIDE DEF k
  <2> QED BY <1>7, <2>1 DEF Talk, Numbered
<1>9. Current(c, r, q, y) /\ Given(r, q, y)
  BY <1>1 DEF Talk, Current, Given
<1>10. ASSUME ~r.late, NEW j \in Prompting(p, k), p[j].n > 0
       PROVE  p[j].n = y.prompts /\ \A l \in Prompting(p, k) : l <= j
  <2> HIDE DEF k
  <2>1. j = Len(f) + 1 /\ p[j] = m /\ Prompting(p, k) = Prompting(f, k) \union {Len(f) + 1}
    BY <1>5, <1>6, <1>10
  <2>2. \A l \in Prompting(f, k) : l <= Len(f) + 1
    BY DEF Prompting
  <2> QED BY <1>2, <2>1, <2>2
<1> HIDE DEF k
<1>11. OnePlace(r, q, p, y)
  BY <1>3, <1>4, <1>10 DEF OnePlace, k
<1> QED BY <1>8, <1>9, <1>11 DEF Talk

(* The daemon reads a message that begins nothing.                         *)
LEMMA NumberedRest ==
  ASSUME NEW c, NEW r, NEW q \in Seq(ToMessage), NEW f, Numbered(c, r, q, f),
         NEW p, IsRest(p, q), Head(q).t \notin AuthKinds
  PROVE  Numbered(c, r, p, f)
<1>1. /\ \A i \in Begins(p) : i + 1 \in Begins(q) /\ p[i] = q[i + 1]
      /\ \A i \in Begins(q) : i - 1 \in Begins(p) /\ p[i - 1] = q[i]
  <2>1. 1 \notin Begins(q)
    BY PlaceTail
  <2> QED BY <2>1, PlaceTail
<1>2. \A i \in Begins(p) : i \in Nat
  BY DEF Begins
<1>3. \A i, j \in Begins(p) : i < j => p[i].auth[2] < p[j].auth[2]
  <2>1. \A i, j \in Begins(p) : i < j => i + 1 < j + 1
    BY <1>2
  <2> QED BY <1>1, <2>1 DEF Numbered
<1>4. Begins(p) # {} => \E i \in Begins(p) : p[i].auth[2] = r.sent
  <2> SUFFICES ASSUME Begins(p) # {} PROVE \E i \in Begins(p) : p[i].auth[2] = r.sent
    OBVIOUS
  <2>1. PICK i \in Begins(q) : q[i].auth[2] = r.sent
    BY <1>1 DEF Numbered
  <2> QED BY <1>1, <2>1
<1>5. \A i \in Begins(p) :
        /\ p[i].auth[1] = c /\ p[i].auth[2] <= r.sent /\ r.believed < p[i].auth[2]
        /\ \A j \in 1..Len(f) : f[j].t = "prompt" => f[j].auth[2] < p[i].auth[2]
  BY <1>1 DEF Numbered
<1> QED BY <1>3, <1>4, <1>5 DEF Numbered

(* The daemon reads a message that neither begins nor answers.             *)
LEMMA TalkRead ==
  ASSUME NEW c, NEW r \in ClientRecord, NEW q \in Seq(ToMessage), NEW f \in Seq(FromMessage), NEW x,
         Talk(c, r, q, f, x), NEW p, IsRest(p, q), Head(q).t \notin AuthKinds \union {"continue"}
  PROVE  Talk(c, r, p, f, x)
<1>1. /\ \A i \in Begins(p) : i + 1 \in Begins(q) /\ p[i] = q[i + 1]
      /\ \A i \in Begins(q) : i - 1 \in Begins(p) /\ p[i - 1] = q[i]
      /\ \A i \in Gives(p) : i + 1 \in Gives(q) /\ p[i] = q[i + 1]
      /\ \A i \in Timely(p) : i + 1 \in Timely(q) /\ p[i] = q[i + 1]
  <2>1. 1 \notin Begins(q)
    BY PlaceTail
  <2> QED BY <2>1, PlaceTail
<1>2. /\ \A i \in Begins(p) : i \in Nat
      /\ \A i \in Gives(p) : i \in Nat
      /\ \A i \in Timely(p) : i \in Nat
  BY DEF Begins, Gives, Timely
<1>3. Begins(p) = {} <=> Begins(q) = {}
  BY <1>1
<1>4. Timely(q) = {} => Timely(p) = {}
  BY <1>1
<1>5. Numbered(c, r, p, f)
  BY NumberedRest DEF Talk
<1>6. Current(c, r, p, x)
  BY <1>1, <1>3 DEF Talk, Current
<1>7. Given(r, p, x)
  <2>1. \A i, j \in Gives(p) : i < j => i + 1 < j + 1
    BY <1>2
  <2>2. \A i \in Timely(p), j \in Begins(p) : i + 1 < j + 1 => i < j
    BY <1>2
  <2> QED BY <1>1, <2>1, <2>2 DEF Talk, Given
<1>8. OnePlace(r, p, f, x)
  <2>1. \A i, j \in Timely(p) : i + 1 = j + 1 => i = j
    BY <1>2
  <2> QED BY <1>1, <1>4, <2>1 DEF Talk, OnePlace
<1> QED BY <1>5, <1>6, <1>7, <1>8 DEF Talk

(* The daemon reads of another authentication, for which it has then a     *)
(* session that has asked nothing yet, or none.                            *)
LEMMA TalkAuth ==
  ASSUME NEW c, NEW r \in ClientRecord, NEW q \in Seq(ToMessage), NEW f \in Seq(FromMessage), NEW x,
         Talk(c, r, q, f, x), NEW p, IsRest(p, q), Head(q).t \in AuthKinds,
         NEW y, y.state = "none" \/ y.auth = Head(q).auth
  PROVE  Talk(c, r, p, f, y)
<1>1. /\ \A i \in Begins(p) : i + 1 \in Begins(q) /\ p[i] = q[i + 1]
      /\ \A i \in Begins(q) : i # 1 => i - 1 \in Begins(p) /\ p[i - 1] = q[i]
      /\ \A i \in Gives(p) : i + 1 \in Gives(q) /\ p[i] = q[i + 1]
      /\ \A i \in Timely(p) : i + 1 \in Timely(q) /\ p[i] = q[i + 1]
      /\ 1 \in Begins(q) /\ Head(q) = q[1]
  BY PlaceTail
<1>2. /\ \A i \in Begins(p) : i \in Nat \ {0}
      /\ \A i \in Gives(p) : i \in Nat
      /\ \A i \in Timely(p) : i \in Nat \ {0}
  BY DEF Begins, Gives, Timely
<1>3. /\ \A i \in Begins(q) : i \in Nat /\ q[i].auth[2] \in Nat
      /\ \A j \in 1..Len(f) : f[j].t = "prompt" => f[j].auth[2] \in Nat
      /\ r.sent \in Nat /\ r.believed \in Nat
  BY PlaceFacts, KnowsFacts
<1> DEFINE k == q[1].auth[2]
<1>4. /\ k \in Nat /\ k <= r.sent /\ r.believed < k /\ q[1].auth[1] = c
      /\ \A j \in 1..Len(f) : f[j].t = "prompt" => f[j].auth[2] < k
      /\ \A i \in Begins(p) : k < p[i].auth[2]
  <2>1. /\ k <= r.sent /\ r.believed < k /\ q[1].auth[1] = c
        /\ \A j \in 1..Len(f) : f[j].t = "prompt" => f[j].auth[2] < k
    BY <1>1 DEF Talk, Numbered
  <2>2. ASSUME NEW i \in Begins(p) PROVE k < p[i].auth[2]
    <3>1. i + 1 \in Begins(q) /\ p[i] = q[i + 1] /\ 1 < i + 1
      BY <1>1, <1>2, <2>2
    <3> QED BY <1>1, <3>1 DEF Talk, Numbered
  <2> QED BY <1>1, <1>3, <2>1, <2>2
<1>5. Timely(p) = {}
  <2> SUFFICES ASSUME NEW i \in Timely(p) PROVE FALSE
    OBVIOUS
  <2>1. i + 1 \in Timely(q) /\ i \in Nat \ {0}
    BY <1>1, <1>2
  <2>2. i + 1 < 1
    BY <1>1, <2>1 DEF Talk, Given
  <2> QED BY <2>1, <2>2
<1>6. Begins(p) # {} => \E i \in Begins(p) : p[i].auth[2] = r.sent
  <2> SUFFICES ASSUME NEW i \in Begins(p) PROVE \E j \in Begins(p) : p[j].auth[2] = r.sent
    OBVIOUS
  <2>1. PICK j \in Begins(q) : q[j].auth[2] = r.sent
    BY <1>1 DEF Talk, Numbered
  <2>2. k < p[i].auth[2] /\ p[i].auth[2] <= r.sent /\ p[i].auth[2] \in Nat
    BY <1>1, <1>3, <1>4 DEF Talk, Numbered
  <2>3. j # 1
    BY <1>3, <1>4, <2>1, <2>2
  <2> QED BY <1>1, <2>1, <2>3
<1>7. Begins(p) = {} => k = r.sent
  <2> SUFFICES ASSUME Begins(p) = {} PROVE k = r.sent
    OBVIOUS
  <2>1. PICK j \in Begins(q) : q[j].auth[2] = r.sent
    BY <1>1 DEF Talk, Numbered
  <2>2. j = 1
    BY <1>1
  <2> QED BY <2>1, <2>2
<1>8. Numbered(c, r, p, f)
  <2>1. \A i, j \in Begins(p) : i < j => i + 1 < j + 1
    BY <1>2
  <2> QED BY <1>1, <1>6, <2>1 DEF Talk, Numbered
<1> HIDE DEF k
<1>9. Current(c, r, p, y)
  <2>1. y.state # "none" => y.auth[1] = c /\ y.auth[2] = k
    BY <1>1, <1>4 DEF k
  <2> QED BY <1>4, <1>7, <2>1 DEF Current
<1>10. Given(r, p, y)
  <2>1. \A i, j \in Gives(p) : i < j => i + 1 < j + 1
    BY <1>2
  <2> QED BY <1>1, <1>5, <2>1 DEF Talk, Given
<1>11. OnePlace(r, p, f, y)
  <2> SUFFICES ASSUME Alive(y) PROVE OnePlace(r, p, f, y)
    BY DEF OnePlace
  <2>1. y.auth[2] = k
    BY <1>1 DEF Alive, k
  <2>2. r.believed # k
    BY <1>3, <1>4
  <2>3. Prompting(f, k) = {}
    BY <1>3, <1>4 DEF Prompting
  <2> QED BY <1>5, <2>1, <2>2, <2>3 DEF OnePlace
<1> QED BY <1>8, <1>9, <1>10, <1>11 DEF Talk

(* The daemon reads answers for a session that can succeed: one that is    *)
(* not late has as many as PAM waits for.                                  *)
LEMMA TalkTimely ==
  ASSUME NEW c, NEW r \in ClientRecord, NEW q \in Seq(ToMessage), NEW f \in Seq(FromMessage), NEW x,
         Talk(c, r, q, f, x), q # <<>>, Head(q).t = "continue"
  PROVE  /\ Head(q).n \in Nat \ {0} /\ Head(q).late \in BOOLEAN
         /\ ~Head(q).late /\ x.state # "none" => Head(q).auth = x.auth
         /\ ~Head(q).late /\ Alive(x) => Head(q).n = x.prompts
<1>1. 1 \in Gives(q) /\ Head(q) = q[1]
  BY PlaceTail DEF IsRest
<1>2. q[1].n \in Nat /\ q[1].late \in BOOLEAN /\ q[1].n > 0
  BY <1>1, PlaceFacts DEF Talk, Given
<1>3. ~q[1].late => 1 \in Timely(q)
  BY <1>1 DEF Timely
<1> QED BY <1>1, <1>2, <1>3 DEF Talk, Given, OnePlace

(* The daemon reads answers: PAM waits for them no more, if they were as   *)
(* many as it waited for.                                                  *)
LEMMA TalkAnswer ==
  ASSUME NEW c, NEW r \in ClientRecord, NEW q \in Seq(ToMessage), NEW f \in Seq(FromMessage), NEW x,
         Talk(c, r, q, f, x), NEW p, IsRest(p, q), Head(q).t = "continue", x.prompts \in Nat,
         NEW y, y.state = x.state, y.auth = x.auth, y.ok = x.ok,
         x.state # "none" => y.prompts = IF Head(q).n = x.prompts THEN 0 ELSE x.prompts
  PROVE  Talk(c, r, p, f, y)
<1>1. /\ \A i \in Begins(p) : i + 1 \in Begins(q) /\ p[i] = q[i + 1]
      /\ \A i \in Begins(q) : i - 1 \in Begins(p) /\ p[i - 1] = q[i]
      /\ \A i \in Gives(p) : i + 1 \in Gives(q) /\ p[i] = q[i + 1]
      /\ \A i \in Timely(p) : i + 1 \in Timely(q) /\ p[i] = q[i + 1]
      /\ 1 \in Gives(q) /\ Head(q) = q[1]
  <2>1. 1 \notin Begins(q)
    BY PlaceTail DEF AuthKinds
  <2> QED BY <2>1, PlaceTail
<1>2. /\ \A i \in Begins(p) : i \in Nat
      /\ \A i \in Gives(p) : i \in Nat
      /\ \A i \in Timely(p) : i \in Nat \ {0}
      /\ Timely(q) \subseteq Gives(q) /\ \A i \in Timely(q) : ~q[i].late
  BY DEF Begins, Gives, Timely
<1>3. Begins(p) = {} <=> Begins(q) = {}
  BY <1>1
<1>5. Numbered(c, r, p, f)
  BY NumberedRest DEF AuthKinds, Talk
<1>6. Current(c, r, p, y)
  BY <1>1, <1>3 DEF Talk, Current
<1>7. Given(r, p, y)
  <2>1. \A i, j \in Gives(p) : i < j => i + 1 < j + 1
    BY <1>2
  <2>2. \A i \in Timely(p), j \in Begins(p) : i + 1 < j + 1 => i < j
    BY <1>2
  <2> QED BY <1>1, <2>1, <2>2 DEF Talk, Given
<1>8. OnePlace(r, p, f, y)
  <2> SUFFICES ASSUME Alive(y) PROVE OnePlace(r, p, f, y)
    BY DEF OnePlace
  <2>1. Alive(x) /\ x.state # "none"
    BY DEF Alive
  <2>2. q[1].n \in Nat \ {0} /\ q[1].late \in BOOLEAN /\ (~q[1].late => q[1].n = x.prompts)
    BY <1>1, <2>1, TalkTimely DEF IsRest
  <2>3. Timely(p) = {}
    <3> SUFFICES ASSUME NEW i \in Timely(p) PROVE FALSE
      OBVIOUS
    <3>1. i + 1 \in Timely(q) /\ i + 1 \in Gives(q) /\ ~q[i + 1].late /\ 1 < i + 1 /\ i + 1 # 1
      BY <1>1, <1>2
    <3>2. ~q[1].late
      BY <1>1, <3>1 DEF Talk, Given
    <3>3. 1 \in Timely(q)
      BY <1>1, <3>2 DEF Timely
    <3> QED BY <2>1, <3>1, <3>3 DEF Talk, OnePlace
  <2>4. CASE q[1].late
    <3>1. r.late
      BY <1>1, <2>4 DEF Talk, Given
    <3> QED BY <2>3, <3>1 DEF OnePlace
  <2>5. CASE ~q[1].late
    <3>1. 1 \in Timely(q)
      BY <1>1, <2>5 DEF Timely
    <3>2. ~(~r.late /\ r.believed = x.auth[2] /\ Open(r) > 0)
      BY <2>1, <3>1 DEF Talk, OnePlace
    <3>3. ~r.late => \A j \in Prompting(f, x.auth[2]) : ~(f[j].n > 0)
      BY <2>1, <3>1 DEF Talk, OnePlace
    <3> QED BY <2>3, <3>2, <3>3 DEF OnePlace
  <2> QED BY <2>2, <2>4, <2>5
<1> QED BY <1>5, <1>6, <1>7, <1>8 DEF Talk

(* The greeter has left: what was sent to it is lost, and what it knew.    *)
LEMMA TalkLost ==
  ASSUME NEW c, NEW r \in ClientRecord, NEW q \in Seq(ToMessage), NEW f \in Seq(FromMessage), NEW x,
         Talk(c, r, q, f, x),
         NEW s, s.sent = r.sent, s.late = r.late, s.prompt = 0, s.believed = 0, Open(s) = 0
  PROVE  Talk(c, s, q, <<>>, x)
<1>1. Len(<<>>) = 0 /\ 1..0 = {} /\ \A k : Prompting(<<>>, k) = {}
  BY DEF Prompting
<1>2. r.sent \in Nat /\ r.believed \in Nat
  BY KnowsFacts
<1>3. \A i \in Begins(q) : q[i].auth[2] \in Nat /\ r.believed < q[i].auth[2]
  BY PlaceFacts DEF Talk, Numbered
<1>4. \A i \in Begins(q) : 0 < q[i].auth[2]
  BY <1>2, <1>3
<1>5. Numbered(c, s, q, <<>>)
  BY <1>1, <1>2, <1>4 DEF Talk, Numbered
<1>6. Current(c, s, q, x) /\ Given(s, q, x)
  BY DEF Talk, Current, Given
<1>7. OnePlace(s, q, <<>>, x)
  BY <1>1 DEF Talk, OnePlace
<1> QED BY <1>5, <1>6, <1>7 DEF Talk

(* The greeter is refused: what it has sent is lost.                       *)
LEMMA TalkRefused ==
  ASSUME NEW c, NEW r, NEW q, NEW f, NEW x, Talk(c, r, q, f, x), x.state = "none"
  PROVE  Talk(c, r, <<>>, f, x)
<1>1. Begins(<<>>) = {} /\ Gives(<<>>) = {} /\ Timely(<<>>) = {} /\ ~Alive(x)
  BY DEF Begins, Gives, Timely, Alive
<1>2. Numbered(c, r, <<>>, f)
  BY <1>1 DEF Talk, Numbered
<1>3. Current(c, r, <<>>, x) /\ Given(r, <<>>, x) /\ OnePlace(r, <<>>, f, x)
  BY <1>1 DEF Current, Given, OnePlace
<1> QED BY <1>2, <1>3 DEF Talk

----------------------------------------------------------------------------
(* Facts about the pipe to the child of a session                          *)

(* A session that has been asked nothing.                                  *)
LEMMA PipeNew ==
  ASSUME NEW y, y.replies = <<>>, y.prompts = 0
  PROVE  InPipe(y)
<1>1. 1..Len(y.replies) = {}
  OBVIOUS
<1> QED BY <1>1 DEF InPipe

(* PAM asks; texts alone are answered at once.                             *)
LEMMA PipeAsk ==
  ASSUME NEW x \in SessionRecord, InPipe(x), x.state = "running",
         NEW a, a = [error |-> FALSE, given |-> x.auth, late |-> FALSE],
         NEW y, y.state = "asking", y.auth = x.auth,
         (y.prompts > 0 /\ y.replies = x.replies) \/ (y.prompts = 0 /\ IsPut(y.replies, x.replies, a))
  PROVE  InPipe(y)
<1> DEFINE n == Len(x.replies)
<1>1. /\ x.replies \in Seq(Reply) /\ x.auth \in Auths /\ n \in Nat
      /\ \A i \in 1..n : x.replies[i].error
      /\ \A i \in 1..n : x.replies[i].late \/ x.replies[i].given = x.auth
      /\ \A i \in 1..n : x.replies[i].error => x.replies[i].late
  BY DEF SessionRecord, InPipe, Alive
<1>2. CASE y.prompts > 0 /\ y.replies = x.replies
  BY <1>1, <1>2 DEF InPipe
<1>3. CASE y.prompts = 0 /\ IsPut(y.replies, x.replies, a)
  <2>1. a \in Reply /\ ~a.error /\ a.given = x.auth
    BY <1>1 DEF Reply
  <2>2. /\ Len(y.replies) = n + 1 /\ y.replies[n + 1] = a
        /\ \A i \in 1..n : y.replies[i] = x.replies[i]
    BY <1>1, <1>3, <2>1, AppendFacts DEF IsPut
  <2>3. \A i \in 1..n + 1 : i \in 1..n \/ i = n + 1
    BY <1>1
  <2> HIDE DEF n
  <2>4. \A i \in 1..Len(y.replies) : y.replies[i].late \/ y.replies[i].given = y.auth
    BY <1>1, <2>1, <2>2, <2>3
  <2>5. \A i \in 1..Len(y.replies) : y.replies[i].error => y.replies[i].late
    BY <1>1, <2>1, <2>2, <2>3
  <2>6. \A i \in 1..Len(y.replies) : ~y.replies[i].error => i = n + 1
    BY <1>1, <2>1, <2>2, <2>3
  <2> QED BY <1>3, <2>4, <2>5, <2>6 DEF InPipe
<1> QED BY <1>2, <1>3

(* The child takes an answer: it is for the session, or late.              *)
LEMMA PipeTake ==
  ASSUME NEW x \in SessionRecord, InPipe(x), x.state = "asking", x.replies # <<>>,
         NEW y, y.auth = x.auth, y.prompts = x.prompts, IsRest(y.replies, x.replies),
         y.state = IF Head(x.replies).error THEN "failing" ELSE "running"
  PROVE  InPipe(y) /\ (Head(x.replies).late \/ Head(x.replies).given = x.auth)
<1> DEFINE n == Len(x.replies)
<1>1. /\ x.replies \in Seq(Reply) /\ n \in Nat \ {0} /\ x.prompts \in Nat
      /\ Head(x.replies) = x.replies[1] /\ Len(y.replies) = n - 1
      /\ \A i \in 1..Len(y.replies) : y.replies[i] = x.replies[i + 1]
  BY TailFacts DEF SessionRecord, IsRest
<1>2. /\ \A i \in 1..n : x.replies[i].late \/ x.replies[i].given = x.auth
      /\ \A i \in 1..n : x.replies[i].error => x.replies[i].late
      /\ \A i, j \in 1..n : ~x.replies[i].error /\ ~x.replies[j].error => i = j
      /\ x.prompts > 0 => \A i \in 1..n : x.replies[i].error
  BY DEF InPipe, Alive
<1>3. \A i \in 1..Len(y.replies) : i + 1 \in 1..n /\ i + 1 # 1
  BY <1>1
<1>4. 1 \in 1..n
  BY <1>1
<1> HIDE DEF n
<1>5. \A i \in 1..Len(y.replies) : y.replies[i].late \/ y.replies[i].given = y.auth
  BY <1>1, <1>2, <1>3
<1>6. CASE Head(x.replies).error
  <2>1. ~Alive(y)
    BY <1>6 DEF Alive
  <2> QED BY <1>1, <1>2, <1>4, <1>5, <2>1 DEF InPipe
<1>7. CASE ~Head(x.replies).error
  <2>1. x.prompts = 0
    BY <1>1, <1>2, <1>4, <1>7
  <2>2. \A i \in 1..Len(y.replies) : y.replies[i].error /\ y.replies[i].late
    BY <1>1, <1>2, <1>3, <1>4, <1>7
  <2> QED BY <1>1, <1>2, <1>4, <1>5, <1>7, <2>1, <2>2 DEF InPipe
<1> QED BY <1>6, <1>7

(* PAM is done: success comes only while it does not ask.                  *)
LEMMA PipeComplete ==
  ASSUME NEW x, InPipe(x), x.state # "none", NEW y, y.state = "complete", y.auth = x.auth,
         y.prompts = x.prompts, y.replies = x.replies, y.ok => x.state = "running"
  PROVE  InPipe(y)
<1>1. Alive(y) => Alive(x) /\ x.state = "running"
  BY DEF Alive
<1> QED BY <1>1 DEF InPipe

(* Answers m come from the greeter.                                        *)
LEMMA PipeGive ==
  ASSUME NEW x \in SessionRecord, InPipe(x), x.state # "none",
         NEW m, m.n \in Nat \ {0}, m.late \in BOOLEAN, m.auth \in Auths,
         ~m.late => m.auth = x.auth, ~m.late /\ Alive(x) => m.n = x.prompts,
         NEW a, a = [error |-> m.n # x.prompts, given |-> m.auth, late |-> m.late],
         NEW y, y.state = x.state, y.auth = x.auth, y.ok = x.ok, IsPut(y.replies, x.replies, a),
         y.prompts = IF m.n = x.prompts THEN 0 ELSE x.prompts
  PROVE  InPipe(y)
<1> DEFINE n == Len(x.replies)
<1>1. /\ x.replies \in Seq(Reply) /\ x.prompts \in Nat /\ n \in Nat
      /\ a \in Reply /\ a.error = (m.n # x.prompts) /\ a.given = m.auth /\ a.late = m.late
  BY DEF SessionRecord, Reply
<1>2. /\ Len(y.replies) = n + 1 /\ y.replies[n + 1] = a
      /\ \A i \in 1..n : y.replies[i] = x.replies[i]
  BY <1>1, AppendFacts DEF IsPut
<1>3. \A i \in 1..n + 1 : i \in 1..n \/ i = n + 1
  BY <1>1
<1>4. Alive(y) <=> Alive(x)
  BY DEF Alive
<1>5. \A i \in 1..n : x.replies[i].late \/ x.replies[i].given = x.auth
  BY DEF InPipe
<1> HIDE DEF n
<1>6. \A i \in 1..Len(y.replies) : y.replies[i].late \/ y.replies[i].given = y.auth
  BY <1>1, <1>2, <1>3, <1>5
<1>7. ASSUME Alive(x)
      PROVE  /\ \A i \in 1..Len(y.replies) : y.replies[i].error => y.replies[i].late
             /\ \A i, j \in 1..Len(y.replies) : ~y.replies[i].error /\ ~y.replies[j].error => i = j
             /\ y.state # "asking" => y.prompts = 0
             /\ y.state # "asking" \/ y.prompts > 0 => \A i \in 1..Len(y.replies) : y.replies[i].error
  <2>1. /\ \A i \in 1..n : x.replies[i].error => x.replies[i].late
        /\ \A i, j \in 1..n : ~x.replies[i].error /\ ~x.replies[j].error => i = j
        /\ x.state # "asking" => x.prompts = 0
        /\ x.state # "asking" \/ x.prompts > 0 => \A i \in 1..n : x.replies[i].error
    BY <1>7 DEF InPipe, n
  <2>2. a.error => a.late
    BY <1>1, <1>7
  <2>3. \A i \in 1..Len(y.replies) : y.replies[i].error => y.replies[i].late
    BY <1>2, <1>3, <2>1, <2>2
  <2>4. CASE m.n = x.prompts
    <3>1. x.prompts > 0 /\ x.state = "asking" /\ y.prompts = 0
      BY <1>1, <2>1, <2>4
    <3>2. \A i \in 1..Len(y.replies) : ~y.replies[i].error => i = n + 1
      BY <1>2, <1>3, <2>1, <3>1
    <3>3. ~(y.prompts > 0)
      BY <3>1
    <3> QED BY <2>3, <3>1, <3>2, <3>3
  <2>5. CASE m.n # x.prompts
    <3>1. a.error /\ y.prompts = x.prompts
      BY <1>1, <2>5
    <3>2. \A i \in 1..Len(y.replies) : ~y.replies[i].error => i \in 1..n /\ ~x.replies[i].error
      BY <1>2, <1>3, <3>1
    <3> QED BY <2>1, <2>3, <3>1, <3>2
  <2> QED BY <2>4, <2>5
<1> QED BY <1>4, <1>6, <1>7 DEF InPipe

----------------------------------------------------------------------------
(* The steps, and where the answers are                                    *)

(* What is known of the session that a client has, if any.                 *)
LEMMA SessionFacts ==
  ASSUME GreeterIInv, NEW c \in Clients
  PROVE  /\ SessionOf(c) \in SessionRecord
         /\ SessionOf(c).auth[2] \in Nat /\ SessionOf(c).prompts \in Nat
         /\ SessionOf(c).state # "none" => SessionOf(c).auth = <<c, SessionOf(c).auth[2]>>
         /\ served = c /\ session.state # "none" => session.auth = <<c, srv.seq>>
<1>1. DaemonTypes /\ Conversation(c)
  BY DEF GreeterIInv
<1>2. NoSession \in SessionRecord /\ NoSession.state = "none"
  BY GreeterAssumption DEF NoSession, SessionRecord, NoAuth, Auths
<1>3. SessionOf(c) \in SessionRecord
  BY <1>1, <1>2 DEF SessionOf, DaemonTypes
<1>4. SessionOf(c).auth[2] \in Nat /\ SessionOf(c).prompts \in Nat
  BY <1>3 DEF SessionRecord, Auths
<1>5. ASSUME served = c, session.state # "none"
      PROVE  session.auth = <<c, srv.seq>>
  BY <1>1, <1>5 DEF Conversation, HasRead
<1>6. ASSUME SessionOf(c).state # "none" PROVE SessionOf(c).auth = <<c, SessionOf(c).auth[2]>>
  <2>1. served = c /\ SessionOf(c) = session
    BY <1>2, <1>6 DEF SessionOf
  <2>2. SessionOf(c).auth = <<c, srv.seq>>
    BY <1>5, <1>6, <2>1
  <2> QED BY <2>2
<1> QED BY <1>3, <1>4, <1>5, <1>6

(* Nobody but client c is concerned.                                       *)
Only(c) ==
  \A x \in Clients \ {c} :
    cli'[x] = cli[x] /\ toServer'[x] = toServer[x] /\ fromServer'[x] = fromServer[x]

(* A step of client c.                                                     *)
LEMMA ClientAnswers ==
  ASSUME AnswerIInv, NEW c \in Clients, Only(c), UNCHANGED <<served, session, answer>>,
         Talk(c, cli'[c], toServer'[c], fromServer'[c], SessionOf(c))
  PROVE  AnswerIInv'
<1>1. ASSUME NEW x \in Clients PROVE SessionOf(x)' = SessionOf(x)
  BY DEF SessionOf
<1>2. ASSUME NEW x \in Clients PROVE Talk(x, cli'[x], toServer'[x], fromServer'[x], SessionOf(x))
  <2>1. CASE x = c
    BY <2>1
  <2>2. CASE x # c
    BY <2>2 DEF Only, AnswerIInv
  <2> QED BY <2>1, <2>2
<1>3. (InPipe(session) /\ Taken)'
  BY DEF AnswerIInv, Taken
<1> QED BY <1>1, <1>2, <1>3 DEF AnswerIInv

(* A step of the daemon for the client c that it serves.                   *)
LEMMA DaemonAnswers ==
  ASSUME AnswerIInv, NEW c \in Clients, served = c, Only(c), UNCHANGED <<cli, served>>,
         Talk(c, cli[c], toServer'[c], fromServer'[c], session'), InPipe(session'), Taken'
  PROVE  AnswerIInv'
<1>1. ASSUME NEW x \in Clients
      PROVE  Talk(x, cli'[x], toServer'[x], fromServer'[x], SessionOf(x)')
  <2>1. CASE x = c
    BY <2>1 DEF SessionOf
  <2>2. CASE x # c
    <3>1. SessionOf(x)' = SessionOf(x)
      BY <2>2 DEF SessionOf
    <3> QED BY <2>2, <3>1 DEF Only, AnswerIInv
  <2> QED BY <2>1, <2>2
<1> QED BY <1>1 DEF AnswerIInv

(* What belongs to client c before a step.                                 *)
LEMMA TalkFacts ==
  ASSUME GreeterIInv, AnswerIInv, NEW c \in Clients
  PROVE  /\ Talk(c, cli[c], toServer[c], fromServer[c], SessionOf(c))
         /\ cli[c] \in ClientRecord /\ toServer[c] \in Seq(ToMessage) /\ fromServer[c] \in Seq(FromMessage)
         /\ ClientTypes /\ QueueTypes /\ InPipe(session) /\ Taken
         /\ served = c => SessionOf(c) = session
<1>1. ClientTypes /\ QueueTypes
  BY DEF GreeterIInv
<1> QED BY <1>1, ClientFacts DEF AnswerIInv, SessionOf

(* A client that changes to r and sends and takes nothing.                 *)
LEMMA QuietAnswers ==
  ASSUME GreeterIInv, AnswerIInv, NEW c \in Clients, NEW r, cli' = [cli EXCEPT ![c] = r],
         UNCHANGED <<toServer, fromServer, served, session, answer>>,
         Alike(r, cli[c])
  PROVE  AnswerIInv'
<1>1. Talk(c, cli[c], toServer[c], fromServer[c], SessionOf(c)) /\ ClientTypes
  BY TalkFacts
<1>2. Only(c) /\ cli'[c] = r
  BY <1>1 DEF Only, ClientTypes
<1>3. Talk(c, r, toServer[c], fromServer[c], SessionOf(c))
  BY <1>1, TalkClient
<1> QED BY <1>2, <1>3, ClientAnswers

(* A client that changes to r and sends a message that neither begins an   *)
(* authentication nor answers.                                             *)
LEMMA PutAnswers ==
  ASSUME GreeterIInv, AnswerIInv, NEW c \in Clients, NEW r, cli' = [cli EXCEPT ![c] = r],
         NEW m \in ToMessage, m.t \notin AuthKinds \union {"continue"}, send_message(c, m),
         UNCHANGED <<fromServer, served, session, answer>>,
         Alike(r, cli[c])
  PROVE  AnswerIInv'
<1>1. /\ Talk(c, cli[c], toServer[c], fromServer[c], SessionOf(c)) /\ ClientTypes /\ QueueTypes
      /\ toServer[c] \in Seq(ToMessage)
  BY TalkFacts
<1>2. Only(c) /\ cli'[c] = r /\ IsPut(toServer'[c], toServer[c], m)
  BY <1>1 DEF Only, ClientTypes, QueueTypes, send_message, IsPut
<1>3. Talk(c, r, toServer[c], fromServer[c], SessionOf(c))
  BY <1>1, TalkClient
<1>4. Talk(c, r, toServer'[c], fromServer[c], SessionOf(c))
  BY <1>1, <1>2, <1>3, TalkPut
<1> QED BY <1>2, <1>4, ClientAnswers

(* A client that takes a message, and what it knows of prompts stays.      *)
LEMMA TakeAnswers ==
  ASSUME GreeterIInv, AnswerIInv, NEW c \in Clients, NEW r, cli' = [cli EXCEPT ![c] = r],
         NEW t, Takes(c, t),
         Alike(r, cli[c])
  PROVE  AnswerIInv'
<1>1. /\ Talk(c, cli[c], toServer[c], fromServer[c], SessionOf(c)) /\ ClientTypes /\ QueueTypes
      /\ fromServer[c] \in Seq(FromMessage)
  BY TalkFacts
<1>2. /\ Only(c) /\ cli'[c] = r /\ IsRest(fromServer'[c], fromServer[c])
      /\ UNCHANGED <<toServer, served, session, answer>>
  BY <1>1 DEF Only, ClientTypes, QueueTypes, Takes, IsRest, srvVars, histVars
<1>3. Talk(c, r, toServer[c], fromServer[c], SessionOf(c))
  BY <1>1, TalkClient
<1>4. Talk(c, r, toServer[c], fromServer'[c], SessionOf(c))
  BY <1>1, <1>2, <1>3, TalkTake
<1> QED BY <1>2, <1>4, ClientAnswers

(* The calls of the library that ask for something.                        *)
LEMMA RequestsAnswers ==
  ASSUME GreeterIInv, AnswerIInv, NEW c \in Clients, NEW ok \in BOOLEAN,
         \/ lightdm_greeter_connect_to_daemon(c, ok)
         \/ lightdm_greeter_connect_to_daemon_sync(c, ok)
         \/ lightdm_greeter_start_session(c, ok)
         \/ lightdm_greeter_start_session_sync(c, ok)
         \/ lightdm_greeter_ensure_shared_data_dir(c, ok)
         \/ lightdm_greeter_ensure_shared_data_dir_sync(c, ok)
  PROVE  AnswerIInv'
<1>1. cli[c] \in ClientRecord /\ issued \in Nat
  BY ClientFacts DEF GreeterIInv
<1>2. ASSUME NEW kind \in Kinds, send_request(c, kind, ok), NEW r, cli' = [cli EXCEPT ![c] = r],
             Alike(r, cli[c])
      PROVE  AnswerIInv'
  <2> DEFINE w == IF cli[c].is_auth THEN Auth(c) ELSE NoAuth
             m == [t |-> kind, id |-> issued + 1, auth |-> Sent(c), believed |-> w,
                   cancelled |-> cli[c].cancelled]
  <2>1. /\ UNCHANGED <<fromServer, served, session, answer>>
        /\ IF ok THEN send_message(c, m) ELSE UNCHANGED toServer
    BY <1>2 DEF send_request, srvVars, histVars
  <2>4. w \in Auths /\ Sent(c) \in Auths
    BY <1>1 DEF Auth, Sent, NoAuth, Auths, ClientRecord
  <2> HIDE DEF w
  <2>2. m \in ToMessage /\ m.t = kind
    BY <1>1, <2>4 DEF ToMessage, ClientRecord
  <2>3. m.t \notin AuthKinds \union {"continue"}
    BY <2>2 DEF Kinds, AuthKinds
  <2> HIDE DEF m
  <2> QED BY <1>2, <2>1, <2>2, <2>3, QuietAnswers, PutAnswers
<1>3. ASSUME NEW kind \in Kinds
      PROVE  /\ Alike(Request(c, kind, issued + 1), cli[c])
             /\ Request(c, kind, issued + 1) \in ClientRecord
  <2> DEFINE q == [cli[c].requests EXCEPT ![kind] = Append(@, issued + 1)]
             p == [cli[c] EXCEPT !.requests = q]
  <2>1. Request(c, kind, issued + 1) = p
    BY DEF Request
  <2>2. q \in [Kinds -> Seq(Nat)]
    BY <1>1 DEF ClientRecord
  <2> HIDE DEF q
  <2>3. p \in ClientRecord
    BY <1>1, <2>2 DEF ClientRecord
  <2>4. /\ p.sent = cli[c].sent /\ p.believed = cli[c].believed /\ p.prompt = cli[c].prompt
        /\ p.late = cli[c].late /\ p.waiting = cli[c].waiting /\ p.received = cli[c].received
        /\ p.show = cli[c].show
    BY <1>1 DEF ClientRecord
  <2> QED BY <2>1, <2>3, <2>4 DEF Alike, Open
<1>4. Alike(cli[c], cli[c])
  BY DEF Alike
<1>11. ASSUME NEW kind \in Kinds
       PROVE  /\ Alike(RequestSync(c, kind, issued + 1), cli[c])
              /\ RequestSync(c, kind, issued + 1) \in ClientRecord
  <2> DEFINE q == Request(c, kind, issued + 1)
             inside == IF Shows(c) THEN {<<issued + 1, cli[c].show>>} ELSE {}
             w == q.nested \union inside
             p == [q EXCEPT !.nested = w]
  <2>1. q \in ClientRecord /\ Alike(q, cli[c])
    BY <1>3
  <2>2. RequestSync(c, kind, issued + 1) = p
    BY DEF RequestSync
  <2>3. inside \in SUBSET (Nat \X Nat)
    BY <1>1 DEF ClientRecord
  <2> HIDE DEF q, inside
  <2>4. w \in SUBSET (Nat \X Nat)
    BY <2>1, <2>3 DEF ClientRecord
  <2> HIDE DEF w
  <2>5. p \in ClientRecord
    BY <2>1, <2>4 DEF ClientRecord
  <2>6. /\ p.sent = q.sent /\ p.believed = q.believed /\ p.prompt = q.prompt
        /\ p.late = q.late /\ p.waiting = q.waiting /\ p.received = q.received
        /\ p.show = q.show
    BY <2>1 DEF ClientRecord
  <2> HIDE DEF p
  <2> QED BY <2>1, <2>2, <2>5, <2>6 DEF Alike, Open
<1>5. ASSUME NEW p \in ClientRecord, Alike(p, cli[c]), NEW a, NEW b
      PROVE  /\ Alike([p EXCEPT !.asked = a], cli[c]) /\ Alike([p EXCEPT !.badsend = b], cli[c])
             /\ Alike([p EXCEPT !.asked = a, !.badsend = b], cli[c])
  <2>1. ASSUME NEW r, \/ r = [p EXCEPT !.asked = a] \/ r = [p EXCEPT !.badsend = b]
                      \/ r = [p EXCEPT !.asked = a, !.badsend = b]
        PROVE  /\ r.sent = p.sent /\ r.believed = p.believed /\ r.prompt = p.prompt
               /\ r.late = p.late /\ r.waiting = p.waiting /\ r.received = p.received
               /\ r.show = p.show
    BY <2>1 DEF ClientRecord
  <2>2. ASSUME NEW r, \/ r = [p EXCEPT !.asked = a] \/ r = [p EXCEPT !.badsend = b]
                      \/ r = [p EXCEPT !.asked = a, !.badsend = b]
        PROVE  Alike(r, cli[c])
    BY <1>5, <2>1, <2>2 DEF Alike, Open
  <2> QED BY <2>2
<1>6. CASE lightdm_greeter_connect_to_daemon(c, ok)
  <2> DEFINE r == IF ok THEN Request(c, "connect", issued + 1) ELSE cli[c]
  <2>1. send_request(c, "connect", ok) /\ cli' = [cli EXCEPT ![c] = r]
    BY <1>6 DEF lightdm_greeter_connect_to_daemon, Set
  <2>2. Alike(r, cli[c])
    BY <1>3, <1>4 DEF Kinds
  <2> HIDE DEF r
  <2> QED BY <1>2, <2>1, <2>2 DEF Kinds
<1>12. CASE lightdm_greeter_connect_to_daemon_sync(c, ok)
  <2> DEFINE r == IF ok THEN RequestSync(c, "connect", issued + 1) ELSE cli[c]
  <2>1. send_request(c, "connect", ok) /\ cli' = [cli EXCEPT ![c] = r]
    BY <1>12 DEF lightdm_greeter_connect_to_daemon_sync, Set
  <2>2. Alike(r, cli[c])
    BY <1>4, <1>11 DEF Kinds
  <2> HIDE DEF r
  <2> QED BY <1>2, <2>1, <2>2 DEF Kinds
<1>7. CASE lightdm_greeter_start_session(c, ok)
  <2> DEFINE p == Request(c, "start", issued + 1)
             a == p.asked \/ ok
             b == p.badsend \/ ~ok
             r == [p EXCEPT !.asked = a, !.badsend = b]
  <2>1. send_request(c, "start", ok) /\ cli' = [cli EXCEPT ![c] = r]
    BY <1>7 DEF lightdm_greeter_start_session, Set
  <2>2. Alike(p, cli[c]) /\ p \in ClientRecord
    BY <1>3 DEF Kinds
  <2> HIDE DEF p, a, b
  <2>3. Alike(r, cli[c])
    BY <1>5, <2>2
  <2> HIDE DEF r
  <2> QED BY <1>2, <2>1, <2>3 DEF Kinds
<1>8. CASE lightdm_greeter_start_session_sync(c, ok)
  <2> DEFINE p == RequestSync(c, "start", issued + 1)
             a == TRUE
             r == IF ok THEN [p EXCEPT !.asked = a] ELSE cli[c]
  <2>1. send_request(c, "start", ok) /\ cli' = [cli EXCEPT ![c] = r]
    BY <1>8 DEF lightdm_greeter_start_session_sync, Set
  <2>2. Alike(p, cli[c]) /\ p \in ClientRecord
    BY <1>11 DEF Kinds
  <2> HIDE DEF p, a
  <2>3. Alike(r, cli[c])
    BY <1>4, <1>5, <2>2
  <2> HIDE DEF r
  <2> QED BY <1>2, <2>1, <2>3 DEF Kinds
<1>9. CASE lightdm_greeter_ensure_shared_data_dir(c, ok)
  <2> DEFINE p == Request(c, "dir", issued + 1)
             b == p.badsend \/ ~ok
             r == [p EXCEPT !.badsend = b]
  <2>1. send_request(c, "dir", ok) /\ cli' = [cli EXCEPT ![c] = r]
    BY <1>9 DEF lightdm_greeter_ensure_shared_data_dir, Set
  <2>2. Alike(p, cli[c]) /\ p \in ClientRecord
    BY <1>3 DEF Kinds
  <2> HIDE DEF p, b
  <2>3. Alike(r, cli[c])
    BY <1>5, <2>2
  <2> HIDE DEF r
  <2> QED BY <1>2, <2>1, <2>3 DEF Kinds
<1>10. CASE lightdm_greeter_ensure_shared_data_dir_sync(c, ok)
  <2> DEFINE r == IF ok THEN RequestSync(c, "dir", issued + 1) ELSE cli[c]
  <2>1. send_request(c, "dir", ok) /\ cli' = [cli EXCEPT ![c] = r]
    BY <1>10 DEF lightdm_greeter_ensure_shared_data_dir_sync, Set
  <2>2. Alike(r, cli[c])
    BY <1>4, <1>11 DEF Kinds
  <2> HIDE DEF r
  <2> QED BY <1>2, <2>1, <2>2 DEF Kinds
<1> QED BY <1>6, <1>7, <1>8, <1>9, <1>10, <1>12

(* An authentication is asked for.                                         *)
LEMMA AuthenticateAnswers ==
  ASSUME GreeterIInv, AnswerIInv, NEW c \in Clients, NEW kind \in AuthKinds, NEW ok \in BOOLEAN,
         authenticate(c, kind, ok)
  PROVE  AnswerIInv'
<1> DEFINE n == cli[c].seq + 1
           r == [cli[c] EXCEPT !.cancelling = FALSE, !.seq = n, !.in_auth = TRUE, !.is_auth = FALSE]
           q == [r EXCEPT !.sent = n, !.cancelled = FALSE, !.asked = FALSE]
           m == [t |-> kind, auth |-> <<c, n>>]
<1>1. /\ Talk(c, cli[c], toServer[c], fromServer[c], SessionOf(c))
      /\ cli[c] \in ClientRecord /\ toServer[c] \in Seq(ToMessage) /\ fromServer[c] \in Seq(FromMessage)
      /\ ClientTypes /\ QueueTypes
  BY TalkFacts
<1>2. /\ UNCHANGED <<fromServer, served, session, answer>>
      /\ \/ cli' = [cli EXCEPT ![c] = q] /\ send_message(c, m)
         \/ cli' = [cli EXCEPT ![c] = r] /\ UNCHANGED toServer
  BY DEF authenticate, Set, srvVars, histVars
<1>3. n \in Nat /\ n > cli[c].sent
  <2>1. Fit(cli[c]) /\ cli[c].seq \in Nat /\ cli[c].sent \in Nat
    BY <1>1, KnowsFacts DEF GreeterIInv, Prompts
  <2> QED BY <2>1 DEF Fit
<1>4. m \in ToMessage /\ m.t \in AuthKinds /\ m.auth = <<c, n>>
  BY <1>1, <1>3 DEF ToMessage, Auths
<1> HIDE DEF n, m
<1>5. r \in ClientRecord
  <2>1. (~ok) \in BOOLEAN
    OBVIOUS
  <2> QED BY ZenonT(60), <1>1, <1>3, <2>1 DEF ClientRecord
<1>6. /\ r.sent = cli[c].sent /\ r.believed = cli[c].believed /\ r.prompt = cli[c].prompt
      /\ r.late = cli[c].late /\ r.waiting = cli[c].waiting /\ r.received = cli[c].received
      /\ r.show = cli[c].show
  BY <1>1 DEF ClientRecord
<1> HIDE DEF r
<1>7. /\ q.sent = n /\ q.believed = r.believed /\ q.prompt = r.prompt
      /\ q.late = r.late /\ q.waiting = r.waiting /\ q.received = r.received /\ q.show = r.show
  BY <1>5 DEF ClientRecord
<1> HIDE DEF q
<1>8. CASE cli' = [cli EXCEPT ![c] = q] /\ send_message(c, m)
  <2>1. Only(c) /\ cli'[c] = q /\ IsPut(toServer'[c], toServer[c], m)
    BY <1>1, <1>2, <1>8 DEF Only, ClientTypes, QueueTypes, send_message, IsPut
  <2>2. SessionOf(c).auth[2] \in Nat
    BY SessionFacts
  <2>3. q.believed = cli[c].believed /\ q.prompt = cli[c].prompt /\ q.late = cli[c].late
        /\ Open(q) = Open(cli[c])
    BY <1>6, <1>7 DEF Open
  <2>4. Talk(c, q, toServer'[c], fromServer[c], SessionOf(c))
    BY <1>1, <1>3, <1>4, <1>7, <2>1, <2>2, <2>3, TalkBegin
  <2> QED BY <1>2, <2>1, <2>4, ClientAnswers
<1>9. CASE cli' = [cli EXCEPT ![c] = r] /\ UNCHANGED toServer
  <2>1. Alike(r, cli[c])
    BY <1>6 DEF Alike, Open
  <2> QED BY <1>2, <1>9, <2>1, QuietAnswers
<1> QED BY <1>2, <1>8, <1>9

(* The other calls of the library.                                         *)
LEMMA CallAnswers ==
  ASSUME GreeterIInv, AnswerIInv, NEW c \in Clients, NEW ok \in BOOLEAN,
         \/ connect_to_daemon(c)
         \/ lightdm_greeter_respond(c, ok)
         \/ lightdm_greeter_cancel_authentication(c, ok)
         \/ lightdm_greeter_set_language(c)
         \/ exit(c)
         \/ show_prompt(c)
  PROVE  AnswerIInv'
<1>1. /\ Talk(c, cli[c], toServer[c], fromServer[c], SessionOf(c))
      /\ cli[c] \in ClientRecord /\ toServer[c] \in Seq(ToMessage) /\ fromServer[c] \in Seq(FromMessage)
      /\ ClientTypes /\ QueueTypes
  BY TalkFacts
<1>2. cli[c].waiting \in Nat /\ cli[c].received \in Nat /\ cli[c].show \in Nat
  BY <1>1, KnowsFacts
<1>3. CASE connect_to_daemon(c)
  <2>1. UNCHANGED <<cli, toServer, fromServer, served, session, answer>>
    BY <1>3 DEF connect_to_daemon, srvVars, histVars
  <2> QED BY <1>1, <2>1, ClientAnswers DEF Only
<1>4. CASE lightdm_greeter_respond(c, ok)
  <2>1. UNCHANGED <<fromServer, served, session, answer>> /\ cli[c].waiting > 0
    BY <1>4 DEF lightdm_greeter_respond, srvVars, histVars
  <2> DEFINE quiet == [cli[c] EXCEPT !.waiting = @ - 1, !.received = @ + 1]
             late == cli[c].late \/ cli[c].believed # cli[c].seq \/ cli[c].show > 0
             told == [cli[c] EXCEPT !.waiting = 0, !.received = 0, !.late = late]
             m == [t |-> "continue", n |-> cli[c].received + 1, auth |-> <<c, cli[c].prompt>>,
                   late |-> late]
  <2>4. \/ cli' = [cli EXCEPT ![c] = quiet] /\ UNCHANGED toServer
        \/ cli' = [cli EXCEPT ![c] = told] /\ send_message(c, m) /\ cli[c].waiting = 1
    BY <1>4 DEF lightdm_greeter_respond, Set
  <2>2. CASE cli' = [cli EXCEPT ![c] = quiet] /\ UNCHANGED toServer
    <3> DEFINE r == quiet
    <3>1. cli' = [cli EXCEPT ![c] = r] /\ UNCHANGED toServer
      BY <2>2
    <3>2. /\ r.waiting = cli[c].waiting - 1 /\ r.received = cli[c].received + 1 /\ r.show = cli[c].show
          /\ r.sent = cli[c].sent /\ r.believed = cli[c].believed /\ r.prompt = cli[c].prompt
          /\ r.late = cli[c].late
      BY <1>1 DEF ClientRecord
    <3>3. Alike(r, cli[c])
      <4>1. \A w, v, x \in Nat : (w - 1) + (v + 1) + x = w + v + x
        OBVIOUS
      <4> QED BY <1>2, <3>2, <4>1 DEF Alike, Open
    <3> HIDE DEF r
    <3> QED BY <2>1, <3>1, <3>3, QuietAnswers
  <2>3. CASE cli' = [cli EXCEPT ![c] = told] /\ send_message(c, m) /\ cli[c].waiting = 1
    <3> DEFINE r == told
    <3>1. cli' = [cli EXCEPT ![c] = r] /\ send_message(c, m) /\ cli[c].waiting = 1
      BY <2>3
    <3>2. late \in BOOLEAN /\ (late <=> cli[c].late \/ cli[c].believed # cli[c].seq \/ cli[c].show > 0)
      OBVIOUS
    <3> HIDE DEF late
    <3>3. m \in ToMessage /\ m.t = "continue" /\ m.n = cli[c].received + 1 /\ m.auth = <<c, cli[c].prompt>>
          /\ m.late = late
      BY <1>1, <3>2 DEF ToMessage, Auths, ClientRecord
    <3>4. /\ r.waiting = 0 /\ r.received = 0 /\ r.show = cli[c].show
          /\ r.sent = cli[c].sent /\ r.believed = cli[c].believed /\ r.prompt = cli[c].prompt
          /\ r.late = late
      BY <1>1 DEF ClientRecord
    <3>5. Open(r) = cli[c].show
      BY <1>2, <3>4 DEF Open
    <3> HIDE DEF r, m
    <3>6. Only(c) /\ cli'[c] = r /\ IsPut(toServer'[c], toServer[c], m)
      BY <1>1, <2>1, <3>1 DEF Only, ClientTypes, QueueTypes, send_message, IsPut
    <3>7. /\ SessionOf(c).auth[2] \in Nat /\ SessionOf(c).prompts \in Nat
          /\ SessionOf(c).state # "none" => SessionOf(c).auth = <<c, SessionOf(c).auth[2]>>
      BY SessionFacts
    <3>8. m.late <=> cli[c].late \/ cli[c].believed # cli[c].seq \/ cli[c].show > 0
      BY <3>2, <3>3
    <3>10. cli[c].sent <= cli[c].seq
      BY DEF GreeterIInv, Prompts, Fit
    <3>9. Talk(c, r, toServer'[c], fromServer[c], SessionOf(c))
      BY <1>1, <3>1, <3>3, <3>4, <3>5, <3>6, <3>7, <3>8, <3>10, TalkGive
    <3> QED BY <2>1, <3>6, <3>9, ClientAnswers
  <2> QED BY <2>2, <2>3, <2>4
<1>9. CASE lightdm_greeter_cancel_authentication(c, FALSE)
  <2> DEFINE r == [cli[c] EXCEPT !.cancelling = TRUE]
  <2>1. /\ cli' = [cli EXCEPT ![c] = r]
        /\ UNCHANGED <<toServer, fromServer, served, session, answer>>
    BY <1>9 DEF lightdm_greeter_cancel_authentication, Set, srvVars, histVars
  <2>2. Alike(r, cli[c])
    BY <1>1 DEF ClientRecord, Alike, Open
  <2> HIDE DEF r
  <2> QED BY <2>1, <2>2, QuietAnswers
<1>5. CASE lightdm_greeter_cancel_authentication(c, TRUE)
  <2> DEFINE r == [cli[c] EXCEPT !.cancelling = TRUE, !.cancelled = TRUE]
             m == [t |-> "cancel"]
  <2>1. cli' = [cli EXCEPT ![c] = r] /\ send_message(c, m) /\ UNCHANGED <<fromServer, served, session, answer>>
    BY <1>5 DEF lightdm_greeter_cancel_authentication, Set, srvVars, histVars
  <2>2. m \in ToMessage /\ m.t \notin AuthKinds \union {"continue"}
    BY DEF ToMessage, AuthKinds
  <2>3. Alike(r, cli[c])
    BY <1>1 DEF ClientRecord, Alike, Open
  <2> HIDE DEF r, m
  <2> QED BY <2>1, <2>2, <2>3, PutAnswers
<1>6. CASE lightdm_greeter_set_language(c)
  <2> DEFINE m == [t |-> "language"]
  <2>1. UNCHANGED <<cli, fromServer, served, session, answer>> /\ send_message(c, m)
    BY <1>6 DEF lightdm_greeter_set_language, srvVars, histVars
  <2>2. m \in ToMessage /\ m.t \notin AuthKinds \union {"continue"}
    BY DEF ToMessage, AuthKinds
  <2>3. cli' = [cli EXCEPT ![c] = cli[c]] /\ Alike(cli[c], cli[c])
    BY <1>1, <2>1 DEF ClientTypes, Alike
  <2> HIDE DEF m
  <2> QED BY <2>1, <2>2, <2>3, PutAnswers
<1>7. CASE exit(c)
  <2> DEFINE r == [NewClient EXCEPT !.gone = TRUE, !.seq = cli[c].seq, !.sent = cli[c].sent,
                                    !.cancelled = cli[c].cancelled, !.asked = cli[c].asked,
                                    !.late = cli[c].late]
  <2>1. /\ cli' = [cli EXCEPT ![c] = r] /\ fromServer' = [fromServer EXCEPT ![c] = <<>>]
        /\ UNCHANGED <<toServer, served, session, answer>>
    BY <1>7 DEF exit, Set, srvVars, histVars
  <2>2. /\ r.sent = cli[c].sent /\ r.late = cli[c].late /\ r.prompt = 0 /\ r.believed = 0
        /\ Open(r) = 0
    BY DEF NewClient, Open
  <2> HIDE DEF r
  <2>3. Only(c) /\ cli'[c] = r /\ fromServer'[c] = <<>>
    BY <1>1, <2>1 DEF Only, ClientTypes, QueueTypes
  <2>5. Talk(c, r, toServer[c], <<>>, SessionOf(c))
    BY <1>1, <2>2, TalkLost
  <2> QED BY <2>1, <2>3, <2>5, ClientAnswers
<1>8. CASE show_prompt(c)
  <2> DEFINE r == [cli[c] EXCEPT !.show = @ - 1, !.waiting = @ + 1]
  <2>1. cli' = [cli EXCEPT ![c] = r] /\ UNCHANGED <<toServer, fromServer, served, session, answer>>
    BY <1>8 DEF show_prompt, Set, netVars, srvVars, histVars
  <2>2. /\ r.show = cli[c].show - 1 /\ r.waiting = cli[c].waiting + 1 /\ r.received = cli[c].received
        /\ r.sent = cli[c].sent /\ r.believed = cli[c].believed /\ r.prompt = cli[c].prompt
        /\ r.late = cli[c].late
    BY <1>1 DEF ClientRecord
  <2>3. Alike(r, cli[c])
    <3>1. \A w, v, x \in Nat : (w + 1) + v + (x - 1) = w + v + x
      OBVIOUS
    <3> QED BY <1>2, <2>2, <3>1 DEF Alike, Open
  <2> HIDE DEF r
  <2> QED BY <2>1, <2>3, QuietAnswers
<1> QED BY <1>3, <1>4, <1>5, <1>6, <1>7, <1>8, <1>9

(* The client handles a message.                                           *)
LEMMA MessageAnswers ==
  ASSUME GreeterIInv, AnswerIInv, NEW c \in Clients, handle_message(c)
  PROVE  AnswerIInv'
<1>1. /\ Talk(c, cli[c], toServer[c], fromServer[c], SessionOf(c))
      /\ cli[c] \in ClientRecord /\ toServer[c] \in Seq(ToMessage) /\ fromServer[c] \in Seq(FromMessage)
      /\ ClientTypes /\ QueueTypes
  BY TalkFacts
<1>2. Alike(cli[c], cli[c])
  BY DEF Alike
<1>3. ASSUME NEW kind \in Kinds, NEW id, NEW q, q = request_complete(c, kind, id)
      PROVE  Alike(q, cli[c]) /\ Alike([q EXCEPT !.connected = TRUE], cli[c])
  <2>1. CASE cli[c].requests[kind] = <<>>
    <3>1. q = cli[c]
      BY <1>3, <2>1 DEF request_complete
    <3> QED BY <1>1, <1>2, <3>1 DEF ClientRecord, Alike, Open
  <2>2. CASE cli[c].requests[kind] # <<>>
    <3> DEFINE rs == [cli[c].requests EXCEPT ![kind] = Tail(@)]
               b == cli[c].crossed \/ Head(cli[c].requests[kind]) # id
               w == {y \in cli[c].nested : y[1] # Head(cli[c].requests[kind])}
               p == [cli[c] EXCEPT !.requests = rs, !.nested = w, !.crossed = b]
    <3>1. q = p
      BY <1>3, <2>2 DEF request_complete
    <3> HIDE DEF rs, b, w
    <3>2. /\ p.sent = cli[c].sent /\ p.believed = cli[c].believed /\ p.prompt = cli[c].prompt
          /\ p.late = cli[c].late /\ p.waiting = cli[c].waiting /\ p.received = cli[c].received
          /\ p.show = cli[c].show
      BY <1>1 DEF ClientRecord
    <3> DEFINE s == [p EXCEPT !.connected = TRUE]
    <3>3. /\ s.sent = cli[c].sent /\ s.believed = cli[c].believed /\ s.prompt = cli[c].prompt
          /\ s.late = cli[c].late /\ s.waiting = cli[c].waiting /\ s.received = cli[c].received
          /\ s.show = cli[c].show
      BY <1>1 DEF ClientRecord
    <3>4. Alike(p, cli[c])
      BY <3>2 DEF Alike, Open
    <3>5. Alike(s, cli[c])
      BY <3>3 DEF Alike, Open
    <3> QED BY <3>1, <3>4, <3>5
  <2> QED BY <2>1, <2>2
<1>4. CASE handle_connected(c)
  <2> DEFINE q == request_complete(c, "connect", Head(fromServer[c]).id)
             r == [q EXCEPT !.connected = TRUE]
  <2>1. Takes(c, "connected") /\ cli' = [cli EXCEPT ![c] = r]
    BY <1>4 DEF handle_connected, Set
  <2>2. Alike(r, cli[c])
    BY <1>3 DEF Kinds
  <2> HIDE DEF r
  <2> QED BY <2>1, <2>2, TakeAnswers
<1>5. CASE handle_session_result(c)
  <2> DEFINE r == request_complete(c, "start", Head(fromServer[c]).id)
  <2>1. Takes(c, "start") /\ cli' = [cli EXCEPT ![c] = r]
    BY <1>5 DEF handle_session_result, Set
  <2>2. Alike(r, cli[c])
    BY <1>3 DEF Kinds
  <2> HIDE DEF r
  <2> QED BY <2>1, <2>2, TakeAnswers
<1>6. CASE handle_shared_dir_result(c)
  <2> DEFINE r == request_complete(c, "dir", Head(fromServer[c]).id)
  <2>1. Takes(c, "dir") /\ cli' = [cli EXCEPT ![c] = r]
    BY <1>6 DEF handle_shared_dir_result, Set
  <2>2. Alike(r, cli[c])
    BY <1>3 DEF Kinds
  <2> HIDE DEF r
  <2> QED BY <2>1, <2>2, TakeAnswers
<1>7. CASE handle_prompt_authentication(c)
  <2> DEFINE m == Head(fromServer[c])
             late == cli[c].late \/ cli[c].show > 0
             r == [cli[c] EXCEPT !.received = 0, !.waiting = 0, !.show = @ + m.n,
                                 !.prompt = m.auth[2], !.believed = cli[c].seq, !.late = late]
  <2>1. /\ Takes(c, "prompt")
        /\ cli' = [cli EXCEPT ![c] = IF m.auth # Auth(c) \/ cli[c].cancelling THEN cli[c] ELSE r]
    BY <1>7 DEF handle_prompt_authentication, Set
  <2>2. m.n \in Nat /\ m.auth \in Auths /\ m.t = "prompt"
    BY <1>1, <2>1, TailFacts, MessageFacts, GreeterAssumption DEF Takes
  <2>3. CASE m.auth # Auth(c) \/ cli[c].cancelling
    <3>1. cli' = [cli EXCEPT ![c] = cli[c]]
      BY <2>1, <2>3
    <3> QED BY <1>2, <2>1, <3>1, TakeAnswers
  <2>4. CASE ~(m.auth # Auth(c) \/ cli[c].cancelling)
    <3>1. cli' = [cli EXCEPT ![c] = r] /\ m.auth[2] = cli[c].seq
      BY <2>1, <2>4 DEF Auth
    <3>6. cli[c].seq = cli[c].sent /\ cli[c].show \in Nat
      <4>1. 1 \in 1..Len(fromServer[c]) /\ m = fromServer[c][1]
        BY <1>1, <2>1, TailFacts DEF Takes
      <4>2. m.auth[2] <= cli[c].sent
        BY <1>1, <2>2, <4>1 DEF Talk, Numbered
      <4>3. cli[c].sent <= cli[c].seq
        BY DEF GreeterIInv, Prompts, Fit
      <4> QED BY <1>1, <3>1, <4>2, <4>3, KnowsFacts
    <3>7. (cli[c].late => late) /\ (~late => cli[c].show = 0) /\ late \in BOOLEAN
      BY <3>6
    <3> HIDE DEF late
    <3>2. /\ r.received = 0 /\ r.waiting = 0 /\ r.show = cli[c].show + m.n /\ r.prompt = m.auth[2]
          /\ r.believed = cli[c].seq /\ r.sent = cli[c].sent /\ r.late = late
      BY <1>1 DEF ClientRecord
    <3>3. /\ ~late => Open(r) = m.n
          /\ r.prompt = cli[c].sent /\ r.believed = cli[c].sent
      BY <2>2, <3>1, <3>2, <3>6, <3>7 DEF Open
    <3> HIDE DEF r
    <3>4. /\ Only(c) /\ cli'[c] = r /\ IsRest(fromServer'[c], fromServer[c])
          /\ UNCHANGED <<toServer, served, session, answer>>
      BY <1>1, <2>1, <3>1 DEF Only, ClientTypes, QueueTypes, Takes, IsRest, srvVars, histVars
    <3>5. Talk(c, r, toServer[c], fromServer'[c], SessionOf(c))
      BY <1>1, <2>2, <3>1, <3>2, <3>3, <3>4, <3>6, <3>7, TalkPrompt
    <3> QED BY <3>4, <3>5, ClientAnswers
  <2> QED BY <2>3, <2>4
<1>8. CASE handle_end_authentication(c)
  <2> DEFINE m == Head(fromServer[c])
             r == IF m.auth # Auth(c) THEN cli[c]
                  ELSE [cli[c] EXCEPT !.cancelling = FALSE, !.is_auth = m.ok, !.in_auth = FALSE]
  <2>1. Takes(c, "end") /\ cli' = [cli EXCEPT ![c] = r]
    BY <1>8 DEF handle_end_authentication, Set
  <2>2. Alike(r, cli[c])
    BY <1>1 DEF ClientRecord, Alike, Open
  <2> HIDE DEF r
  <2> QED BY <2>1, <2>2, TakeAnswers
<1>9. CASE handle_idle(c) \/ handle_reset(c)
  <2>1. cli' = [cli EXCEPT ![c] = cli[c]] /\ (Takes(c, "idle") \/ Takes(c, "reset"))
    BY <1>1, <1>9 DEF ClientTypes, handle_idle, handle_reset
  <2> QED BY <1>2, <2>1, TakeAnswers
<1> QED BY <1>4, <1>5, <1>6, <1>7, <1>8, <1>9 DEF handle_message

(* What the daemon says is put behind the rest, or lost.                   *)
LEMMA WriteAnswers ==
  ASSUME QueueTypes, NEW c \in Clients, served = c, NEW m \in FromMessage, write_message(m)
  PROVE  /\ \A x \in Clients \ {c} : fromServer'[x] = fromServer[x]
         /\ fromServer'[c] = fromServer[c] \/ IsPut(fromServer'[c], fromServer[c], m)
<1>1. PICK fs \in Seq(FromMessage) :
         /\ fromServer' = [fromServer EXCEPT ![c] = fs] /\ fromServer'[c] = fs
         /\ fs = IF cli[c].gone THEN fromServer[c] ELSE Append(fromServer[c], m)
  BY WriteFacts
<1> QED BY <1>1 DEF QueueTypes, IsPut

(* The daemon has read a message, and may have replied.                    *)
LEMMA ReadAnswers ==
  ASSUME GreeterIInv, AnswerIInv, NEW c \in Clients, served = c, NEW t, Reads(t), UNCHANGED answer,
         Talk(c, cli[c], toServer'[c], fromServer[c], session'), InPipe(session'),
         UNCHANGED fromServer \/ \E m \in FromMessage : m.t # "prompt" /\ write_message(m)
  PROVE  AnswerIInv'
<1>1. QueueTypes /\ Taken /\ fromServer[c] \in Seq(FromMessage)
  BY TalkFacts
<1>2. UNCHANGED <<cli, served>> /\ \A x \in Clients \ {c} : toServer'[x] = toServer[x]
  BY <1>1 DEF Reads, QueueTypes
<1>3. Taken'
  BY <1>1 DEF Taken
<1>4. CASE UNCHANGED fromServer
  <2>1. Only(c)
    BY <1>2, <1>4 DEF Only
  <2> QED BY <1>2, <1>3, <1>4, <2>1, DaemonAnswers
<1>5. ASSUME NEW m \in FromMessage, m.t # "prompt", write_message(m) PROVE AnswerIInv'
  <2>1. /\ \A x \in Clients \ {c} : fromServer'[x] = fromServer[x]
        /\ fromServer'[c] = fromServer[c] \/ IsPut(fromServer'[c], fromServer[c], m)
    BY <1>1, <1>5, WriteAnswers
  <2>2. Only(c)
    BY <1>2, <2>1 DEF Only
  <2>3. Talk(c, cli[c], toServer'[c], fromServer'[c], session')
    BY <1>1, <1>5, <2>1, TalkTell
  <2> QED BY <1>2, <1>3, <2>2, <2>3, DaemonAnswers
<1> QED BY <1>4, <1>5

(* What the daemon reads.                                                  *)
LEMMA RestFacts ==
  ASSUME GreeterIInv, NEW c \in Clients, served = c, NEW t, Reads(t)
  PROVE  IsRest(toServer'[c], toServer[c]) /\ Head(toServer[c]).t = t /\ Msg = Head(toServer[c])
                                           /\ Head(toServer[c]) \in ToMessage
<1>1. QueueTypes
  BY DEF GreeterIInv
<1>2. IsRest(toServer'[c], toServer[c])
  BY <1>1 DEF Reads, IsRest, QueueTypes
<1> QED BY <1>2, ReadFacts

(* The handlers that leave the session alone, drop it or hand it over.     *)
LEMMA OtherAnswers ==
  ASSUME GreeterIInv, AnswerIInv, NEW c \in Clients, served = c,
         \/ handle_connect \/ handle_ensure_shared_dir \/ handle_set_language
         \/ handle_cancel_authentication \/ \E b \in BOOLEAN : handle_start_session(b)
  PROVE  AnswerIInv'
<1>1. /\ Talk(c, cli[c], toServer[c], fromServer[c], session)
      /\ cli[c] \in ClientRecord /\ toServer[c] \in Seq(ToMessage) /\ fromServer[c] \in Seq(FromMessage)
      /\ InPipe(session)
  BY TalkFacts
<1>2. NoSession.state = "none" /\ InPipe(NoSession)
  BY PipeNew DEF NoSession
<1>3. ASSUME NEW t, Reads(t), t \notin AuthKinds \union {"continue"}, UNCHANGED answer,
             UNCHANGED session \/ session' = NoSession,
             \/ UNCHANGED fromServer
             \/ \E k \in {"connected", "start", "dir"}, id \in Nat : write_message([t |-> k, id |-> id])
      PROVE  AnswerIInv'
  <2>1. IsRest(toServer'[c], toServer[c]) /\ Head(toServer[c]).t = t
    BY <1>3, RestFacts
  <2>2. Talk(c, cli[c], toServer'[c], fromServer[c], session)
    BY <1>1, <1>3, <2>1, TalkRead
  <2>3. Talk(c, cli[c], toServer'[c], fromServer[c], NoSession)
    BY <1>2, <2>2, TalkDrop
  <2>4. Talk(c, cli[c], toServer'[c], fromServer[c], session') /\ InPipe(session')
    BY <1>1, <1>2, <1>3, <2>2, <2>3
  <2>5. UNCHANGED fromServer \/ \E m \in FromMessage : m.t # "prompt" /\ write_message(m)
    <3>1. ASSUME NEW k \in {"connected", "start", "dir"}, NEW id \in Nat
          PROVE  [t |-> k, id |-> id] \in FromMessage /\ [t |-> k, id |-> id].t # "prompt"
      BY DEF FromMessage
    <3> QED BY <1>3, <3>1
  <2> QED BY <1>3, <2>4, <2>5, ReadAnswers
<1>4. ASSUME NEW t \in Kinds, Reads(t) PROVE Msg.id \in Nat
  BY <1>4, RestFacts, MessageFacts
<1>5. CASE handle_connect
  <2>1. /\ Reads("connect") /\ UNCHANGED <<session, answer>>
        /\ write_message([t |-> "connected", id |-> Msg.id])
    BY <1>5 DEF handle_connect, histVars
  <2>2. Msg.id \in Nat
    BY <1>4, <2>1 DEF Kinds
  <2> QED BY <1>3, <2>1, <2>2 DEF AuthKinds
<1>6. CASE handle_ensure_shared_dir
  <2>1. /\ Reads("dir") /\ UNCHANGED <<session, answer>>
        /\ write_message([t |-> "dir", id |-> Msg.id])
    BY <1>6 DEF handle_ensure_shared_dir, histVars
  <2>2. Msg.id \in Nat
    BY <1>4, <2>1 DEF Kinds
  <2> QED BY <1>3, <2>1, <2>2 DEF AuthKinds
<1>7. CASE handle_set_language
  <2>1. Reads("language") /\ UNCHANGED <<session, answer, fromServer>>
    BY <1>7 DEF handle_set_language, histVars
  <2> QED BY <1>3, <2>1 DEF AuthKinds
<1>8. CASE handle_cancel_authentication
  <2>1. Reads("cancel") /\ session' = NoSession /\ UNCHANGED <<answer, fromServer>>
    BY <1>8 DEF handle_cancel_authentication, histVars
  <2> QED BY <1>3, <2>1 DEF AuthKinds
<1>9. ASSUME NEW b \in BOOLEAN, handle_start_session(b) PROVE AnswerIInv'
  <2>1. /\ Reads("start") /\ (UNCHANGED session \/ session' = NoSession) /\ UNCHANGED answer
        /\ write_message([t |-> "start", id |-> Msg.id])
    BY <1>9 DEF handle_start_session
  <2>2. Msg.id \in Nat
    BY <1>4, <2>1 DEF Kinds
  <2> QED BY <1>3, <2>1, <2>2 DEF AuthKinds
<1> QED BY <1>5, <1>6, <1>7, <1>8, <1>9

(* The handlers that begin an authentication.                              *)
LEMMA AuthAnswers ==
  ASSUME GreeterIInv, AnswerIInv, NEW c \in Clients, served = c,
         \/ handle_authenticate
         \/ \E b \in BOOLEAN : handle_authenticate_as_guest(b) \/ handle_authenticate_remote(b)
  PROVE  AnswerIInv'
<1>1. /\ Talk(c, cli[c], toServer[c], fromServer[c], session)
      /\ cli[c] \in ClientRecord /\ toServer[c] \in Seq(ToMessage) /\ fromServer[c] \in Seq(FromMessage)
  BY TalkFacts
<1>2. ASSUME NEW t \in AuthKinds, Reads(t), UNCHANGED answer, session' \in create_session(Msg.auth),
             UNCHANGED fromServer \/ \E ok \in BOOLEAN : send_end_authentication(Msg.auth, ok)
      PROVE  AnswerIInv'
  <2>1. /\ IsRest(toServer'[c], toServer[c]) /\ Head(toServer[c]).t = t /\ Msg = Head(toServer[c])
        /\ Msg.auth \in Auths
    BY <1>2, RestFacts, MessageFacts
  <2>2. /\ session'.state = "none" \/ session'.auth = Msg.auth
        /\ session'.replies = <<>> /\ session'.prompts = 0
    <3>1. ASSUME NEW a, NEW x \in create_session(a)
          PROVE  (x.state = "none" \/ x.auth = a) /\ x.replies = <<>> /\ x.prompts = 0
      <4>1. CASE x = NoSession
        BY <4>1 DEF NoSession
      <4>2. ASSUME NEW st, x = [NoSession EXCEPT !.state = st, !.auth = a]
            PROVE  x.auth = a /\ x.replies = <<>> /\ x.prompts = 0
        BY <4>2 DEF NoSession
      <4> QED BY <4>1, <4>2 DEF create_session
    <3> QED BY <1>2, <3>1
  <2>3. InPipe(session')
    BY <2>2, PipeNew
  <2>4. Talk(c, cli[c], toServer'[c], fromServer[c], session')
    BY <1>1, <1>2, <2>1, <2>2, TalkAuth
  <2>5. UNCHANGED fromServer \/ \E m \in FromMessage : m.t # "prompt" /\ write_message(m)
    <3>1. ASSUME NEW ok \in BOOLEAN
          PROVE  /\ [t |-> "end", auth |-> Msg.auth, ok |-> ok] \in FromMessage
                 /\ [t |-> "end", auth |-> Msg.auth, ok |-> ok].t # "prompt"
      BY <2>1 DEF FromMessage
    <3> QED BY <1>2, <3>1 DEF send_end_authentication
  <2> QED BY <1>2, <2>3, <2>4, <2>5, ReadAnswers
<1>3. NoSession \in create_session(Msg.auth)
  BY DEF create_session
<1>4. CASE handle_authenticate
  <2>1. /\ Reads("user") /\ session' \in create_session(Msg.auth) /\ UNCHANGED answer
        /\ send_end_authentication(Msg.auth, FALSE) \/ UNCHANGED fromServer
    BY <1>4 DEF handle_authenticate, histVars
  <2> QED BY <1>2, <2>1 DEF AuthKinds
<1>5. ASSUME NEW b \in BOOLEAN, handle_authenticate_as_guest(b) PROVE AnswerIInv'
  <2>1. /\ Reads("guest") /\ session' = NoSession /\ UNCHANGED answer
        /\ send_end_authentication(Msg.auth, b)
    BY <1>5 DEF handle_authenticate_as_guest, histVars
  <2> QED BY <1>2, <1>3, <2>1 DEF AuthKinds
<1>6. ASSUME NEW b \in BOOLEAN, handle_authenticate_remote(b) PROVE AnswerIInv'
  <2>1. /\ Reads("remote") /\ UNCHANGED answer
        /\ session' \in create_session(Msg.auth) \/ session' = NoSession
        /\ send_end_authentication(Msg.auth, FALSE) \/ UNCHANGED fromServer
    BY <1>6 DEF handle_authenticate_remote, histVars
  <2> QED BY <1>2, <1>3, <2>1 DEF AuthKinds
<1> QED BY <1>4, <1>5, <1>6

(* Answers are read.                                                       *)
LEMMA ContinueAnswers ==
  ASSUME GreeterIInv, AnswerIInv, NEW c \in Clients, served = c, handle_continue_authentication
  PROVE  AnswerIInv'
<1> DEFINE m == Head(toServer[c])
           a == [error |-> m.n # session.prompts, given |-> m.auth, late |-> m.late]
           p == Append(session.replies, a)
<1>1. /\ Talk(c, cli[c], toServer[c], fromServer[c], session)
      /\ cli[c] \in ClientRecord /\ toServer[c] \in Seq(ToMessage) /\ fromServer[c] \in Seq(FromMessage)
      /\ InPipe(session)
  BY TalkFacts
<1>2. Reads("continue") /\ UNCHANGED <<fromServer, answer>>
  BY DEF handle_continue_authentication, histVars
<1>3. /\ IsRest(toServer'[c], toServer[c]) /\ m.t = "continue" /\ Msg = m
      /\ m.auth \in Auths /\ m.late \in BOOLEAN
  BY <1>2, RestFacts, MessageFacts
<1>4. session \in SessionRecord /\ session.prompts \in Nat
  BY <1>2, ReadFacts DEF SessionRecord
<1>5. /\ m.n \in Nat \ {0}
      /\ ~m.late /\ session.state # "none" => m.auth = session.auth
      /\ ~m.late /\ Alive(session) => m.n = session.prompts
  BY <1>1, <1>3, TalkTimely DEF IsRest
<1>6. CASE session.state = "none"
  <2>1. session' = session
    BY <1>6 DEF handle_continue_authentication
  <2>2. Talk(c, cli[c], toServer'[c], fromServer[c], session)
    BY <1>1, <1>3, <1>4, <1>6, TalkAnswer
  <2> QED BY <1>1, <1>2, <2>1, <2>2, ReadAnswers
<1>7. CASE session.state # "none"
  <2>1. session' = IF m.n # session.prompts THEN [session EXCEPT !.replies = p]
                   ELSE [session EXCEPT !.replies = p, !.prompts = 0]
    <3>1. session' =
            IF m.n # session.prompts
              THEN [session EXCEPT !.replies = Append(@, [error |-> TRUE, given |-> m.auth, late |-> m.late])]
              ELSE [session EXCEPT !.replies = Append(@, [error |-> FALSE, given |-> m.auth, late |-> m.late]),
                                   !.prompts = 0]
      BY <1>3, <1>7 DEF handle_continue_authentication
    <3>2. CASE m.n # session.prompts
      <4>1. a = [error |-> TRUE, given |-> m.auth, late |-> m.late]
        BY <3>2
      <4> HIDE DEF a, m
      <4> QED BY <3>1, <3>2, <4>1
    <3>3. CASE m.n = session.prompts
      <4>1. a = [error |-> FALSE, given |-> m.auth, late |-> m.late]
        BY <3>3
      <4> HIDE DEF a, m
      <4> QED BY <3>1, <3>3, <4>1
    <3> QED BY <3>2, <3>3
  <2> HIDE DEF p, m
  <2>2. /\ session'.state = session.state /\ session'.auth = session.auth /\ session'.ok = session.ok
        /\ session'.replies = p
        /\ session'.prompts = IF m.n = session.prompts THEN 0 ELSE session.prompts
    BY <1>4, <2>1 DEF SessionRecord
  <2>3. Talk(c, cli[c], toServer'[c], fromServer[c], session')
    BY <1>1, <1>3, <1>4, <2>2, TalkAnswer DEF m
  <2>4. IsPut(session'.replies, session.replies, a)
    BY <2>2 DEF IsPut, p
  <2>5. a = [error |-> m.n # session.prompts, given |-> m.auth, late |-> m.late]
    OBVIOUS
  <2> HIDE DEF a
  <2>6. InPipe(session')
    BY <1>1, <1>3, <1>4, <1>5, <1>7, <2>2, <2>4, <2>5, PipeGive
  <2> QED BY <1>2, <2>3, <2>6, ReadAnswers
<1> QED BY <1>6, <1>7

(* The steps of PAM, and of the seat.                                      *)
LEMMA PAMAnswers ==
  ASSUME GreeterIInv, AnswerIInv, PAM \/ greeter_idle \/ greeter_reset
  PROVE  AnswerIInv'
<1>1. QueueTypes /\ ClientTypes /\ DaemonTypes /\ Links
  BY DEF GreeterIInv
<1>2. PICK c \in Clients : served = c
  <2>1. ASSUME served = NoClient PROVE session.state = "none"
    BY <1>1, <2>1 DEF Links, NoSession
  <2>2. served # NoClient
    BY <2>1 DEF PAM, pam_messages_cb, pam_conv_cb, authentication_complete_cb,
                greeter_idle, greeter_reset, SeatTells
  <2> QED BY <1>1, <2>2 DEF DaemonTypes
<1>3. /\ Talk(c, cli[c], toServer[c], fromServer[c], session)
      /\ cli[c] \in ClientRecord /\ toServer[c] \in Seq(ToMessage) /\ fromServer[c] \in Seq(FromMessage)
      /\ InPipe(session) /\ Taken
  BY <1>2, TalkFacts
<1>4. /\ srv.seq \in Nat /\ session \in SessionRecord
      /\ session.state # "none" => session.auth = <<c, srv.seq>> /\ session.auth[2] \in Nat
  <2>1. srv.seq \in Nat /\ session \in SessionRecord
    BY <1>1 DEF DaemonTypes, ServerRecord
  <2> QED BY <1>2, <2>1, SessionFacts
<1>5. ASSUME NEW m \in FromMessage, write_message(m), m.t # "prompt",
             UNCHANGED <<cli, toServer, served, answer>>,
             Talk(c, cli[c], toServer[c], fromServer[c], session'), InPipe(session')
      PROVE  AnswerIInv'
  <2>1. /\ \A x \in Clients \ {c} : fromServer'[x] = fromServer[x]
        /\ fromServer'[c] = fromServer[c] \/ IsPut(fromServer'[c], fromServer[c], m)
    BY <1>1, <1>2, <1>5, WriteAnswers
  <2>2. Only(c) /\ Taken'
    BY <1>3, <1>5, <2>1 DEF Only, Taken
  <2>3. Talk(c, cli[c], toServer'[c], fromServer'[c], session')
    BY <1>3, <1>5, <2>1, TalkTell
  <2> QED BY <1>2, <1>5, <2>2, <2>3, DaemonAnswers
<1>6. ASSUME NEW n \in 0..MaxPrompts, pam_messages_cb(n) PROVE AnswerIInv'
  <2> DEFINE m == [t |-> "prompt", auth |-> <<c, srv.seq>>, n |-> n]
             a == [error |-> FALSE, given |-> session.auth, late |-> FALSE]
             q == IF n > 0 THEN session.replies ELSE Append(session.replies, a)
  <2>1. /\ session.state = "running" /\ write_message(m)
        /\ session' = [session EXCEPT !.state = "asking", !.asks = @ + 1, !.prompts = n, !.replies = q]
        /\ UNCHANGED <<cli, toServer, served, answer>>
    BY <1>2, <1>6 DEF pam_messages_cb, histVars
  <2>2. m \in FromMessage /\ m.t = "prompt" /\ m.auth = session.auth /\ m.n = n /\ n \in Nat
    BY <1>4, <2>1, GreeterAssumption DEF FromMessage, Auths
  <2>3. a = [error |-> FALSE, given |-> session.auth, late |-> FALSE]
    OBVIOUS
  <2> HIDE DEF m, a
  <2>4. (n > 0 /\ q = session.replies) \/ (n = 0 /\ IsPut(q, session.replies, a))
    <3>1. CASE n > 0
      BY <3>1
    <3>2. CASE ~(n > 0)
      <4>1. n = 0 /\ q = Append(session.replies, a)
        BY <2>2, <3>2
      <4> QED BY <4>1 DEF IsPut
    <3> QED BY <3>1, <3>2
  <2> HIDE DEF q
  <2>5. /\ session'.state = "asking" /\ session'.auth = session.auth /\ session'.prompts = n
        /\ session'.replies = q
    BY <1>4, <2>1 DEF SessionRecord
  <2>6. InPipe(session')
    BY <1>3, <1>4, <2>1, <2>3, <2>4, <2>5, PipeAsk
  <2>7. /\ \A x \in Clients \ {c} : fromServer'[x] = fromServer[x]
        /\ fromServer'[c] = fromServer[c] \/ IsPut(fromServer'[c], fromServer[c], m)
    BY <1>1, <1>2, <2>1, <2>2, WriteAnswers
  <2>8. Only(c) /\ Taken'
    BY <1>3, <2>1, <2>7 DEF Only, Taken
  <2>9. Talk(c, cli[c], toServer'[c], fromServer'[c], session')
    BY <1>3, <1>4, <2>1, <2>2, <2>5, <2>7, TalkAsk
  <2> QED BY <1>2, <2>1, <2>6, <2>8, <2>9, DaemonAnswers
<1>7. ASSUME NEW ok \in BOOLEAN, NEW user \in BOOLEAN, authentication_complete_cb(ok, user)
      PROVE  AnswerIInv'
  <2> DEFINE m == [t |-> "end", auth |-> <<c, srv.seq>>, ok |-> ok /\ user]
  <2>1. /\ session.state # "none" /\ (ok => session.state = "running") /\ write_message(m)
        /\ session' = [session EXCEPT !.state = "complete", !.ok = ok]
        /\ UNCHANGED <<cli, toServer, served, answer>>
    BY <1>2, <1>7 DEF authentication_complete_cb, send_end_authentication, histVars
  <2>2. m \in FromMessage /\ m.t # "prompt"
    BY <1>4 DEF FromMessage, Auths
  <2> HIDE DEF m
  <2>3. /\ session'.state = "complete" /\ session'.auth = session.auth /\ session'.ok = ok
        /\ session'.prompts = session.prompts /\ session'.replies = session.replies
    BY <1>4, <2>1 DEF SessionRecord
  <2>4. InPipe(session')
    BY <1>3, <2>1, <2>3, PipeComplete
  <2>5. Alive(session') => Alive(session)
    BY <2>1, <2>3 DEF Alive
  <2>6. Talk(c, cli[c], toServer[c], fromServer[c], session')
    BY <1>3, <2>1, <2>3, <2>5, TalkSession
  <2> QED BY <1>5, <2>1, <2>2, <2>4, <2>6
<1>8. CASE greeter_idle \/ greeter_reset
  <2>1. PICK t \in {"idle", "reset"} :
          write_message([t |-> t]) /\ UNCHANGED <<cli, toServer, served, session, answer>>
    BY <1>8 DEF greeter_idle, greeter_reset, SeatTells, srvVars, histVars
  <2> DEFINE m == [t |-> t]
  <2>2. m \in FromMessage /\ m.t # "prompt" /\ write_message(m)
    BY <2>1 DEF FromMessage
  <2> HIDE DEF m
  <2> QED BY <1>3, <1>5, <2>1, <2>2
<1>9. CASE pam_conv_cb
  <2> DEFINE r == Head(session.replies)
  <2>1. /\ session.state = "asking" /\ session.replies # <<>>
        /\ session' = [session EXCEPT !.replies = Tail(@), !.state = IF r.error THEN "failing" ELSE "running"]
        /\ answer' = IF r.error THEN answer ELSE [auth |-> session.auth, given |-> r.given, late |-> r.late]
        /\ UNCHANGED <<cli, toServer, fromServer, served>>
    BY <1>9 DEF pam_conv_cb, netVars
  <2>2. /\ session'.state = IF r.error THEN "failing" ELSE "running"
        /\ session'.auth = session.auth /\ session'.prompts = session.prompts
        /\ session'.replies = Tail(session.replies)
    BY <1>4, <2>1 DEF SessionRecord
  <2>3. IsRest(session'.replies, session.replies)
    BY <2>1, <2>2 DEF IsRest
  <2> HIDE DEF r
  <2>4. InPipe(session') /\ (r.late \/ r.given = session.auth)
    BY <1>3, <1>4, <2>1, <2>2, <2>3, PipeTake DEF r
  <2>5. Taken'
    BY <1>3, <2>1, <2>4 DEF Taken
  <2>6. Alive(session)
    BY <2>1 DEF Alive
  <2>7. Talk(c, cli[c], toServer[c], fromServer[c], session')
    BY <1>3, <2>1, <2>2, <2>6, TalkSession
  <2>8. Only(c)
    BY <2>1 DEF Only
  <2> QED BY <1>2, <2>1, <2>4, <2>5, <2>7, <2>8, DaemonAnswers
<1> QED BY <1>6, <1>7, <1>8, <1>9 DEF PAM

(* The socket: a greeter is served, refused or dropped.                    *)
LEMMA SocketAnswers ==
  ASSUME GreeterIInv, AnswerIInv, greeter_disconnected_cb \/ \E c \in Clients : greeter_connect_cb(c)
  PROVE  AnswerIInv'
<1>1. ClientTypes /\ QueueTypes /\ DaemonTypes /\ Links /\ InPipe(session) /\ Taken
  BY DEF GreeterIInv, AnswerIInv
<1>2. NoSession.state = "none" /\ InPipe(NoSession)
  BY PipeNew DEF NoSession
<1>3. ASSUME NEW c \in Clients, greeter_connect_cb(c), served = NoClient PROVE AnswerIInv'
  <2>1. served' = c /\ UNCHANGED <<cli, toServer, fromServer, session, answer>> /\ session = NoSession
    BY <1>1, <1>3 DEF greeter_connect_cb, histVars, Links
  <2>2. ASSUME NEW x \in Clients PROVE SessionOf(x)' = SessionOf(x)
    BY <1>3, <2>1 DEF SessionOf
  <2>3. ASSUME NEW x \in Clients
        PROVE  Talk(x, cli'[x], toServer'[x], fromServer'[x], SessionOf(x)')
    BY <2>1, <2>2 DEF AnswerIInv
  <2>4. (InPipe(session) /\ Taken)'
    BY <1>1, <2>1 DEF Taken
  <2> QED BY <2>3, <2>4 DEF AnswerIInv
<1>4. ASSUME NEW c \in Clients, greeter_connect_cb(c), served # NoClient PROVE AnswerIInv'
  <2>1. /\ toServer' = [toServer EXCEPT ![c] = <<>>] /\ link[c] = "pending"
        /\ UNCHANGED <<cli, fromServer, served, session, answer>>
    BY <1>4 DEF greeter_connect_cb, histVars
  <2>2. SessionOf(c).state = "none"
    BY <1>1, <1>2, <2>1 DEF SessionOf, Links
  <2>3. Only(c) /\ toServer'[c] = <<>>
    BY <1>1, <2>1 DEF Only, QueueTypes
  <2>4. Talk(c, cli[c], <<>>, fromServer[c], SessionOf(c))
    BY <2>2, TalkFacts, TalkRefused
  <2> QED BY <2>1, <2>3, <2>4, ClientAnswers
<1>5. CASE greeter_disconnected_cb
  <2>1. served' = NoClient /\ session' = NoSession /\ UNCHANGED <<cli, toServer, fromServer, answer>>
    BY <1>5 DEF greeter_disconnected_cb, histVars
  <2>2. ASSUME NEW x \in Clients
        PROVE  Talk(x, cli'[x], toServer'[x], fromServer'[x], SessionOf(x)')
    <3>1. SessionOf(x)' = NoSession
      BY <2>1, GreeterAssumption DEF SessionOf
    <3>2. Talk(x, cli[x], toServer[x], fromServer[x], SessionOf(x))
      BY DEF AnswerIInv
    <3>3. Talk(x, cli[x], toServer[x], fromServer[x], NoSession)
      BY <1>2, <3>2, TalkDrop
    <3> QED BY <2>1, <3>1, <3>3
  <2>3. (InPipe(session) /\ Taken)'
    BY <1>1, <1>2, <2>1 DEF Taken
  <2> QED BY <2>2, <2>3 DEF AnswerIInv
<1> QED BY <1>3, <1>4, <1>5

(* No answer is anywhere before anything has been said.                    *)
LEMMA AnswerInit == GreeterInit => AnswerIInv
<1> SUFFICES ASSUME GreeterInit PROVE AnswerIInv
  OBVIOUS
<1>1. ASSUME NEW c \in Clients PROVE Talk(c, cli[c], toServer[c], fromServer[c], SessionOf(c))
  <2>1. /\ cli[c] = NewClient /\ toServer[c] = <<>> /\ fromServer[c] = <<>>
        /\ SessionOf(c) = NoSession
    BY DEF GreeterInit, SessionOf
  <2>2. NewClient.prompt = 0 /\ NewClient.believed = 0 /\ NewClient.sent = 0
    BY DEF NewClient
  <2>3. Begins(<<>>) = {} /\ Gives(<<>>) = {} /\ Timely(<<>>) = {} /\ 1..Len(<<>>) = {}
    BY DEF Begins, Gives, Timely
  <2>4. NoSession.state = "none" /\ ~Alive(NoSession)
    BY DEF NoSession, Alive
  <2>5. Numbered(c, NewClient, <<>>, <<>>)
    BY <2>2, <2>3 DEF Numbered
  <2>6. Current(c, NewClient, <<>>, NoSession) /\ Given(NewClient, <<>>, NoSession)
        /\ OnePlace(NewClient, <<>>, <<>>, NoSession)
    BY <2>3, <2>4 DEF Current, Given, OnePlace
  <2> QED BY <2>1, <2>5, <2>6 DEF Talk
<1>2. InPipe(session) /\ Taken
  BY PipeNew DEF GreeterInit, NoSession, NoAnswer, Taken
<1> QED BY <1>1, <1>2 DEF AnswerIInv

(* Every step keeps what PAM asked in one place.                           *)
LEMMA AnswerNext == GreeterIInv /\ AnswerIInv /\ [GreeterNext]_greeterVars => AnswerIInv'
<1> SUFFICES ASSUME GreeterIInv, AnswerIInv, [GreeterNext]_greeterVars PROVE AnswerIInv'
  OBVIOUS
<1>1. CASE UNCHANGED greeterVars
  BY <1>1 DEF greeterVars, netVars, srvVars, histVars, AnswerIInv, SessionOf, Taken
<1>2. ASSUME NEW c \in Clients, Application(c) PROVE AnswerIInv'
  <2>1. ASSUME NEW kind \in AuthKinds, NEW ok \in BOOLEAN, authenticate(c, kind, ok) PROVE AnswerIInv'
    BY <2>1, AuthenticateAnswers
  <2>2. ASSUME NEW ok \in BOOLEAN,
               \/ lightdm_greeter_authenticate(c, ok) \/ lightdm_greeter_authenticate_as_guest(c, ok)
               \/ lightdm_greeter_authenticate_remote(c, ok) \/ lightdm_greeter_authenticate_autologin(c, ok)
        PROVE  AnswerIInv'
    BY <2>1, <2>2 DEF lightdm_greeter_authenticate, lightdm_greeter_authenticate_as_guest,
                      lightdm_greeter_authenticate_remote, lightdm_greeter_authenticate_autologin, AuthKinds
  <2> QED BY <1>2, <2>2, RequestsAnswers, CallAnswers DEF Application
<1>3. ASSUME NEW c \in Clients, handle_message(c) \/ show_prompt(c) \/ greeter_connect_cb(c)
      PROVE  AnswerIInv'
  BY <1>3, MessageAnswers, CallAnswers, SocketAnswers
<1>4. CASE read_cb
  <2>1. CASE greeter_disconnected_cb
    BY <2>1, SocketAnswers
  <2>2. CASE ~greeter_disconnected_cb
    <3>1. served \in Clients
      BY <1>4, <2>2 DEF read_cb, handle_authenticate_as_guest, handle_authenticate_remote,
            handle_start_session, handle_connect, handle_authenticate, handle_continue_authentication,
            handle_cancel_authentication, handle_set_language, handle_ensure_shared_dir, Reads,
            GreeterIInv, DaemonTypes
    <3>2. PICK c \in Clients : served = c
      BY <3>1
    <3> QED BY <1>4, <2>2, <3>2, AuthAnswers, OtherAnswers, ContinueAnswers DEF read_cb
  <2> QED BY <2>1, <2>2
<1>5. CASE PAM \/ greeter_idle \/ greeter_reset
  BY <1>5, PAMAnswers
<1> QED BY <1>1, <1>2, <1>3, <1>4, <1>5 DEF GreeterNext

(* An answer that is not late is taken by the PAM conversation that asked  *)
(* for it, and leaves nothing behind in the pipe of a session that has     *)
(* been authenticated (lightdm_greeter_respond,                            *)
(* liblightdm-gobject/greeter.c, and handle_continue_authentication,       *)
(* src/greeter.c).                                                         *)
THEOREM GreeterAnswers == GreeterSafety => []AnswersReachTheirPrompt
<1>1. GreeterInit => GreeterIInv /\ AnswerIInv
  BY GreeterInitIInv, AnswerInit
<1>2. GreeterIInv /\ AnswerIInv /\ [GreeterNext]_greeterVars => GreeterIInv' /\ AnswerIInv'
  BY GreeterNextIInv, AnswerNext
<1>3. AnswerIInv => AnswersReachTheirPrompt
  <2> SUFFICES ASSUME AnswerIInv PROVE AnswersReachTheirPrompt
    OBVIOUS
  <2>1. Taken /\ InPipe(session)
    BY DEF AnswerIInv
  <2>2. ASSUME session_get_is_authenticated
        PROVE  \A i \in 1..Len(session.replies) : session.replies[i].late
    BY <2>1, <2>2 DEF InPipe, Alive, session_get_is_authenticated
  <2> QED BY <2>1, <2>2 DEF Taken, AnswersReachTheirPrompt
<1> QED BY <1>1, <1>2, <1>3, PTL DEF GreeterSafety
============================================================================
