----------------------------- MODULE EchoProofs -----------------------------
(***************************************************************************)
(* What holds of the echo server and its clients for any number of         *)
(* clients, processes and lines, and for any value of the stray pid.       *)
(***************************************************************************)
EXTENDS EchoClient, SequenceLemmas

-----------------------------------------------------------------------------
(* The order of the pieces of one connection.                              *)

\* Two pieces x and y, x the further on its way: they are different, and
\* when the stray pid z is 0, x was sent first.
Ahead(z, x, y) == x # y /\ (z = 0 => x < y)

AllAhead(z, s, t) == \A x \in ToSet(s), y \in ToSet(t) : Ahead(z, x, y)
Ordered(z, s) == \A i, j \in 1..Len(s) : i < j => Ahead(z, s[i], s[j])

-----------------------------------------------------------------------------
(* The invariant.                                                          *)

\* A line that is about to be sent is one of those typed.
Sending == \A c \in Clients : client[c].pc = "send" => client[c].sent < MaxLines

\* A connection waits once, and only before it is accepted; that of a client
\* that is not connected is nowhere.
Waiting ==
  /\ IsInjective(queue)
  /\ \A c \in ToSet(queue), p \in Procs : proc[p].conn # c
  /\ \A c \in Clients : client[c].pc = "connect" =>
       c \notin ToSet(queue) /\ \A p \in Procs : proc[p].conn # c

\* Only a process that is about to send has something in its buffer.
Emptied == \A p \in Procs : proc[p].pc # "send" => proc[p].buf = << >>

\* Before it forks, a process alone holds its connection.
ForksAlone ==
  \A p, q \in Procs :
    proc[p].pc = "fork" /\ proc[q].conn = proc[p].conn => p = q

\* When the stray pid is 0, one process echoes a connection.
OneEchoes ==
  pid = 0 => \A p, q \in Procs :
    /\ proc[p].pc \in {"read", "send"} /\ proc[q].pc \in {"read", "send"}
    /\ proc[p].conn = proc[q].conn
    => p = q

\* From the printed ones back to those on their way to the server, the pieces
\* of a connection are in order.
Chain(z, seen, down, up) ==
  /\ Ordered(z, seen) /\ Ordered(z, down) /\ Ordered(z, up)
  /\ AllAhead(z, seen, down) /\ AllAhead(z, seen, up) /\ AllAhead(z, down, up)

\* What a process has read is between those on their way back and those on
\* their way to the server.
Link(z, seen, down, buf, up) ==
  /\ Ordered(z, buf)
  /\ AllAhead(z, seen, buf) /\ AllAhead(z, down, buf) /\ AllAhead(z, buf, up)

\* The pieces of the connection of c, with client k, wire w and processes pr,
\* are in order, those of two processes apart, and k has sent all of them.
InPlace(z, c, k, w, pr) ==
  /\ Chain(z, k.seen, w.down, w.up)
  /\ ToSet(w.up) \cup ToSet(w.down) \cup ToSet(k.seen) \subseteq 1..k.sent
  /\ \A p \in Procs : pr[p].conn = c =>
       /\ Link(z, k.seen, w.down, pr[p].buf, w.up)
       /\ ToSet(pr[p].buf) \subseteq 1..k.sent
  /\ \A p, q \in Procs :
       p # q /\ pr[p].conn = c /\ pr[q].conn = c => AllAhead(z, pr[p].buf, pr[q].buf)

AllInPlace == \A c \in Clients : InPlace(pid, c, client[c], wire[c], proc)

EchoInv ==
  /\ TypeOK /\ Sending /\ Waiting /\ Emptied /\ ForksAlone /\ HeldByTwo
  /\ OneEchoes /\ AllInPlace

-----------------------------------------------------------------------------
(* Order, as pieces move.                                                  *)

LEMMA AheadWithin ==
  ASSUME NEW z, NEW s, NEW t, AllAhead(z, s, t), NEW u, NEW v,
         ToSet(u) \subseteq ToSet(s), ToSet(v) \subseteq ToSet(t)
  PROVE  AllAhead(z, u, v)
  BY DEF AllAhead

LEMMA AheadEmpty ==
  ASSUME NEW z, NEW s
  PROVE  AllAhead(z, << >>, s) /\ AllAhead(z, s, << >>) /\ Ordered(z, << >>)
  BY DEF AllAhead, Ordered, ToSet

LEMMA AheadJoined ==
  ASSUME NEW z, NEW s \in Seq(Nat), NEW t \in Seq(Nat), NEW u \in Seq(Nat)
  PROVE  /\ AllAhead(z, s, u) /\ AllAhead(z, t, u) => AllAhead(z, s \o t, u)
         /\ AllAhead(z, u, s) /\ AllAhead(z, u, t) => AllAhead(z, u, s \o t)
<1>1. ToSet(s \o t) = ToSet(s) \cup ToSet(t)
  BY JoinedSet
<1> QED
  BY <1>1 DEF AllAhead

LEMMA OrderedJoined ==
  ASSUME NEW z, NEW s \in Seq(Nat), NEW t \in Seq(Nat),
         Ordered(z, s), Ordered(z, t), AllAhead(z, s, t)
  PROVE  Ordered(z, s \o t)
<1>1. PICK u : u = s \o t
  OBVIOUS
<1>2. /\ u \in Seq(Nat) /\ Len(u) = Len(s) + Len(t) /\ Len(s) \in Nat /\ Len(t) \in Nat
      /\ \A i \in 1..Len(s) + Len(t) : u[i] = IF i <= Len(s) THEN s[i] ELSE t[i - Len(s)]
  BY <1>1, ConcatProperties, Elements
<1>3. ASSUME NEW i \in 1..Len(u), NEW j \in 1..Len(u), i < j
      PROVE  Ahead(z, u[i], u[j])
  <2>1. CASE j <= Len(s)
    <3>1. i \in 1..Len(s) /\ j \in 1..Len(s) /\ u[i] = s[i] /\ u[j] = s[j]
      BY <1>2, <1>3, <2>1
    <3> QED
      BY <1>3, <3>1 DEF Ordered
  <2>2. CASE i <= Len(s) /\ ~(j <= Len(s))
    <3>1. /\ i \in 1..Len(s) /\ j - Len(s) \in 1..Len(t)
          /\ u[i] = s[i] /\ u[j] = t[j - Len(s)]
      BY <1>2, <2>2
    <3>2. u[i] \in ToSet(s) /\ u[j] \in ToSet(t)
      BY SMTT(30), <3>1 DEF ToSet
    <3> QED
      BY <3>2 DEF AllAhead
  <2>3. CASE ~(i <= Len(s))
    <3>1. /\ i \in 1..Len(s) + Len(t) /\ j \in 1..Len(s) + Len(t)
          /\ ~(j <= Len(s))
      BY <1>2, <1>3, <2>3
    <3>2. u[i] = t[i - Len(s)] /\ u[j] = t[j - Len(s)]
      BY <1>2, <2>3, <3>1
    <3>3. PICK k : k = i - Len(s)
      OBVIOUS
    <3>4. PICK l : l = j - Len(s)
      OBVIOUS
    <3>5. k \in 1..Len(t) /\ l \in 1..Len(t) /\ k < l
      <4>1. \A a, b \in Nat : \A x, y \in 1..a + b :
               x < y /\ ~(x <= a) => x - a \in 1..b /\ y - a \in 1..b /\ x - a < y - a
        OBVIOUS
      <4>2. Len(s) \in Nat /\ Len(t) \in Nat
        BY <1>2
      <4> QED
        BY <4>1, <4>2, <3>1, <1>3, <2>3, <3>3, <3>4
    <3>6. Ahead(z, t[k], t[l])
      BY <3>5 DEF Ordered
    <3>7. u[i] = t[k] /\ u[j] = t[l]
      BY <3>2, <3>3, <3>4
    <3> QED
      BY <3>7, <3>6, Zenon
  <2> QED
    BY <1>2, <1>3, <2>1, <2>2, <2>3
<1> QED
  BY <1>1, <1>3 DEF Ordered

\* A stream cut in two: what was ahead is ahead.
LEMMA OrderedCut ==
  ASSUME NEW z, NEW s \in Seq(Nat), Ordered(z, s), NEW n \in 0..Len(s)
  PROVE  /\ SubSeq(s, 1, n) \in Seq(Nat) /\ SubSeq(s, n + 1, Len(s)) \in Seq(Nat)
         /\ Ordered(z, SubSeq(s, 1, n)) /\ Ordered(z, SubSeq(s, n + 1, Len(s)))
         /\ AllAhead(z, SubSeq(s, 1, n), SubSeq(s, n + 1, Len(s)))
         /\ ToSet(SubSeq(s, 1, n)) \subseteq ToSet(s)
         /\ ToSet(SubSeq(s, n + 1, Len(s))) \subseteq ToSet(s)
<1> PICK u : u = SubSeq(s, 1, n)
  OBVIOUS
<1> PICK v : v = SubSeq(s, n + 1, Len(s))
  OBVIOUS
<1>1. 0 \in 0..Len(s) /\ Len(s) \in n..Len(s) /\ 0 + 1 = 1 /\ Len(s) \in Nat
  OBVIOUS
<1>2. /\ u \in Seq(Nat) /\ Len(u) = n - 0 /\ \A i \in 1..n - 0 : u[i] = s[i + 0]
      /\ v \in Seq(Nat) /\ Len(v) = Len(s) - n /\ \A i \in 1..Len(s) - n : v[i] = s[i + n]
  BY SMTT(30), <1>1, Cut
<1>3. \A i \in 1..Len(u) : i \in 1..Len(s) /\ u[i] = s[i] /\ i <= n
  BY <1>2
<1>4. \A i \in 1..Len(v) : i + n \in 1..Len(s) /\ v[i] = s[i + n] /\ n < i + n
  BY <1>2
<1>5. Ordered(z, u)
  BY <1>3 DEF Ordered
<1>6. Ordered(z, v)
  <2> SUFFICES ASSUME NEW i \in 1..Len(v), NEW j \in 1..Len(v), i < j
               PROVE  Ahead(z, v[i], v[j])
    BY DEF Ordered
  <2>1. i + n \in 1..Len(s) /\ j + n \in 1..Len(s) /\ i + n < j + n
    BY <1>4
  <2> QED
    BY <1>4, <2>1 DEF Ordered
<1>7. AllAhead(z, u, v)
  <2>1. DOMAIN u = 1..Len(u) /\ DOMAIN v = 1..Len(v)
    BY <1>2
  <2>2. ASSUME NEW x \in ToSet(u), NEW y \in ToSet(v)
        PROVE  Ahead(z, x, y)
    <3>1. PICK i \in 1..Len(u) : x = u[i]
      BY <2>1, <2>2 DEF ToSet
    <3>2. PICK j \in 1..Len(v) : y = v[j]
      BY <2>1, <2>2 DEF ToSet
    <3>3. i \in 1..Len(s) /\ x = s[i] /\ i <= n
      BY <1>3, <3>1
    <3>4. j + n \in 1..Len(s) /\ y = s[j + n] /\ n < j + n
      BY <1>4, <3>2
    <3>5. i < j + n
      BY <3>3, <3>4
    <3> QED
      BY <3>3, <3>4, <3>5 DEF Ordered
  <2> QED
    BY <2>2 DEF AllAhead
<1>8. ToSet(u) \subseteq ToSet(s) /\ ToSet(v) \subseteq ToSet(s)
  BY <1>1, CutSet
<1> QED
  BY <1>2, <1>5, <1>6, <1>7, <1>8

\* A piece newer than all others goes behind them.
LEMMA Newer ==
  ASSUME NEW z, NEW m \in Nat, NEW s \in Seq(Nat), ToSet(s) \subseteq 1..m,
         NEW t \in Seq(Nat), AllAhead(z, s, t)
  PROVE  AllAhead(z, s, Append(t, m + 1))
<1>1. ToSet(Append(t, m + 1)) = ToSet(t) \cup {m + 1}
  BY AppendedSet
<1>2. \A x \in ToSet(s) : Ahead(z, x, m + 1)
  BY DEF Ahead
<1> QED
  BY <1>1, <1>2 DEF AllAhead

LEMMA OrderedNewer ==
  ASSUME NEW z, NEW m \in Nat, NEW s \in Seq(Nat), ToSet(s) \subseteq 1..m,
         Ordered(z, s)
  PROVE  Ordered(z, Append(s, m + 1))
<1>1. <<m + 1>> \in Seq(Nat) /\ Ordered(z, <<m + 1>>) /\ ToSet(<<m + 1>>) = {m + 1}
  BY DEF Ordered, ToSet
<1>2. AllAhead(z, s, <<m + 1>>)
  BY <1>1 DEF AllAhead, Ahead
<1>3. Append(s, m + 1) = s \o <<m + 1>>
  BY AppendIsConcat
<1> QED
  BY <1>1, <1>2, <1>3, OrderedJoined

-----------------------------------------------------------------------------
(* The pieces of one connection, as they move.                             *)

Wires == [end : {"new", "up", "shut", "reset"}, up : Seq(Nat), down : Seq(Nat)]
Lines == [pc : ClientLabels, sent : 0..MaxLines, seen : Seq(Nat)]

\* Nothing has moved, although something may have been lost, and a process
\* may have come or gone with an empty buffer.
Keeps(c, k, w, pr, k2, w2, pr2) ==
  /\ k2.seen = k.seen /\ k2.sent = k.sent
  /\ w2.up = w.up /\ w2.down \in {w.down, << >>}
  /\ \A p \in Procs : pr2[p].conn = c =>
       \/ pr2[p].buf = << >>
       \/ pr[p].conn = c /\ pr2[p].buf = pr[p].buf

LEMMA KeptInPlace ==
  ASSUME NEW z, NEW c, NEW k, NEW w, NEW pr, InPlace(z, c, k, w, pr),
         NEW k2, NEW w2, NEW pr2, Keeps(c, k, w, pr, k2, w2, pr2)
  PROVE  InPlace(z, c, k2, w2, pr2)
<1> USE DEF Keeps
<1>1. ToSet(<< >>) = {}
  BY DEF ToSet
<1>2. Chain(z, k.seen, w2.down, w.up)
  BY AheadEmpty DEF InPlace, Chain
<1>3. ToSet(w2.down) \subseteq 1..k.sent /\ ToSet(w.up) \subseteq 1..k.sent
      /\ ToSet(k.seen) \subseteq 1..k.sent
  BY <1>1 DEF InPlace
<1>4. ASSUME NEW p \in Procs, pr2[p].conn = c
      PROVE  Link(z, k.seen, w2.down, pr2[p].buf, w.up) /\ ToSet(pr2[p].buf) \subseteq 1..k.sent
  BY <1>1, <1>4, AheadEmpty DEF InPlace, Link
<1>5. ASSUME NEW p \in Procs, NEW q \in Procs, p # q, pr2[p].conn = c, pr2[q].conn = c
      PROVE  AllAhead(z, pr2[p].buf, pr2[q].buf)
  BY <1>5, AheadEmpty DEF InPlace
<1> QED
  BY <1>2, <1>3, <1>4, <1>5 DEF InPlace

\* One more has been sent, or lost.
Sends(k, w, k2, w2) ==
  /\ k2.seen = k.seen /\ k2.sent = k.sent + 1
  /\ w2.up \in {w.up, Append(w.up, k.sent + 1)} /\ w2.down = w.down

LEMMA SentInPlace ==
  ASSUME NEW z, NEW c, NEW k \in Lines, NEW w \in Wires, NEW pr,
         \A p \in Procs : pr[p].buf \in Seq(Nat),
         InPlace(z, c, k, w, pr), NEW k2, NEW w2, Sends(k, w, k2, w2)
  PROVE  InPlace(z, c, k2, w2, pr)
<1> USE DEF Sends
<1>1. PICK m : m = k.sent
  OBVIOUS
<1>2. m \in Nat /\ k.seen \in Seq(Nat) /\ w.up \in Seq(Nat) /\ w.down \in Seq(Nat)
  BY <1>1, LineAssumption DEF Lines, Wires
<1>3. 1..m \subseteq 1..m + 1 /\ m + 1 \in 1..m + 1
  BY <1>2
<1>4. ToSet(w.up) \subseteq 1..m /\ ToSet(w.down) \subseteq 1..m /\ ToSet(k.seen) \subseteq 1..m
  BY <1>1 DEF InPlace
<1>5. ToSet(w2.up) \subseteq 1..m + 1
  <2>1. ToSet(Append(w.up, m + 1)) = ToSet(w.up) \cup {m + 1}
    <3>1. PICK t : t = w.up
      OBVIOUS
    <3>2. t \in Seq(Nat) /\ m + 1 \in Nat
      BY <1>2, <3>1
    <3>3. ToSet(Append(t, m + 1)) = ToSet(t) \cup {m + 1}
      BY <3>2, AppendedSet
    <3> QED
      BY <3>1, <3>3
  <2> QED
    BY <1>1, <1>3, <1>4, <2>1
<1>6. Chain(z, k.seen, w.down, w2.up)
  BY <1>1, <1>2, <1>4, Newer, OrderedNewer DEF InPlace, Chain
<1>7. ASSUME NEW p \in Procs, pr[p].conn = c
      PROVE  Link(z, k.seen, w.down, pr[p].buf, w2.up) /\ ToSet(pr[p].buf) \subseteq 1..m + 1
  <2>1. PICK b : b = pr[p].buf
    OBVIOUS
  <2>2. b \in Seq(Nat) /\ Link(z, k.seen, w.down, b, w.up) /\ ToSet(b) \subseteq 1..m
    BY <1>1, <1>7, <2>1 DEF InPlace
  <2>3. AllAhead(z, b, w2.up)
    BY <1>1, <1>2, <2>2, Newer DEF Link
  <2> QED
    BY <1>3, <2>1, <2>2, <2>3 DEF Link
<1> QED
  BY <1>1, <1>3, <1>4, <1>5, <1>6, <1>7 DEF InPlace

\* p has read the first of those on their way to the server.
Reads(z, c, p, n, w, pr, w2, pr2) ==
  /\ w2.up = SubSeq(w.up, n + 1, Len(w.up)) /\ w2.down = w.down
  /\ pr[p].conn = c /\ pr[p].buf = << >>
  /\ pr2[p].conn = c /\ pr2[p].buf = SubSeq(w.up, 1, n)
  /\ \A q \in Procs \ {p} : pr2[q] = pr[q]
  /\ \A q \in Procs \ {p} : z = 0 /\ pr[q].conn = c => pr[q].buf = << >>

LEMMA ReadInPlace ==
  ASSUME NEW z, NEW c, NEW k \in Lines, NEW w \in Wires, NEW pr,
         InPlace(z, c, k, w, pr),
         NEW p \in Procs, NEW n \in 1..Len(w.up),
         NEW w2, NEW pr2, Reads(z, c, p, n, w, pr, w2, pr2)
  PROVE  InPlace(z, c, k, w2, pr2)
<1> USE DEF Reads
<1>1. PICK u : u = SubSeq(w.up, 1, n)
  OBVIOUS
<1>2. PICK v : v = SubSeq(w.up, n + 1, Len(w.up))
  OBVIOUS
<1>3. n \in 0..Len(w.up) /\ w.up \in Seq(Nat) /\ Ordered(z, w.up)
  BY DEF Wires, InPlace, Chain
<1>4. /\ Ordered(z, u) /\ Ordered(z, v) /\ AllAhead(z, u, v)
      /\ ToSet(u) \subseteq ToSet(w.up) /\ ToSet(v) \subseteq ToSet(w.up)
  <2>1. PICK t : t = w.up
    OBVIOUS
  <2>2. t \in Seq(Nat) /\ Ordered(z, t) /\ n \in 0..Len(t)
        /\ u = SubSeq(t, 1, n) /\ v = SubSeq(t, n + 1, Len(t))
    BY <1>1, <1>2, <1>3, <2>1
  <2>3. /\ SubSeq(t, 1, n) \in Seq(Nat)
        /\ Ordered(z, SubSeq(t, 1, n)) /\ Ordered(z, SubSeq(t, n + 1, Len(t)))
        /\ AllAhead(z, SubSeq(t, 1, n), SubSeq(t, n + 1, Len(t)))
        /\ ToSet(SubSeq(t, 1, n)) \subseteq ToSet(t)
        /\ ToSet(SubSeq(t, n + 1, Len(t))) \subseteq ToSet(t)
    BY <2>2, OrderedCut
  <2> QED
    BY <2>1, <2>2, <2>3
<1>5. \A x : AllAhead(z, x, w.up) => AllAhead(z, x, u) /\ AllAhead(z, x, v)
  BY <1>4 DEF AllAhead
<1>6. Chain(z, k.seen, w.down, v) /\ Link(z, k.seen, w.down, u, v)
  BY <1>4, <1>5 DEF InPlace, Chain, Link
<1>7. ASSUME NEW q \in Procs, q # p, pr[q].conn = c
      PROVE  /\ Link(z, k.seen, w.down, pr[q].buf, v)
             /\ AllAhead(z, pr[q].buf, u) /\ AllAhead(z, u, pr[q].buf)
  <2>1. PICK b : b = pr[q].buf
    OBVIOUS
  <2>2. Link(z, k.seen, w.down, b, w.up)
    BY <1>7, <2>1 DEF InPlace
  <2>3. AllAhead(z, b, u) /\ Link(z, k.seen, w.down, b, v)
    BY <1>5, <2>2 DEF Link
  <2>4. AllAhead(z, u, b)
    <3>1. CASE z = 0
      BY <1>7, <2>1, <3>1, AheadEmpty
    <3>2. CASE z # 0
      BY <2>3, <3>2 DEF AllAhead, Ahead
    <3> QED
      BY <3>1, <3>2
  <2> QED
    BY <2>1, <2>3, <2>4
<1>8. ToSet(u) \subseteq 1..k.sent /\ ToSet(v) \subseteq 1..k.sent
  BY <1>4 DEF InPlace
<1>9. \A q \in Procs : pr2[q].conn = c =>
        /\ Link(z, k.seen, w.down, pr2[q].buf, v)
        /\ ToSet(pr2[q].buf) \subseteq 1..k.sent
  BY <1>1, <1>6, <1>7, <1>8 DEF InPlace
<1>10. ASSUME NEW q \in Procs, NEW r \in Procs, q # r, pr2[q].conn = c, pr2[r].conn = c
       PROVE  AllAhead(z, pr2[q].buf, pr2[r].buf)
  BY <1>1, <1>7, <1>10 DEF InPlace
<1> QED
  BY <1>2, <1>6, <1>8, <1>9, <1>10 DEF InPlace

\* p has sent back what it had read.
Echoes(c, p, w, pr, w2, pr2) ==
  /\ pr[p].conn = c /\ pr[p].buf \in Seq(Nat)
  /\ w2.up = w.up /\ w2.down = w.down \o pr[p].buf
  /\ pr2[p].buf = << >> /\ \A q \in Procs \ {p} : pr2[q] = pr[q]

LEMMA EchoedInPlace ==
  ASSUME NEW z, NEW c, NEW k \in Lines, NEW w \in Wires, NEW pr,
         InPlace(z, c, k, w, pr), NEW p \in Procs,
         NEW w2, NEW pr2, Echoes(c, p, w, pr, w2, pr2)
  PROVE  InPlace(z, c, k, w2, pr2)
<1> USE DEF Echoes
<1>1. PICK b : b = pr[p].buf
  OBVIOUS
<1>2. PICK d : d = w.down \o b
  OBVIOUS
<1>3. b \in Seq(Nat) /\ w.down \in Seq(Nat) /\ w.up \in Seq(Nat) /\ k.seen \in Seq(Nat)
  BY <1>1 DEF Wires, Lines
<1>4. ToSet(d) = ToSet(w.down) \cup ToSet(b) /\ ToSet(<< >>) = {}
  <2>1. PICK t : t = w.down
    OBVIOUS
  <2>2. ToSet(t \o b) = ToSet(t) \cup ToSet(b)
    BY <1>3, <2>1, JoinedSet
  <2>3. ToSet(<< >>) = {}
    BY DEF ToSet
  <2> QED
    BY <1>2, <2>1, <2>2, <2>3
<1>5. Chain(z, k.seen, w.down, w.up) /\ Link(z, k.seen, w.down, b, w.up)
      /\ ToSet(b) \subseteq 1..k.sent
  BY <1>1 DEF InPlace
<1>6. Ordered(z, d)
  <2>1. PICK t : t = w.down
    OBVIOUS
  <2>2. /\ t \in Seq(Nat) /\ Ordered(z, t) /\ Ordered(z, b) /\ AllAhead(z, t, b)
        /\ d = t \o b
    BY <1>2, <1>3, <1>5, <2>1 DEF Chain, Link
  <2> QED
    BY <1>3, <2>2, OrderedJoined
<1>7. AllAhead(z, k.seen, d) /\ AllAhead(z, d, w.up)
  BY <1>4, <1>5 DEF Chain, Link, AllAhead
<1>8. Chain(z, k.seen, d, w.up) /\ Link(z, k.seen, d, << >>, w.up)
  BY <1>5, <1>6, <1>7, AheadEmpty DEF Chain, Link
<1>9. ASSUME NEW q \in Procs, q # p, pr[q].conn = c
      PROVE  Link(z, k.seen, d, pr[q].buf, w.up)
  <2>1. Link(z, k.seen, w.down, pr[q].buf, w.up) /\ AllAhead(z, b, pr[q].buf)
    BY <1>1, <1>9 DEF InPlace
  <2>2. AllAhead(z, d, pr[q].buf)
    BY <1>4, <2>1 DEF Link, AllAhead
  <2> QED
    BY <2>1, <2>2 DEF Link
<1>10. ToSet(d) \subseteq 1..k.sent
  BY <1>4, <1>5 DEF InPlace
<1>11. \A q \in Procs : pr2[q].conn = c =>
         /\ Link(z, k.seen, d, pr2[q].buf, w.up)
         /\ ToSet(pr2[q].buf) \subseteq 1..k.sent
  BY <1>4, <1>8, <1>9 DEF InPlace
<1>12. ASSUME NEW q \in Procs, NEW r \in Procs, q # r, pr2[q].conn = c, pr2[r].conn = c
       PROVE  AllAhead(z, pr2[q].buf, pr2[r].buf)
  BY <1>12, AheadEmpty DEF InPlace
<1> QED
  BY <1>1, <1>2, <1>8, <1>10, <1>11, <1>12 DEF InPlace

\* The client has printed the first of those on their way back.
Prints(n, k, w, k2, w2) ==
  /\ w2.up = w.up /\ w2.down = SubSeq(w.down, n + 1, Len(w.down))
  /\ k2.sent = k.sent /\ k2.seen = k.seen \o SubSeq(w.down, 1, n)

LEMMA PrintedInPlace ==
  ASSUME NEW z, NEW c, NEW k \in Lines, NEW w \in Wires, NEW pr,
         InPlace(z, c, k, w, pr), NEW n \in 1..Len(w.down),
         NEW k2, NEW w2, Prints(n, k, w, k2, w2)
  PROVE  InPlace(z, c, k2, w2, pr)
<1> USE DEF Prints
<1>1. PICK u : u = SubSeq(w.down, 1, n)
  OBVIOUS
<1>2. PICK v : v = SubSeq(w.down, n + 1, Len(w.down))
  OBVIOUS
<1>3. PICK e : e = k.seen \o u
  OBVIOUS
<1>4. /\ u \in Seq(Nat) /\ Ordered(z, u) /\ Ordered(z, v) /\ AllAhead(z, u, v)
      /\ ToSet(u) \subseteq ToSet(w.down) /\ ToSet(v) \subseteq ToSet(w.down)
  <2>1. PICK t : t = w.down
    OBVIOUS
  <2>2. t \in Seq(Nat) /\ Ordered(z, t) /\ n \in 0..Len(t)
        /\ u = SubSeq(t, 1, n) /\ v = SubSeq(t, n + 1, Len(t))
    BY <1>1, <1>2, <2>1 DEF Wires, InPlace, Chain
  <2>3. /\ SubSeq(t, 1, n) \in Seq(Nat)
        /\ Ordered(z, SubSeq(t, 1, n)) /\ Ordered(z, SubSeq(t, n + 1, Len(t)))
        /\ AllAhead(z, SubSeq(t, 1, n), SubSeq(t, n + 1, Len(t)))
        /\ ToSet(SubSeq(t, 1, n)) \subseteq ToSet(t)
        /\ ToSet(SubSeq(t, n + 1, Len(t))) \subseteq ToSet(t)
    BY <2>2, OrderedCut
  <2> QED
    BY <2>1, <2>2, <2>3
<1>5. k.seen \in Seq(Nat) /\ Chain(z, k.seen, w.down, w.up)
  BY DEF Lines, InPlace
<1>6. ToSet(e) = ToSet(k.seen) \cup ToSet(u)
  BY <1>3, <1>4, <1>5, JoinedSet
<1>7. AllAhead(z, k.seen, u)
  BY <1>4, <1>5 DEF Chain, AllAhead
<1>8. Ordered(z, e)
  BY <1>3, <1>4, <1>5, <1>7, OrderedJoined DEF Chain
<1>9. AllAhead(z, e, v) /\ AllAhead(z, e, w.up) /\ AllAhead(z, v, w.up)
  BY <1>4, <1>5, <1>6 DEF Chain, AllAhead
<1>10. Chain(z, e, v, w.up)
  BY <1>4, <1>5, <1>8, <1>9 DEF Chain
<1>11. ASSUME NEW b, Link(z, k.seen, w.down, b, w.up)
       PROVE  Link(z, e, v, b, w.up)
  BY <1>4, <1>6, <1>11 DEF Link, AllAhead
<1>12. ToSet(e) \subseteq 1..k.sent /\ ToSet(v) \subseteq 1..k.sent
  BY <1>4, <1>6 DEF InPlace
<1> QED
  BY <1>1, <1>2, <1>3, <1>10, <1>11, <1>12 DEF InPlace

-----------------------------------------------------------------------------
(* The steps of a process.                                                 *)

Processes ==
  [pc : {"none", "accept", "fork", "read", "send", "close", "dead"},
   conn : Clients \cup {NoClient}, buf : Seq(Nat)]

\* A process has a connection where the code has one.
Fits(r) == r \in Processes /\ (r.conn = NoClient <=> r.pc \in {"none", "accept", "dead"})

LEMMA Types ==
  TypeOK <=> /\ pid \in Strays /\ lenOk \in BOOLEAN /\ queue \in Seq(Clients)
             /\ proc \in [Procs -> Processes] /\ \A p \in Procs : Fits(proc[p])
             /\ wire \in [Clients -> Wires] /\ client \in [Clients -> Lines]
  BY DEF TypeOK, ServerTypeOK, Processes, Fits, Wires, Lines

\* Who holds what.
Held == Waiting /\ Emptied /\ ForksAlone /\ HeldByTwo /\ OneEchoes

\* A process that keeps its connection or gives it up, and does not come to
\* fork(), leaves who holds what in order.
LEMMA OneMoves ==
  ASSUME Held, \A q \in Procs : Fits(proc[q]), proc \in [Procs -> Processes],
         queue \in Seq(Clients),
         NEW p \in Procs, NEW r, Fits(r), proc' = [proc EXCEPT ![p] = r],
         r.conn \in {proc[p].conn, NoClient}, r.pc # "fork",
         r.pc # "send" => r.buf = << >>,
         r.pc \in {"read", "send"} => proc[p].pc \in {"fork", "read", "send"},
         UNCHANGED <<queue, client, pid>>
  PROVE  /\ Held' /\ proc' \in [Procs -> Processes]
         /\ \A q \in Procs : Fits(proc'[q])
<1>1. proc'[p] = r /\ \A q \in Procs : q # p => proc'[q] = proc[q]
  OBVIOUS
<1>2. \A q \in Procs : proc'[q].conn \in {proc[q].conn, NoClient}
  BY <1>1
<1>3. Waiting'
  <2>1. \A c \in Clients, q \in Procs : proc[q].conn # c => proc'[q].conn # c
    BY <1>2, ClientAssumption
  <2>2. \A c \in ToSet(queue), q \in Procs : proc'[q].conn # c
    <3> SUFFICES ASSUME NEW c \in ToSet(queue), NEW q \in Procs, proc'[q].conn = c
                 PROVE  FALSE
      OBVIOUS
    <3>1. proc[q].conn # c
      BY DEF Held, Waiting
    <3>2. c = NoClient
      BY <1>2, <3>1
    <3>3. c \in Clients
      BY DEF ToSet
    <3> QED
      BY <3>2, <3>3, ClientAssumption
  <2> QED
    BY <2>1, <2>2 DEF Held, Waiting
<1>4. Emptied'
  BY <1>1 DEF Held, Emptied
<1>5. ForksAlone'
  <2> SUFFICES ASSUME NEW a \in Procs, NEW b \in Procs, proc'[a].pc = "fork",
                      proc'[b].conn = proc'[a].conn
               PROVE  a = b
    BY DEF ForksAlone
  <2>1. a # p /\ proc'[a] = proc[a]
    BY <1>1
  <2>2. proc[a].conn # NoClient
    BY <2>1 DEF Fits
  <2>3. proc[b].conn = proc[a].conn
    BY <1>2, <2>1, <2>2
  <2> QED
    BY <2>1, <2>3 DEF Held, ForksAlone
<1>6. HeldByTwo'
  <2>1. \A c \in Clients : \A q \in Procs : proc'[q].conn = c => proc[q].conn = c
    BY <1>2, ClientAssumption
  <2> QED
    BY <2>1 DEF Held, HeldByTwo, Holders
<1>7. OneEchoes'
  <2> SUFFICES ASSUME pid = 0, NEW a \in Procs, NEW b \in Procs,
                      proc'[a].pc \in {"read", "send"}, proc'[b].pc \in {"read", "send"},
                      proc'[a].conn = proc'[b].conn
               PROVE  a = b
    BY DEF OneEchoes
  <2>1. \A q \in Procs : Fits(proc'[q])
    BY <1>1
  <2>2. proc'[a].conn # NoClient /\ proc'[b].conn # NoClient
    BY <2>1 DEF Fits
  <2>3. proc'[a].conn = proc[a].conn /\ proc'[b].conn = proc[b].conn
    BY <1>2, <2>2
  <2>4. /\ proc[a].pc \in {"fork", "read", "send"}
        /\ proc[b].pc \in {"fork", "read", "send"}
    BY <1>1
  <2>5. CASE proc[a].pc = "fork" \/ proc[b].pc = "fork"
    BY <2>3, <2>5 DEF Held, ForksAlone
  <2>6. CASE proc[a].pc # "fork" /\ proc[b].pc # "fork"
    BY <2>3, <2>4, <2>6 DEF Held, OneEchoes
  <2> QED
    BY <2>5, <2>6
<1>8. proc' \in [Procs -> Processes] /\ \A q \in Procs : Fits(proc'[q])
  BY <1>1 DEF Fits
<1> QED
  BY <1>3, <1>4, <1>5, <1>6, <1>7, <1>8 DEF Held

LEMMA AcceptHolds ==
  ASSUME Held, \A q \in Procs : Fits(proc[q]), proc \in [Procs -> Processes],
         queue \in Seq(Clients), NEW p \in Procs, Accept(p), UNCHANGED client
  PROVE  /\ Held' /\ proc' \in [Procs -> Processes]
         /\ \A q \in Procs : Fits(proc'[q])
         /\ queue' \in Seq(Clients)
         /\ \A q \in Procs : proc'[q].buf = proc[q].buf
         /\ proc[p].buf = << >>
         /\ \A q \in Procs : q # p => proc'[q] = proc[q]
<1>1. PICK h : h = Head(queue)
  OBVIOUS
<1>2. PICK t : t = Tail(queue)
  OBVIOUS
<1>3. /\ h \in Clients /\ h \in ToSet(queue) /\ h \notin ToSet(t)
      /\ t \in Seq(Clients) /\ IsInjective(t) /\ ToSet(t) \subseteq ToSet(queue)
  <2>1. queue # << >> /\ IsInjective(queue)
    BY DEF Accept, Held, Waiting
  <2> QED
    BY <1>1, <1>2, <2>1, TailQueue
<1>4. queue' = t /\ pid' = pid /\ proc[p].pc = "accept"
  BY <1>2 DEF Accept
<1>5. proc[p].buf = << >>
  BY <1>4 DEF Held, Emptied
<1>6. CASE proc' = proc
  <2>1. Waiting'
    BY <1>3, <1>4, <1>6 DEF Held, Waiting
  <2> QED
    BY <1>3, <1>4, <1>5, <1>6, <2>1 DEF Held, Emptied, ForksAlone, HeldByTwo, Holders, OneEchoes
<1>7. CASE proc' = [proc EXCEPT ![p].pc = "fork", ![p].conn = h]
  <2>1. PICK r : r = proc'[p]
    OBVIOUS
  <2>2. /\ r.pc = "fork" /\ r.conn = h /\ r.buf = << >> /\ Fits(r)
        /\ proc'[p] = r /\ \A q \in Procs : q # p => proc'[q] = proc[q]
    BY <1>3, <1>5, <1>7, <2>1, ClientAssumption DEF Fits, Processes
  <2>3. \A q \in Procs : proc[q].conn # h
    BY <1>3 DEF Held, Waiting
  <2>4. Waiting'
    <3>1. \A c \in ToSet(t), q \in Procs : proc'[q].conn # c
      BY <1>3, <2>2 DEF Held, Waiting
    <3>2. ASSUME NEW c \in Clients, client[c].pc = "connect"
          PROVE  c \notin ToSet(t) /\ \A q \in Procs : proc'[q].conn # c
      <4>1. c \notin ToSet(queue) /\ c # h
        BY <1>3, <3>2 DEF Held, Waiting
      <4> QED
        BY <1>3, <2>2, <3>2, <4>1 DEF Held, Waiting
    <3> QED
      BY <1>3, <1>4, <3>1, <3>2 DEF Waiting
  <2>5. Emptied'
    BY <2>2 DEF Held, Emptied
  <2>6. ForksAlone'
    BY <2>2, <2>3 DEF Held, ForksAlone
  <2>7. HeldByTwo'
    <3> SUFFICES ASSUME NEW c \in Clients, NEW x \in Holders(c)', NEW y \in Holders(c)',
                        NEW w \in Holders(c)'
                 PROVE  x = y \/ y = w \/ x = w
      BY DEF HeldByTwo
    <3>1. x \in Procs /\ y \in Procs /\ w \in Procs
          /\ proc'[x].conn = c /\ proc'[y].conn = c /\ proc'[w].conn = c
      BY DEF Holders
    <3>2. CASE c = h
      BY <2>2, <2>3, <3>1, <3>2
    <3>3. CASE c # h
      <4>1. x \in Holders(c) /\ y \in Holders(c) /\ w \in Holders(c)
        BY <2>2, <3>1, <3>3 DEF Holders
      <4> QED
        BY <4>1 DEF Held, HeldByTwo
    <3> QED
      BY <3>2, <3>3
  <2>8. OneEchoes'
    BY <1>4, <2>2 DEF Held, OneEchoes
  <2>9. proc' \in [Procs -> Processes]
    BY <1>7, <2>2 DEF Fits
  <2> QED
    BY <1>3, <1>4, <1>5, <2>2, <2>4, <2>5, <2>6, <2>7, <2>8, <2>9 DEF Held
<1> QED
  BY <1>1, <1>6, <1>7 DEF Accept

\* fork(): p goes on as f, its child q as g.
LEMMA ForkHolds ==
  ASSUME Held, \A a \in Procs : Fits(proc[a]), proc \in [Procs -> Processes],
         NEW p \in Procs, proc[p].pc = "fork", NEW q \in Procs, proc[q].pc = "none",
         proc' = [proc EXCEPT ![p].pc = AfterFork(q),
                              ![q] = [proc[p] EXCEPT !.pc = AfterFork(0)]],
         UNCHANGED <<queue, client, pid>>
  PROVE  /\ Held' /\ proc' \in [Procs -> Processes]
         /\ \A a \in Procs : Fits(proc'[a])
         /\ \A a \in Procs : proc'[a] = proc[a] \/ proc'[a].buf = << >>
<1>1. p # q /\ q # 0
  BY ProcAssumption
<1>2. PICK c : c = proc[p].conn
  OBVIOUS
<1>3. AfterFork(q) \in {"read", "close"} /\ AfterFork(0) \in {"read", "close"}
  BY DEF AfterFork
<1>4. c \in Clients /\ c # NoClient /\ proc[p].buf = << >>
  BY <1>2 DEF Fits, Processes, Held, Emptied
<1>5. PICK f : f = proc'[p]
  OBVIOUS
<1>6. PICK g : g = proc'[q]
  OBVIOUS
<1>7. /\ f.pc = AfterFork(q) /\ g.pc = AfterFork(0) /\ f.conn = c /\ g.conn = c
      /\ f.buf = << >> /\ g.buf = << >> /\ f \in Processes /\ g \in Processes
      /\ \A a \in Procs : a # p /\ a # q => proc'[a] = proc[a]
  BY <1>1, <1>2, <1>3, <1>4, <1>5, <1>6 DEF Processes
<1>8. \A a \in Procs : a # p => proc[a].conn # c
  BY <1>2 DEF Held, ForksAlone
<1>9. Waiting'
  BY <1>2, <1>5, <1>6, <1>7 DEF Held, Waiting
<1>10. Emptied'
  BY <1>5, <1>6, <1>7 DEF Held, Emptied
<1>11. ForksAlone'
  <2> SUFFICES ASSUME NEW a \in Procs, NEW b \in Procs, proc'[a].pc = "fork",
                      proc'[b].conn = proc'[a].conn
               PROVE  a = b
    BY DEF ForksAlone
  <2>1. a # p /\ a # q /\ proc'[a] = proc[a] /\ proc[a].conn # c
    BY <1>3, <1>5, <1>6, <1>7, <1>8
  <2>2. b # p /\ b # q /\ proc'[b] = proc[b]
    BY <1>5, <1>6, <1>7, <2>1
  <2> QED
    BY <2>1, <2>2 DEF Held, ForksAlone
<1>12. HeldByTwo'
  <2> SUFFICES ASSUME NEW d \in Clients, NEW x \in Holders(d)', NEW y \in Holders(d)',
                      NEW w \in Holders(d)'
               PROVE  x = y \/ y = w \/ x = w
    BY DEF HeldByTwo
  <2>1. x \in Procs /\ y \in Procs /\ w \in Procs
        /\ proc'[x].conn = d /\ proc'[y].conn = d /\ proc'[w].conn = d
    BY DEF Holders
  <2>2. CASE d = c
    <3>1. \A a \in Procs : proc'[a].conn = c => a \in {p, q}
      BY <1>7, <1>8
    <3> QED
      BY <2>1, <2>2, <3>1
  <2>3. CASE d # c
    <3>1. \A a \in Procs : proc'[a].conn = d => proc[a].conn = d
      BY <1>5, <1>6, <1>7, <2>3
    <3>2. x \in Holders(d) /\ y \in Holders(d) /\ w \in Holders(d)
      BY <2>1, <3>1 DEF Holders
    <3> QED
      BY <3>2 DEF Held, HeldByTwo
  <2> QED
    BY <2>2, <2>3
<1>13. OneEchoes'
  <2> SUFFICES ASSUME pid = 0, NEW a \in Procs, NEW b \in Procs,
                      proc'[a].pc \in {"read", "send"}, proc'[b].pc \in {"read", "send"},
                      proc'[a].conn = proc'[b].conn
               PROVE  a = b
    BY DEF OneEchoes
  <2>1. g.pc = "close"
    BY <1>7 DEF AfterFork
  <2>2. a # q /\ b # q
    BY <1>6, <2>1
  <2>3. CASE a = p \/ b = p
    BY <1>5, <1>7, <1>8, <2>2, <2>3
  <2>4. CASE a # p /\ b # p
    BY <1>7, <2>2, <2>4 DEF Held, OneEchoes
  <2> QED
    BY <2>3, <2>4
<1>14. \A a \in Procs : Fits(proc'[a])
  BY <1>3, <1>4, <1>5, <1>6, <1>7 DEF Fits
<1>15. proc' \in [Procs -> Processes]
  BY <1>5, <1>6, <1>7, <1>14 DEF Fits
<1>16. \A a \in Procs : proc'[a] = proc[a] \/ proc'[a].buf = << >>
  BY <1>5, <1>6, <1>7
<1> QED
  BY <1>9, <1>10, <1>11, <1>12, <1>13, <1>14, <1>15, <1>16 DEF Held

LEMMA Parts ==
  EchoInv <=> TypeOK /\ Sending /\ Held /\ AllInPlace
  BY DEF EchoInv, Held

LEMMA AcceptStep ==
  ASSUME EchoInv, NEW p \in Procs, Accept(p), UNCHANGED client
  PROVE  EchoInv'
<1>1. /\ Held' /\ proc' \in [Procs -> Processes]
      /\ \A q \in Procs : Fits(proc'[q])
      /\ queue' \in Seq(Clients)
      /\ \A q \in Procs : proc'[q].buf = proc[q].buf
      /\ proc[p].buf = << >>
      /\ \A q \in Procs : q # p => proc'[q] = proc[q]
  BY Parts, Types, AcceptHolds
<1>2. UNCHANGED <<pid, lenOk, wire, client>>
  BY DEF Accept
<1>3. TypeOK'
  BY <1>1, <1>2, Parts, Types DEF TypeOK, ServerTypeOK, Processes, Fits
<1>4. Sending'
  BY <1>2, Parts DEF Sending
<1>5. ASSUME NEW c \in Clients PROVE InPlace(pid, c, client[c], wire[c], proc')
  <2>1. InPlace(pid, c, client[c], wire[c], proc)
    BY Parts DEF AllInPlace
  <2>2. Keeps(c, client[c], wire[c], proc, client[c], wire[c], proc')
    BY <1>1 DEF Keeps
  <2> QED
    BY <2>1, <2>2, KeptInPlace
<1>6. AllInPlace'
  BY <1>2, <1>5 DEF AllInPlace
<1> QED
  BY <1>1, <1>3, <1>4, <1>6, Parts DEF EchoInv, Held

LEMMA ForkStep ==
  ASSUME EchoInv, NEW p \in Procs, Fork(p), UNCHANGED client
  PROVE  EchoInv'
<1>1. UNCHANGED <<pid, lenOk, wire, queue, client>> /\ proc[p].pc = "fork"
  BY DEF Fork
<1>2. /\ Held /\ proc \in [Procs -> Processes] /\ \A q \in Procs : Fits(proc[q])
      /\ queue \in Seq(Clients)
  BY Parts, Types
<1>3. /\ Held' /\ proc' \in [Procs -> Processes]
      /\ \A q \in Procs : Fits(proc'[q])
      /\ \A q \in Procs : \/ proc'[q].buf = << >>
                          \/ proc'[q].conn = proc[q].conn /\ proc'[q].buf = proc[q].buf
  <2>1. CASE Goto(p, AfterFork(-1))
    <3>1. PICK r : r = [proc[p] EXCEPT !.pc = AfterFork(-1)]
      OBVIOUS
    <3>2. AfterFork(-1) \in {"read", "close"}
      BY DEF AfterFork
    <3>3. /\ Fits(r) /\ r.pc \in {"read", "close"}
          /\ r.conn = proc[p].conn /\ r.buf = proc[p].buf
      BY <1>1, <1>2, <3>1, <3>2 DEF Fits, Processes
    <3>4. proc' = [proc EXCEPT ![p] = r]
      BY <1>2, <2>1, <3>1 DEF Goto
    <3>5. r.buf = << >>
      BY <1>1, <1>2, <3>3 DEF Held, Emptied
    <3>6. Held' /\ proc' \in [Procs -> Processes] /\ \A q \in Procs : Fits(proc'[q])
      BY <1>1, <1>2, <3>3, <3>4, <3>5, OneMoves
    <3> QED
      BY <1>2, <3>3, <3>4, <3>6
  <2>2. CASE \E q \in Procs :
               /\ proc[q].pc = "none"
               /\ proc' = [proc EXCEPT ![p].pc = AfterFork(q),
                                       ![q] = [proc[p] EXCEPT !.pc = AfterFork(0)]]
    <3>1. PICK q \in Procs :
               /\ proc[q].pc = "none"
               /\ proc' = [proc EXCEPT ![p].pc = AfterFork(q),
                                       ![q] = [proc[p] EXCEPT !.pc = AfterFork(0)]]
      BY <2>2
    <3>2. /\ Held' /\ proc' \in [Procs -> Processes]
          /\ \A a \in Procs : Fits(proc'[a])
          /\ \A a \in Procs : proc'[a] = proc[a] \/ proc'[a].buf = << >>
      BY <1>1, <1>2, <3>1, ForkHolds
    <3> QED
      BY <3>2
  <2> QED
    BY <2>1, <2>2 DEF Fork
<1>4. TypeOK'
  BY <1>1, <1>3, Parts, Types DEF TypeOK, ServerTypeOK, Processes, Fits
<1>5. Sending'
  BY <1>1, Parts DEF Sending
<1>6. ASSUME NEW c \in Clients PROVE InPlace(pid, c, client[c], wire[c], proc')
  <2>1. InPlace(pid, c, client[c], wire[c], proc)
    BY Parts DEF AllInPlace
  <2>2. Keeps(c, client[c], wire[c], proc, client[c], wire[c], proc')
    BY <1>3 DEF Keeps
  <2> QED
    BY <2>1, <2>2, KeptInPlace
<1>7. AllInPlace'
  BY <1>1, <1>6 DEF AllInPlace
<1> QED
  BY <1>3, <1>4, <1>5, <1>7, Parts DEF EchoInv, Held

\* Everything but what has been read of it, for a process that has a
\* connection.
LEMMA Connected ==
  ASSUME EchoInv, NEW p \in Procs, proc[p].pc \in {"fork", "read", "send", "close"}
  PROVE  /\ proc[p].conn \in Clients /\ proc[p] \in Processes
         /\ wire[proc[p].conn] \in Wires /\ client[proc[p].conn] \in Lines
         /\ InPlace(pid, proc[p].conn, client[proc[p].conn], wire[proc[p].conn], proc)
         /\ proc[p].pc # "send" => proc[p].buf = << >>
         /\ Held /\ proc \in [Procs -> Processes] /\ \A q \in Procs : Fits(proc[q])
         /\ queue \in Seq(Clients)
<1>1. Held /\ proc \in [Procs -> Processes] /\ \A q \in Procs : Fits(proc[q])
      /\ queue \in Seq(Clients)
  BY Parts, Types
<1>2. proc[p].conn \in Clients /\ proc[p] \in Processes
  BY <1>1 DEF Fits, Processes
<1>3. PICK c \in Clients : c = proc[p].conn
  BY <1>2
<1>4. wire[c] \in Wires /\ client[c] \in Lines
  BY Parts, Types
<1>5. InPlace(pid, c, client[c], wire[c], proc)
  BY Parts DEF AllInPlace
<1>6. proc[p].pc # "send" => proc[p].buf = << >>
  BY <1>1 DEF Held, Emptied
<1> QED
  BY <1>1, <1>2, <1>3, <1>4, <1>5, <1>6

\* p has become r, and the pieces of its own connection, if they have moved,
\* are in place.
LEMMA ServerMoves ==
  ASSUME EchoInv, NEW p \in Procs, NEW d \in Clients, proc[p].conn = d,
         NEW r, Fits(r), proc' = [proc EXCEPT ![p] = r],
         r.conn \in {d, NoClient}, r.pc # "fork", r.pc # "send" => r.buf = << >>,
         proc[p].pc \in {"fork", "read", "send", "close"},
         r.pc \in {"read", "send"} => proc[p].pc # "close",
         NEW w \in Wires, wire' = [wire EXCEPT ![d] = w],
         InPlace(pid, d, client[d], w, proc'),
         UNCHANGED <<queue, client, pid, lenOk>>
  PROVE  EchoInv'
<1>1. /\ Held /\ proc \in [Procs -> Processes] /\ \A q \in Procs : Fits(proc[q])
      /\ queue \in Seq(Clients) /\ wire \in [Clients -> Wires]
  BY Parts, Types
<1>2. Held' /\ proc' \in [Procs -> Processes] /\ \A q \in Procs : Fits(proc'[q])
  BY <1>1, OneMoves
<1>3. wire' \in [Clients -> Wires]
  BY <1>1
<1>4. TypeOK'
  BY <1>2, <1>3, Parts, Types DEF TypeOK, ServerTypeOK, Processes, Fits, Wires
<1>5. Sending'
  BY Parts DEF Sending
<1>6. ASSUME NEW c \in Clients PROVE InPlace(pid, c, client[c], wire'[c], proc')
  <2>1. CASE c = d
    BY <1>1, <2>1
  <2>2. CASE c # d
    <3>1. wire'[c] = wire[c]
      BY <1>1, <2>2
    <3>2. \A q \in Procs : proc'[q].conn = c => proc[q].conn = c /\ proc'[q].buf = proc[q].buf
      BY <1>1, <2>2, ClientAssumption
    <3>3. InPlace(pid, c, client[c], wire[c], proc)
      BY Parts DEF AllInPlace
    <3>4. Keeps(c, client[c], wire[c], proc, client[c], wire[c], proc')
      BY <3>2 DEF Keeps
    <3> QED
      BY <3>1, <3>3, <3>4, KeptInPlace
  <2> QED
    BY <2>1, <2>2
<1>7. AllInPlace'
  BY <1>6 DEF AllInPlace
<1> QED
  BY <1>2, <1>4, <1>5, <1>7, Parts DEF EchoInv, Held

LEMMA DropStep ==
  ASSUME EchoInv, NEW p \in Procs, proc[p].pc \in {"send", "close"},
         NEW label \in {"accept", "dead"}, Drop(p, label),
         UNCHANGED <<pid, lenOk, queue, client>>
  PROVE  EchoInv'
<1>1. PICK d : d = proc[p].conn
  OBVIOUS
<1>2. PICK r : r = [Free EXCEPT !.pc = label]
  OBVIOUS
<1>3. /\ d \in Clients /\ wire[d] \in Wires /\ InPlace(pid, d, client[d], wire[d], proc)
      /\ proc \in [Procs -> Processes]
  BY <1>1, Connected
<1>4. r.pc = label /\ r.conn = NoClient /\ r.buf = << >> /\ Fits(r)
  <2>1. PICK z \in Seq(Nat) : z = << >>
    BY EmptySeq
  <2>2. r = [pc |-> label, conn |-> NoClient, buf |-> z]
    BY <1>2, <2>1 DEF Free
  <2> QED
    BY <2>1, <2>2 DEF Fits, Processes
<1>5. proc' = [proc EXCEPT ![p] = r]
  BY <1>2 DEF Drop
<1>6. wire \in [Clients -> Wires]
  BY Parts, Types
<1>7. PICK w \in Wires : wire' = [wire EXCEPT ![d] = w] /\ w.up = wire[d].up
                         /\ w.down \in {wire[d].down, << >>}
  <2>1. CASE wire' = wire
    BY <1>3, <1>6, <2>1
  <2>2. CASE wire' = [wire EXCEPT ![d].down = << >>]
    <3>1. PICK z \in Seq(Nat) : z = << >>
      BY EmptySeq
    <3>2. PICK w : w = [wire[d] EXCEPT !.down = z]
      OBVIOUS
    <3>3. w \in Wires /\ w.up = wire[d].up /\ w.down = z
      BY <1>3, <3>1, <3>2 DEF Wires
    <3>4. wire' = [wire EXCEPT ![d] = w]
      BY <1>3, <1>6, <2>2, <3>1, <3>2
    <3> QED
      BY <3>1, <3>3, <3>4
  <2> QED
    BY <1>1, <2>1, <2>2 DEF Drop
<1>8. \A q \in Procs : proc'[q].conn = d => proc[q].conn = d /\ proc'[q].buf = proc[q].buf
  BY <1>3, <1>4, <1>5, ClientAssumption
<1>9. InPlace(pid, d, client[d], w, proc')
  <2>1. Keeps(d, client[d], wire[d], proc, client[d], w, proc')
    BY <1>7, <1>8 DEF Keeps
  <2> QED
    BY <1>3, <2>1, KeptInPlace
<1> QED
  BY <1>1, <1>3, <1>4, <1>5, <1>7, <1>9, ServerMoves

LEMMA CloseStep ==
  ASSUME EchoInv, NEW p \in Procs, Close(p), UNCHANGED client
  PROVE  EchoInv'
  BY DropStep DEF Close

LEMMA ReadStep ==
  ASSUME EchoInv, NEW p \in Procs, Read(p), UNCHANGED client
  PROVE  EchoInv'
<1>1. PICK d : d = proc[p].conn
  OBVIOUS
<1>2. proc[p].pc = "read" /\ UNCHANGED <<pid, lenOk, queue, client>>
  BY DEF Read
<1>3. /\ d \in Clients /\ proc[p] \in Processes
      /\ wire[d] \in Wires /\ client[d] \in Lines
      /\ InPlace(pid, d, client[d], wire[d], proc) /\ proc[p].buf = << >>
      /\ Held /\ proc \in [Procs -> Processes] /\ \A q \in Procs : Fits(proc[q])
  BY <1>1, <1>2, Connected
<1>4. wire \in [Clients -> Wires]
  BY Parts, Types
<1>5. CASE \E n \in 1..Len(wire[d].up) :
          /\ proc' = [proc EXCEPT ![p].pc = "send", ![p].buf = SubSeq(wire[d].up, 1, n)]
          /\ wire' = [wire EXCEPT ![d].up = SubSeq(@, n + 1, Len(@))]
  <2>1. PICK n \in 1..Len(wire[d].up) :
          /\ proc' = [proc EXCEPT ![p].pc = "send", ![p].buf = SubSeq(wire[d].up, 1, n)]
          /\ wire' = [wire EXCEPT ![d].up = SubSeq(@, n + 1, Len(@))]
    BY <1>5
  <2>2. PICK t : t = wire[d].up
    OBVIOUS
  <2>3. PICK u : u = SubSeq(t, 1, n)
    OBVIOUS
  <2>4. PICK v : v = SubSeq(t, n + 1, Len(t))
    OBVIOUS
  <2>5. t \in Seq(Nat) /\ u \in Seq(Nat) /\ v \in Seq(Nat)
    <3>1. t \in Seq(Nat) /\ n \in 1..Len(t)
      BY <1>3, <2>2 DEF Wires
    <3>2. 0 \in 0..Len(t) /\ n \in 0..Len(t) /\ Len(t) \in n..Len(t) /\ 0 + 1 = 1
      BY <3>1
    <3> QED
      BY <2>3, <2>4, <3>1, <3>2, Cut
  <2>6. PICK r : r = [proc[p] EXCEPT !.pc = "send", !.buf = u]
    OBVIOUS
  <2>7. PICK w : w = [wire[d] EXCEPT !.up = v]
    OBVIOUS
  <2>8. /\ r.pc = "send" /\ r.buf = u /\ r.conn = d /\ Fits(r)
        /\ w \in Wires /\ w.up = v /\ w.down = wire[d].down
    BY <1>1, <1>2, <1>3, <2>5, <2>6, <2>7 DEF Fits, Processes, Wires
  <2>9. proc' = [proc EXCEPT ![p] = r]
    BY <1>3, <2>1, <2>2, <2>3, <2>6
  <2>10. wire' = [wire EXCEPT ![d] = w]
    BY <1>3, <1>4, <2>1, <2>2, <2>4, <2>7
  <2>11. proc'[p] = r /\ \A q \in Procs \ {p} : proc'[q] = proc[q]
    BY <1>3, <2>9
  <2>12. ASSUME NEW q \in Procs \ {p}, pid = 0, proc[q].conn = d
         PROVE  proc[q].buf = << >>
    BY <1>1, <1>2, <1>3, <2>12 DEF Held, OneEchoes, Emptied
  <2>13. InPlace(pid, d, client[d], w, proc')
    <3>1. Reads(pid, d, p, n, wire[d], proc, w, proc')
      BY <1>1, <1>3, <2>2, <2>3, <2>4, <2>8, <2>11, <2>12 DEF Reads
    <3> QED
      BY <1>3, <3>1, ReadInPlace
  <2> QED
    BY <1>1, <1>2, <1>3, <2>8, <2>9, <2>10, <2>13, ServerMoves
<1>6. CASE Goto(p, "close") /\ wire' = wire
  <2>1. PICK r : r = [proc[p] EXCEPT !.pc = "close"]
    OBVIOUS
  <2>2. r.pc = "close" /\ r.conn = d /\ r.buf = << >> /\ Fits(r)
    BY <1>1, <1>2, <1>3, <2>1 DEF Fits, Processes
  <2>3. proc' = [proc EXCEPT ![p] = r]
    BY <1>3, <1>6, <2>1 DEF Goto
  <2>4. wire' = [wire EXCEPT ![d] = wire[d]]
    BY <1>3, <1>4, <1>6
  <2>5. \A q \in Procs : proc'[q].conn = d => \/ proc'[q].buf = << >>
                                              \/ proc[q].conn = d /\ proc'[q].buf = proc[q].buf
    BY <1>3, <2>2, <2>3
  <2>6. InPlace(pid, d, client[d], wire[d], proc')
    <3>1. Keeps(d, client[d], wire[d], proc, client[d], wire[d], proc')
      BY <2>5 DEF Keeps
    <3> QED
      BY <1>3, <3>1, KeptInPlace
  <2> QED
    BY <1>1, <1>2, <1>3, <2>2, <2>3, <2>4, <2>6, ServerMoves
<1> QED
  BY <1>1, <1>5, <1>6 DEF Read

LEMMA SendStep ==
  ASSUME EchoInv, NEW p \in Procs, Send(p), UNCHANGED client
  PROVE  EchoInv'
<1>1. PICK d : d = proc[p].conn
  OBVIOUS
<1>2. proc[p].pc = "send" /\ UNCHANGED <<pid, lenOk, queue, client>>
  BY DEF Send
<1>3. /\ d \in Clients /\ proc[p] \in Processes
      /\ wire[d] \in Wires /\ client[d] \in Lines
      /\ InPlace(pid, d, client[d], wire[d], proc)
      /\ proc \in [Procs -> Processes] /\ \A q \in Procs : Fits(proc[q])
  BY <1>1, <1>2, Connected
<1>4. wire \in [Clients -> Wires]
  BY Parts, Types
<1>5. CASE wire[d].end = "reset" /\ Drop(p, "dead")
  BY <1>2, <1>5, DropStep
<1>6. CASE proc' = [proc EXCEPT ![p].pc = "read", ![p].buf = << >>]
  <2>1. PICK r : r = [proc[p] EXCEPT !.pc = "read", !.buf = << >>]
    OBVIOUS
  <2>2. r.pc = "read" /\ r.conn = d /\ r.buf = << >> /\ Fits(r)
    <3>1. PICK z \in Seq(Nat) : z = << >>
      BY EmptySeq
    <3>2. r = [proc[p] EXCEPT !.pc = "read", !.buf = z]
      BY <2>1, <3>1
    <3>3. Fits(proc[p])
      BY <1>3
    <3>4. r.pc = "read" /\ r.conn = d /\ r.buf = z /\ r \in Processes
      BY <1>1, <1>3, <3>1, <3>2 DEF Processes
    <3> QED
      BY <1>1, <1>2, <3>1, <3>3, <3>4 DEF Fits
  <2>3. proc' = [proc EXCEPT ![p] = r]
    BY <1>3, <1>6, <2>1
  <2>4. proc'[p] = r /\ \A q \in Procs \ {p} : proc'[q] = proc[q]
    BY <1>3, <2>3
  <2>5. CASE wire' = [wire EXCEPT ![d].down = @ \o proc[p].buf]
    <3>1. PICK v : v = wire[d].down \o proc[p].buf
      OBVIOUS
    <3>2. v \in Seq(Nat) /\ proc[p].buf \in Seq(Nat)
      BY <1>3, <3>1 DEF Wires, Processes
    <3>3. PICK w : w = [wire[d] EXCEPT !.down = v]
      OBVIOUS
    <3>4. w \in Wires /\ w.up = wire[d].up /\ w.down = v
      BY <1>3, <3>2, <3>3 DEF Wires
    <3>5. wire' = [wire EXCEPT ![d] = w]
      BY <1>3, <1>4, <2>5, <3>1, <3>3
    <3>6. InPlace(pid, d, client[d], w, proc')
      <4>1. Echoes(d, p, wire[d], proc, w, proc')
        BY <1>1, <2>2, <2>4, <3>1, <3>2, <3>4 DEF Echoes
      <4> QED
        BY <1>3, <4>1, EchoedInPlace
    <3> QED
      BY <1>1, <1>2, <1>3, <2>2, <2>3, <3>4, <3>5, <3>6, ServerMoves
  <2>6. ASSUME NEW w \in Wires, wire' = [wire EXCEPT ![d] = w], w.up = wire[d].up,
               w.down = wire[d].down
        PROVE  EchoInv'
    <3>1. \A q \in Procs : proc'[q].conn = d => \/ proc'[q].buf = << >>
                                                \/ proc[q].conn = d /\ proc'[q].buf = proc[q].buf
      BY <2>2, <2>4
    <3>2. InPlace(pid, d, client[d], w, proc')
      <4>1. Keeps(d, client[d], wire[d], proc, client[d], w, proc')
        BY <2>6, <3>1 DEF Keeps
      <4> QED
        BY <1>3, <4>1, KeptInPlace
    <3> QED
      BY <1>1, <1>2, <1>3, <2>2, <2>3, <2>6, <3>2, ServerMoves
  <2>7. CASE wire' = wire
    <3>1. wire' = [wire EXCEPT ![d] = wire[d]]
      BY <1>3, <1>4, <2>7
    <3> QED
      BY <1>3, <2>6, <3>1
  <2>8. CASE \E e \in {"shut", "reset"} : wire' = [wire EXCEPT ![d].end = e]
    <3>1. PICK e \in {"shut", "reset"} : wire' = [wire EXCEPT ![d].end = e]
      BY <2>8
    <3>2. PICK w : w = [wire[d] EXCEPT !.end = e]
      OBVIOUS
    <3>3. w \in Wires /\ w.up = wire[d].up /\ w.down = wire[d].down
      BY <1>3, <3>2 DEF Wires
    <3>4. wire' = [wire EXCEPT ![d] = w]
      BY <1>3, <1>4, <3>1, <3>2
    <3> QED
      BY <2>6, <3>3, <3>4
  <2> QED
    BY <1>1, <1>5, <2>5, <2>7, <2>8 DEF Send
<1> QED
  BY <1>1, <1>5, <1>6 DEF Send

-----------------------------------------------------------------------------
(* The steps of a client.                                                  *)

\* The client of c has become k and its connection w, in place.
LEMMA ClientMoves ==
  ASSUME EchoInv, NEW c \in Clients, UNCHANGED <<pid, lenOk, proc>>,
         NEW k \in Lines, client' = [client EXCEPT ![c] = k],
         k.pc # "connect", k.pc = "send" => k.sent < MaxLines,
         NEW w \in Wires, wire' = [wire EXCEPT ![c] = w],
         InPlace(pid, c, k, w, proc),
         \/ queue' = queue
         \/ client[c].pc = "connect" /\ queue' = Append(queue, c)
  PROVE  EchoInv'
<1>1. /\ Held /\ queue \in Seq(Clients) /\ wire \in [Clients -> Wires]
      /\ client \in [Clients -> Lines] /\ IsInjective(queue)
  BY Parts, Types DEF Held, Waiting
<1>2. /\ queue' \in Seq(Clients) /\ IsInjective(queue')
      /\ \A d \in ToSet(queue') : d \in ToSet(queue) \/ (d = c /\ queue' # queue)
  <2>1. CASE queue' = queue
    BY <1>1, <2>1
  <2>2. CASE client[c].pc = "connect" /\ queue' = Append(queue, c)
    <3>1. c \notin ToSet(queue)
      BY <1>1, <2>2 DEF Held, Waiting
    <3>2. /\ Append(queue, c) \in Seq(Clients) /\ IsInjective(Append(queue, c))
          /\ ToSet(Append(queue, c)) = ToSet(queue) \cup {c}
      BY <1>1, <3>1, AppendQueue
    <3>3. CASE queue' # queue
      BY <2>2, <3>2, <3>3
    <3> QED
      BY <2>1, <3>3
  <2> QED
    BY <2>1, <2>2
<1>3. Waiting'
  <2>1. ASSUME NEW d \in ToSet(queue'), NEW p \in Procs
        PROVE  proc[p].conn # d
    BY <1>1, <1>2, <2>1 DEF Held, Waiting
  <2>2. ASSUME NEW d \in Clients, client'[d].pc = "connect"
        PROVE  d \notin ToSet(queue') /\ \A p \in Procs : proc[p].conn # d
    <3>1. d # c /\ client'[d] = client[d]
      BY <1>1, <2>2
    <3> QED
      BY <1>1, <1>2, <2>2, <3>1 DEF Held, Waiting
  <2> QED
    BY <1>2, <2>1, <2>2 DEF Waiting
<1>4. Held'
  BY <1>1, <1>3 DEF Held, Emptied, ForksAlone, HeldByTwo, Holders, OneEchoes
<1>5. TypeOK'
  <2>1. client' \in [Clients -> Lines] /\ wire' \in [Clients -> Wires]
    BY <1>1
  <2> QED
    BY <1>2, <2>1, Parts, Types DEF TypeOK, ServerTypeOK, Lines, Wires
<1>6. Sending'
  BY <1>1, Parts DEF Sending
<1>7. ASSUME NEW d \in Clients PROVE InPlace(pid, d, client'[d], wire'[d], proc)
  <2>1. CASE d = c
    BY <1>1, <2>1
  <2>2. CASE d # c
    <3>1. client'[d] = client[d] /\ wire'[d] = wire[d]
      BY <1>1, <2>2
    <3> QED
      BY <3>1, Parts DEF AllInPlace
  <2> QED
    BY <2>1, <2>2
<1>8. AllInPlace'
  BY <1>7 DEF AllInPlace
<1> QED
  BY <1>4, <1>5, <1>6, <1>8 DEF EchoInv, Held

\* What a step of the client of c starts from.
LEMMA AtClient ==
  ASSUME EchoInv, NEW c \in Clients
  PROVE  /\ client \in [Clients -> Lines] /\ wire \in [Clients -> Wires]
         /\ client[c] \in Lines /\ wire[c] \in Wires
         /\ InPlace(pid, c, client[c], wire[c], proc)
         /\ client[c].pc = "send" => client[c].sent < MaxLines
  BY Parts, Types DEF AllInPlace, Sending

\* The client goes on, and the connection has a new end at most.
LEMMA GoesOn ==
  ASSUME EchoInv, NEW c \in Clients, UNCHANGED <<pid, lenOk, proc>>,
         NEW label \in ClientLabels, Move(c, label), label # "connect",
         label = "send" => client[c].sent < MaxLines,
         NEW w \in Wires, wire' = [wire EXCEPT ![c] = w],
         w.up = wire[c].up, w.down \in {wire[c].down, << >>},
         \/ queue' = queue
         \/ client[c].pc = "connect" /\ queue' = Append(queue, c)
  PROVE  EchoInv'
<1>1. PICK k : k = [client[c] EXCEPT !.pc = label]
  OBVIOUS
<1>2. /\ k \in Lines /\ k.pc = label /\ k.sent = client[c].sent /\ k.seen = client[c].seen
      /\ client' = [client EXCEPT ![c] = k]
  BY <1>1, AtClient DEF Lines, Move
<1>3. Keeps(c, client[c], wire[c], proc, k, w, proc)
  BY <1>2 DEF Keeps
<1>4. InPlace(pid, c, k, w, proc)
  BY <1>3, AtClient, KeptInPlace
<1> QED
  BY <1>2, <1>4, ClientMoves

LEMMA ConnectStep ==
  ASSUME EchoInv, NEW c \in Clients, Connect(c)
  PROVE  EchoInv'
<1>1. /\ client[c].pc = "connect" /\ Move(c, "line") /\ "line" \in ClientLabels
      /\ UNCHANGED <<pid, lenOk, proc>>
  BY DEF Connect, ClientLabels
<1>2. CASE UNCHANGED <<queue, wire>>
  <2>1. wire' = [wire EXCEPT ![c] = wire[c]] /\ wire[c] \in Wires
    BY <1>2, AtClient
  <2> QED
    BY <1>1, <1>2, <2>1, GoesOn
<1>3. CASE queue' = Append(queue, c) /\ wire' = [wire EXCEPT ![c].end = "up"]
  <2>1. PICK w : w = [wire[c] EXCEPT !.end = "up"]
    OBVIOUS
  <2>2. w \in Wires /\ w.up = wire[c].up /\ w.down = wire[c].down
    BY <2>1, AtClient DEF Wires
  <2>3. wire' = [wire EXCEPT ![c] = w]
    BY <1>3, <2>1, AtClient
  <2> QED
    BY <1>1, <1>3, <2>2, <2>3, GoesOn
<1> QED
  BY <1>2, <1>3 DEF Connect

LEMMA WaitStep ==
  ASSUME EchoInv, NEW c \in Clients, Line(c) \/ Select(c) \/ Timeout(c)
  PROVE  EchoInv'
<1>1. wire' = [wire EXCEPT ![c] = wire[c]] /\ wire[c] \in Wires
      /\ UNCHANGED <<pid, lenOk, proc, queue>>
  BY AtClient DEF Line, Select, Timeout, serverVars
<1>2. CASE Line(c)
  <2>1. "send" \in ClientLabels /\ Move(c, "send") /\ client[c].sent < MaxLines
    BY <1>2 DEF Line, ClientLabels
  <2> QED
    BY <1>1, <2>1, GoesOn
<1>3. CASE Select(c) \/ Timeout(c)
  <2>1. PICK label \in {"recv", "line"} : Move(c, label)
    BY <1>3 DEF Select, Timeout
  <2>2. label \in ClientLabels /\ label # "connect" /\ label # "send"
    BY DEF ClientLabels
  <2> QED
    BY <1>1, <2>1, <2>2, GoesOn
<1> QED
  BY <1>2, <1>3

LEMMA SendLineStep ==
  ASSUME EchoInv, NEW c \in Clients, SendLine(c)
  PROVE  EchoInv'
<1>1. PICK n : n = client[c].sent + 1
  OBVIOUS
<1>2. PICK k : k = [client[c] EXCEPT !.pc = "select", !.sent = n]
  OBVIOUS
<1>3. client[c].sent \in Nat /\ n \in 0..MaxLines
  <2>1. client[c].pc = "send"
    BY DEF SendLine
  <2>2. client[c].sent < MaxLines /\ client[c].sent \in 0..MaxLines
    BY <2>1, AtClient DEF Lines
  <2> QED
    BY <1>1, <2>2, LineAssumption
<1>4. /\ k \in Lines /\ k.pc = "select" /\ k.sent = n /\ k.seen = client[c].seen
  BY <1>2, <1>3, AtClient DEF Lines, ClientLabels
<1>5. client' = [client EXCEPT ![c] = k]
  BY <1>1, <1>2, AtClient DEF SendLine
<1>6. PICK w \in Wires : /\ wire' = [wire EXCEPT ![c] = w] /\ w.down = wire[c].down
                         /\ w.up \in {wire[c].up, Append(wire[c].up, n)}
  <2>1. CASE wire' = wire
    <3>1. wire' = [wire EXCEPT ![c] = wire[c]] /\ wire[c] \in Wires
      BY <2>1, AtClient
    <3> QED
      BY <3>1
  <2>2. CASE wire' = [wire EXCEPT ![c].up = Append(@, n)]
    <3>1. PICK t : t = wire[c].up
      OBVIOUS
    <3>2. PICK v : v = Append(t, n)
      OBVIOUS
    <3>3. v \in Seq(Nat)
      <4>1. t \in Seq(Nat) /\ n \in Nat
        BY <1>3, <3>1, LineAssumption, AtClient DEF Wires
      <4> QED
        BY <3>2, <4>1, AppendProperties
    <3>4. PICK w : w = [wire[c] EXCEPT !.up = v]
      OBVIOUS
    <3>5. w \in Wires /\ w.up = v /\ w.down = wire[c].down
      BY <3>3, <3>4, AtClient DEF Wires
    <3>6. wire' = [wire EXCEPT ![c] = w]
      BY <2>2, <3>1, <3>2, <3>4, AtClient
    <3> QED
      BY <3>1, <3>2, <3>5, <3>6
  <2> QED
    BY <1>1, <2>1, <2>2 DEF SendLine
<1>7. Sends(client[c], wire[c], k, w)
  BY <1>1, <1>4, <1>6 DEF Sends
<1>8. \A p \in Procs : proc[p].buf \in Seq(Nat)
  BY Parts, Types DEF Fits, Processes
<1>9. InPlace(pid, c, k, w, proc)
  BY <1>7, <1>8, AtClient, SentInPlace
<1>10. UNCHANGED <<pid, lenOk, proc, queue>>
  BY DEF SendLine
<1> QED
  BY <1>4, <1>5, <1>6, <1>9, <1>10, ClientMoves

LEMMA RecvEchoStep ==
  ASSUME EchoInv, NEW c \in Clients, RecvEcho(c)
  PROVE  EchoInv'
<1>1. UNCHANGED <<pid, lenOk, proc, queue>> /\ "line" \in ClientLabels
  BY DEF RecvEcho, ClientLabels
<1>2. CASE Move(c, "line") /\ wire' = wire
  <2>1. wire' = [wire EXCEPT ![c] = wire[c]] /\ wire[c] \in Wires
    BY <1>2, AtClient
  <2> QED
    BY <1>1, <1>2, <2>1, GoesOn
<1>3. CASE \E n \in 1..Len(wire[c].down) :
          /\ wire' = [wire EXCEPT ![c].down = SubSeq(@, n + 1, Len(@))]
          /\ client' = [client EXCEPT ![c].pc = "line",
                                      ![c].seen = @ \o SubSeq(wire[c].down, 1, n)]
  <2>1. PICK n \in 1..Len(wire[c].down) :
          /\ wire' = [wire EXCEPT ![c].down = SubSeq(@, n + 1, Len(@))]
          /\ client' = [client EXCEPT ![c].pc = "line",
                                      ![c].seen = @ \o SubSeq(wire[c].down, 1, n)]
    BY <1>3
  <2>2. PICK t : t = wire[c].down
    OBVIOUS
  <2>3. PICK v : v = SubSeq(t, n + 1, Len(t))
    OBVIOUS
  <2>4. PICK e : e = client[c].seen \o SubSeq(t, 1, n)
    OBVIOUS
  <2>5. v \in Seq(Nat) /\ e \in Seq(Nat)
    <3>1. t \in Seq(Nat) /\ n \in 1..Len(t) /\ client[c].seen \in Seq(Nat)
      BY <2>2, AtClient DEF Wires, Lines
    <3>2. 0 \in 0..Len(t) /\ n \in 0..Len(t) /\ n \in 0..Len(t) /\ Len(t) \in n..Len(t)
          /\ 0 + 1 = 1
      BY <3>1
    <3>3. SubSeq(t, 1, n) \in Seq(Nat) /\ v \in Seq(Nat)
      BY <2>3, <3>1, <3>2, Cut
    <3> QED
      BY <2>4, <3>1, <3>3, ConcatProperties
  <2>6. PICK k : k = [client[c] EXCEPT !.pc = "line", !.seen = e]
    OBVIOUS
  <2>7. PICK w : w = [wire[c] EXCEPT !.down = v]
    OBVIOUS
  <2>8. /\ k \in Lines /\ k.pc = "line" /\ k.sent = client[c].sent /\ k.seen = e
        /\ w \in Wires /\ w.up = wire[c].up /\ w.down = v
    BY <1>1, <2>5, <2>6, <2>7, AtClient DEF Lines, Wires
  <2>9. client' = [client EXCEPT ![c] = k]
    BY <2>1, <2>2, <2>4, <2>6, AtClient
  <2>10. wire' = [wire EXCEPT ![c] = w]
    BY <2>1, <2>2, <2>3, <2>7, AtClient
  <2>11. Prints(n, client[c], wire[c], k, w)
    BY <2>2, <2>3, <2>4, <2>8 DEF Prints
  <2>12. InPlace(pid, c, k, w, proc)
    BY <2>11, AtClient, PrintedInPlace
  <2> QED
    BY <1>1, <2>8, <2>9, <2>10, <2>12, ClientMoves
<1> QED
  BY <1>2, <1>3 DEF RecvEcho

LEMMA ExitStep ==
  ASSUME EchoInv, NEW c \in Clients, Exit(c)
  PROVE  EchoInv'
<1>1. /\ UNCHANGED <<pid, lenOk, proc, queue>> /\ "exit" \in ClientLabels
      /\ Move(c, "exit")
  BY DEF Exit, ClientLabels
<1>2. PICK w \in Wires : /\ wire' = [wire EXCEPT ![c] = w] /\ w.up = wire[c].up
                         /\ w.down \in {wire[c].down, << >>}
  <2>1. CASE wire' = wire
    <3>1. wire' = [wire EXCEPT ![c] = wire[c]] /\ wire[c] \in Wires
      BY <2>1, AtClient
    <3> QED
      BY <3>1
  <2>2. CASE wire' # wire
    <3>1. PICK e \in {"shut", "reset"} :
             wire' = [wire EXCEPT ![c].end = e, ![c].down = << >>]
      BY <2>2 DEF Exit
    <3>2. PICK z \in Seq(Nat) : z = << >>
      BY EmptySeq
    <3>3. PICK w : w = [wire[c] EXCEPT !.end = e, !.down = z]
      OBVIOUS
    <3>4. w \in Wires /\ w.up = wire[c].up /\ w.down = z
      BY <3>3, AtClient DEF Wires
    <3>5. wire' = [wire EXCEPT ![c] = w]
      BY <3>1, <3>2, <3>3, AtClient
    <3> QED
      BY <3>2, <3>4, <3>5
  <2> QED
    BY <2>1, <2>2
<1> QED
  BY <1>1, <1>2, GoesOn

-----------------------------------------------------------------------------
(* The theorems.                                                           *)

LEMMA EchoInit == Init => EchoInv
<1> SUFFICES ASSUME Init PROVE EchoInv
  OBVIOUS
<1>1. PICK z \in Seq(Nat) : z = << >>
  BY EmptySeq
<1>2. << >> \in Seq(Clients) /\ IsInjective(<< >>) /\ ToSet(<< >>) = {}
  BY DEF IsInjective, ToSet
<1>3. \A p \in Procs : /\ proc[p].pc \in {"accept", "none"} /\ proc[p].conn = NoClient
                       /\ proc[p].buf = << >>
  BY DEF Init, ServerInit, Free
<1>4. \A c \in Clients : /\ wire[c] = [end |-> "new", up |-> z, down |-> z]
                         /\ client[c] = [pc |-> "connect", sent |-> 0, seen |-> z]
  BY <1>1 DEF Init, ServerInit
<1>5. \A c \in Clients : c # NoClient
  BY ClientAssumption
<1>6. pid \in Strays /\ lenOk \in BOOLEAN /\ queue = << >>
  BY DEF Init, ServerInit
<1>7. proc \in [Procs -> Processes] /\ \A p \in Procs : Fits(proc[p])
  <2>1. PICK a : a = [pc |-> "accept", conn |-> NoClient, buf |-> z]
    OBVIOUS
  <2>2. PICK f : f = [pc |-> "none", conn |-> NoClient, buf |-> z]
    OBVIOUS
  <2>3. Fits(a) /\ Fits(f)
    BY <2>1, <2>2 DEF Fits, Processes
  <2>4. proc = [p \in Procs |-> IF p = Main THEN a ELSE f]
    BY <1>1, <2>1, <2>2 DEF Init, ServerInit, Free
  <2> QED
    BY <2>3, <2>4 DEF Fits
<1>8. wire \in [Clients -> Wires]
  <2>1. PICK w : w = [end |-> "new", up |-> z, down |-> z]
    OBVIOUS
  <2>2. w \in Wires
    BY <2>1 DEF Wires
  <2>3. wire = [c \in Clients |-> w]
    BY <1>1, <2>1 DEF Init, ServerInit
  <2> QED
    BY <2>2, <2>3
<1>9. client \in [Clients -> Lines]
  <2>1. PICK k : k = [pc |-> "connect", sent |-> 0, seen |-> z]
    OBVIOUS
  <2>2. k \in Lines
    BY <2>1, LineAssumption DEF Lines, ClientLabels
  <2>3. client = [c \in Clients |-> k]
    BY <1>1, <2>1 DEF Init
  <2> QED
    BY <2>2, <2>3
<1>10. TypeOK
  BY <1>2, <1>6, <1>7, <1>8, <1>9, Types
<1>11. Sending
  BY <1>4 DEF Sending
<1>12. Waiting
  BY <1>2, <1>3, <1>5, <1>6 DEF Waiting
<1>13. Emptied /\ ForksAlone /\ HeldByTwo /\ OneEchoes
  BY <1>3, <1>5 DEF Emptied, ForksAlone, HeldByTwo, Holders, OneEchoes
<1>14. AllInPlace
  <2> SUFFICES ASSUME NEW c \in Clients PROVE InPlace(pid, c, client[c], wire[c], proc)
    BY DEF AllInPlace
  <2>1. client[c].seen = << >> /\ wire[c].up = << >> /\ wire[c].down = << >>
    BY <1>1, <1>4
  <2>2. \A p \in Procs : proc[p].conn # c
    BY <1>3, <1>5
  <2> QED
    BY <1>2, <2>1, <2>2, AheadEmpty DEF InPlace, Chain
<1> QED
  BY <1>10, <1>11, <1>12, <1>13, <1>14 DEF EchoInv

LEMMA EchoNext == EchoInv /\ [Next]_vars => EchoInv'
<1> SUFFICES ASSUME EchoInv, [Next]_vars PROVE EchoInv'
  OBVIOUS
<1>1. ASSUME NEW p \in Procs, ServerStep(p), UNCHANGED client PROVE EchoInv'
  <2>1. CASE Accept(p)
    BY <1>1, <2>1, AcceptStep
  <2>2. CASE Fork(p)
    BY <1>1, <2>2, ForkStep
  <2>3. CASE Read(p)
    BY <1>1, <2>3, ReadStep
  <2>4. CASE Send(p)
    BY <1>1, <2>4, SendStep
  <2>5. CASE Close(p)
    BY <1>1, <2>5, CloseStep
  <2> QED
    BY <1>1, <2>1, <2>2, <2>3, <2>4, <2>5 DEF ServerStep
<1>2. ASSUME NEW c \in Clients, ClientStep(c) PROVE EchoInv'
  <2>1. CASE Connect(c)
    BY <2>1, ConnectStep
  <2>2. CASE Line(c) \/ Select(c) \/ Timeout(c)
    BY <2>2, WaitStep
  <2>3. CASE SendLine(c)
    BY <2>3, SendLineStep
  <2>4. CASE RecvEcho(c)
    BY <2>4, RecvEchoStep
  <2>5. CASE Exit(c)
    BY <2>5, ExitStep
  <2> QED
    BY <1>2, <2>1, <2>2, <2>3, <2>4, <2>5 DEF ClientStep
<1>3. CASE UNCHANGED vars
  BY <1>3 DEF vars, serverVars, EchoInv, TypeOK, ServerTypeOK, Sending, Waiting, Emptied,
              ForksAlone, HeldByTwo, Holders, OneEchoes, AllInPlace
<1> QED
  BY <1>1, <1>2, <1>3 DEF Next

\* The invariant, for any number of clients, processes and lines.
THEOREM EchoInvariant == Spec => []EchoInv
  BY EchoInit, EchoNext, PTL DEF Spec

\* Every process has a connection exactly where server.c has one, and every
\* client has sent no more than it was given to send.
THEOREM EchoTyped == Spec => []TypeOK
<1>1. EchoInv => TypeOK
  BY DEF EchoInv
<1> QED
  BY <1>1, EchoInvariant, PTL

\* A connection is held by the two sides of one fork() at most.
THEOREM TwoHolders == Spec => []HeldByTwo
<1>1. EchoInv => HeldByTwo
  BY DEF EchoInv
<1> QED
  BY <1>1, EchoInvariant, PTL

\* A piece is in one place only, whoever reads, forks, waits or exits.
THEOREM EchoesOnce == Spec => []EchoedOnce
<1>1. ASSUME EchoInv, NEW c \in Clients
      PROVE  /\ \A i, j \in DOMAIN Places(c) : \A n \in ToSet(Places(c)[i]) :
                  /\ n \in ToSet(Places(c)[j]) => i = j
                  /\ Buffered(c, n) = {}
             /\ \A n \in 1..MaxLines : \A p, q \in Buffered(c, n) : p = q
  <2>1. InPlace(pid, c, client[c], wire[c], proc)
    BY <1>1, AtClient
  <2>2. PICK u : u = wire[c].up
    OBVIOUS
  <2>3. PICK d : d = wire[c].down
    OBVIOUS
  <2>4. PICK e : e = client[c].seen
    OBVIOUS
  <2>5. \A x \in ToSet(e) : x \notin ToSet(d) /\ x \notin ToSet(u)
    BY <2>1, <2>2, <2>3, <2>4 DEF InPlace, Chain, AllAhead, Ahead
  <2>6. \A x \in ToSet(d) : x \notin ToSet(u)
    BY <2>1, <2>2, <2>3 DEF InPlace, Chain, AllAhead, Ahead
  <2>7. \A i \in DOMAIN Places(c) :
          \/ i = "up" /\ Places(c)[i] = u
          \/ i = "down" /\ Places(c)[i] = d
          \/ i = "seen" /\ Places(c)[i] = e
    BY <2>2, <2>3, <2>4 DEF Places
  <2>8. ASSUME NEW p \in Procs, proc[p].conn = c, NEW n \in ToSet(proc[p].buf)
        PROVE  n \notin ToSet(u) /\ n \notin ToSet(d) /\ n \notin ToSet(e)
    <3>1. Link(pid, e, d, proc[p].buf, u)
      BY <2>1, <2>2, <2>3, <2>4, <2>8 DEF InPlace
    <3> QED
      BY <2>8, <3>1 DEF Link, AllAhead, Ahead
  <2>9. \A i, j \in DOMAIN Places(c) : \A n \in ToSet(Places(c)[i]) :
          n \in ToSet(Places(c)[j]) => i = j
    BY <2>5, <2>6, <2>7
  <2>10. \A i \in DOMAIN Places(c) : \A n \in ToSet(Places(c)[i]) : Buffered(c, n) = {}
    <3> SUFFICES ASSUME NEW i \in DOMAIN Places(c), NEW n \in ToSet(Places(c)[i]),
                        NEW p \in Buffered(c, n)
                 PROVE  FALSE
      OBVIOUS
    <3>1. p \in Procs /\ proc[p].conn = c /\ n \in ToSet(proc[p].buf)
      BY DEF Buffered, Holders
    <3> QED
      BY <2>7, <2>8, <3>1
  <2>11. ASSUME NEW n \in 1..MaxLines, NEW p \in Buffered(c, n), NEW q \in Buffered(c, n)
         PROVE  p = q
    <3>1. /\ p \in Procs /\ proc[p].conn = c /\ n \in ToSet(proc[p].buf)
          /\ q \in Procs /\ proc[q].conn = c /\ n \in ToSet(proc[q].buf)
      BY DEF Buffered, Holders
    <3> QED
      BY <2>1, <3>1 DEF InPlace, AllAhead, Ahead
  <2> QED
    BY <2>9, <2>10, <2>11
<1>2. EchoInv => EchoedOnce
  BY <1>1 DEF EchoedOnce
<1> QED
  BY <1>2, EchoInvariant, PTL

\* With a stray pid of 0 the client prints its pieces in the order in which
\* it sent them.
THEOREM EchoesInOrder == Spec => []InOrder
<1>1. ASSUME EchoInv, pid = 0, NEW c \in Clients,
             NEW i \in DOMAIN client[c].seen, NEW j \in DOMAIN client[c].seen, i < j
      PROVE  client[c].seen[i] < client[c].seen[j]
  <2>1. PICK s : s = client[c].seen
    OBVIOUS
  <2>2. s \in Seq(Nat) /\ Ordered(0, s)
    BY <1>1, <2>1, AtClient DEF Lines, InPlace, Chain
  <2>3. i \in 1..Len(s) /\ j \in 1..Len(s)
    BY <1>1, <2>1, <2>2
  <2>4. Ahead(0, s[i], s[j])
    BY <1>1, <2>2, <2>3 DEF Ordered
  <2> QED
    BY <2>1, <2>4 DEF Ahead
<1>2. EchoInv => InOrder
  BY <1>1 DEF InOrder
<1> QED
  BY <1>2, EchoInvariant, PTL
=============================================================================
