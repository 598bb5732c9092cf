------------------------- MODULE CloudPacketProofs -------------------------
(***************************************************************************)
(* What holds of the bytes of CloudPacket, whatever the sizes of the       *)
(* header, of the buffer and of the packets are: packets fit their buffer, *)
(* leave in order and whole, come in order and whole however they are cut, *)
(* and reading fails at the end of the connection or at an empty body.     *)
(***************************************************************************)
EXTENDS CloudPacket, SequenceLemmas

\* Rounding leaves room for a NUL, and for no more than a word.
LEMMA PaddedLength ==
  ASSUME NEW n \in Nat
  PROVE  /\ Padded(n) \in Nat /\ Padded(n) % 4 = 0
         /\ n < Padded(n) /\ Padded(n) <= n + 4
  BY SMT DEF Padded

\* A buffer of whole words has room for the rounding of a text it has room for.
LEMMA PaddedFits ==
  ASSUME NEW n \in Nat, Fits(n)
  PROVE  Header + Padded(n) <= MaxPkt
<1>1. Padded(n) \in Nat /\ Padded(n) % 4 = 0 /\ Padded(n) <= n + 4
  BY PaddedLength
<1>2. Header \in Nat /\ MaxPkt \in Nat /\ Header % 4 = 0 /\ MaxPkt % 4 = 0
  BY PacketAssumption
<1> QED
  BY <1>1, <1>2, SMT DEF Fits

Asked == asked \in Seq([text : Texts, body : Nat])

LEMMA SendFits ==
  ASSUME NEW n \in Texts, NEW answer \in BOOLEAN, Asked, SentFits,
         SendPacket(n, answer)
  PROVE  Asked' /\ SentFits'
<1>1. n \in Nat
  BY PacketAssumption
<1>2. CASE Fits(n)
  <2> DEFINE packet == [text |-> n, body |-> Padded(n)]
  <2>1. packet \in [text : Texts, body : Nat]
    BY <1>1, PaddedLength
  <2>2. packet.text < packet.body /\ Header + packet.body <= MaxPkt
    BY <1>1, <1>2, PaddedLength, PaddedFits
  <2>3. asked' = Append(asked, packet)
    BY <1>2 DEF SendPacket
  <2> HIDE DEF packet
  <2> QED
    BY <2>1, <2>2, <2>3 DEF Asked, SentFits
<1>3. CASE ~Fits(n)
  BY <1>3 DEF SendPacket, Asked, SentFits
<1> QED
  BY <1>2, <1>3

\* Every packet the device writes ends behind a NUL and within its buffer.
THEOREM Fitting == Spec => []SentFits
<1>1. Init => Asked /\ SentFits
  BY DEF Init, Asked, SentFits
<1>2. Asked /\ SentFits /\ [Next]_vars => Asked' /\ SentFits'
  <2> SUFFICES ASSUME Asked, SentFits, [Next]_vars
               PROVE  Asked' /\ SentFits'
    OBVIOUS
  <2>1. CASE \E n \in Texts, answer \in BOOLEAN : SendPacket(n, answer)
    BY <2>1, SendFits
  <2>2. CASE UNCHANGED asked
    BY <2>2 DEF Asked, SentFits
  <2>3. ReceivePacket \/ Transfer \/ AgentSends \/ AgentEnds \/ UNCHANGED vars
          => UNCHANGED asked
    BY DEF ReceivePacket, Transfer, TcpWrite, TcpRead, TcpReadFails, AgentSends,
           AgentEnds, vars
  <2> QED
    BY <2>1, <2>2, <2>3 DEF Next
<1> QED
  BY <1>1, <1>2, PTL DEF Spec

-----------------------------------------------------------------------------
(* The bytes that the device has not returned as packets.                  *)

Byte == [no : Nat, at : Nat, body : Nat]
Reading == dev.pc \in {"header", "body"}
Stream == IF Reading THEN dev.buf \o in ELSE in

\* Where in b a packet starts, and where the one behind it would.
Starts(b) == {j \in 1..Len(b) : b[j].at = 1}
Behind(b, j) == j + Header + b[j].body

\* b is the packets from number first on, one behind the other, the last of
\* them perhaps cut.
Framed(b, first) ==
  /\ b # <<>> => b[1].at = 1 /\ b[1].no = first
  /\ \A j \in Starts(b), i \in 1..Len(b) :
       /\ j <= i /\ i < Behind(b, j) =>
            b[i] = [no |-> b[j].no, at |-> i - j + 1, body |-> b[j].body]
       /\ i = Behind(b, j) => b[i].at = 1 /\ b[i].no = b[j].no + 1

\* A start in b is that of one of the packets.
FromAgent(b, packets) ==
  \A j \in Starts(b) : /\ b[j].no \in 1..Len(packets) /\ b[j].body \in Bodies
                       /\ packets[b[j].no] = Frame(b[j].no, b[j].body)

\* b goes to the end of the last of the packets, with no packet of it cut.
Whole(b, first, packets) ==
  /\ b = <<>> => first = Len(packets) + 1
  /\ \A j \in Starts(b) : /\ Behind(b, j) <= Len(b) + 1
                          /\ Behind(b, j) = Len(b) + 1 => b[j].no = Len(packets)

\* Reading a header, some of it is missing; reading a body, the header is
\* there, and some of the body is missing unless there is none.
Partial ==
  /\ dev.pc = "header" => Len(dev.buf) < Header
  /\ dev.pc = "body" =>
       /\ Len(dev.buf) >= Header
       /\ dev.buf[1].body = 0 \/ Len(dev.buf) < Header + dev.buf[1].body
       /\ dev.buf[1].body = 0 => Len(dev.buf) = Header

PacketType ==
  /\ dev \in [pc : {"idle", "write", "header", "body", "failed"}, off : Nat,
              buf : Seq(Byte), answer : BOOLEAN]
  /\ asked \in Seq([text : Nat, body : Nat])
  /\ out \in Seq(Byte) /\ in \in Seq(Byte)
  /\ sent \in Seq(Seq(Byte)) /\ got \in Seq(Seq(Byte))
  /\ ended \in BOOLEAN

\* What is written so far is whole packets, and of the one being written all
\* but the rest.
Packet == Frame(Len(asked), Last(asked).body)
Rest == SubSeq(Packet, dev.off + 1, Len(Packet))
OutInv ==
  /\ dev.pc \in {"idle", "header", "body"} => out = Frames(asked)
  /\ dev.pc = "write" => /\ asked # <<>> /\ dev.off <= Len(Packet)
                         /\ out \o Rest = Frames(asked)
  /\ dev.pc = "failed" => IsPrefix(out, Frames(asked))

StreamInv ==
  /\ Len(got) <= Len(sent)
  /\ Partial
  /\ dev.pc # "failed" =>
       /\ Framed(Stream, Len(got) + 1) /\ FromAgent(Stream, sent)
       /\ ended \/ Whole(Stream, Len(got) + 1, sent)

PacketInv == PacketType /\ OutInv /\ StreamInv

LEMMA FrameType ==
  ASSUME NEW no \in Nat, NEW body \in Nat
  PROVE  /\ Frame(no, body) \in Seq(Byte) /\ Len(Frame(no, body)) = Header + body
         /\ \A i \in 1..Header + body :
              Frame(no, body)[i] = [no |-> no, at |-> i, body |-> body]
<1>1. Header \in Nat
  BY PacketAssumption
<1> QED
  BY <1>1 DEF Frame, Byte

-----------------------------------------------------------------------------
(* What is read.                                                           *)

LEMMA BehindType ==
  ASSUME NEW b \in Seq(Byte), NEW j \in 1..Len(b)
  PROVE  b[j].body \in Nat /\ Behind(b, j) \in Nat /\ j < Behind(b, j)
<1>1. PICK x : x = b[j].body
  OBVIOUS
<1>2. b[j] \in Byte
  OBVIOUS
<1>3. x \in Nat /\ Header \in Nat \ {0} /\ j \in Nat
  BY <1>1, <1>2, PacketAssumption DEF Byte
<1>4. j + Header + x \in Nat /\ j < j + Header + x
  BY <1>3
<1> QED
  BY <1>1, <1>3, <1>4 DEF Behind

LEMMA BehindShifted ==
  ASSUME NEW b \in Seq(Byte), NEW c \in Seq(Byte), NEW j \in 1..Len(c),
         NEW k \in Nat, c[j] = b[j + k]
  PROVE  Behind(b, j + k) = Behind(c, j) + k
<1>1. PICK x : x = c[j].body
  OBVIOUS
<1>2. x \in Nat /\ Header \in Nat /\ j \in Nat
  BY <1>1, BehindType, PacketAssumption
<1>3. (j + k) + Header + x = (j + Header + x) + k
  BY <1>2
<1> QED
  BY <1>1, <1>3 DEF Behind

\* Behind the first packet, the packets go on.
LEMMA Dropped ==
  ASSUME NEW b \in Seq(Byte), NEW first \in Nat, NEW s, Framed(b, first), b # <<>>,
         NEW c \in Seq(Byte), NEW k \in Nat, Behind(b, 1) = k + 1,
         Len(b) = k + Len(c), \A i \in 1..Len(c) : c[i] = b[i + k]
  PROVE  /\ Framed(c, first + 1)
         /\ FromAgent(b, s) => FromAgent(c, s)
         /\ Whole(b, first, s) => Whole(c, first + 1, s)
<1>1. 1 \in Starts(b) /\ 1 \in 1..Len(b) /\ b[1].no = first
  BY DEF Framed, Starts
<1>2. Len(b) \in Nat /\ Len(c) \in Nat
  OBVIOUS
<1>3. \A i \in 1..Len(c) : i + k \in 1..Len(b) /\ c[i] = b[i + k] /\ i \in Nat
  BY <1>2
<1>4. ASSUME NEW j \in Starts(c)
      PROVE  /\ j + k \in Starts(b) /\ j \in 1..Len(c) /\ c[j] = b[j + k]
             /\ Behind(c, j) \in Nat /\ Behind(b, j + k) = Behind(c, j) + k
  <2>1. j \in 1..Len(c) /\ j + k \in 1..Len(b) /\ j \in Nat /\ c[j] = b[j + k]
    BY <1>3 DEF Starts
  <2>2. Behind(c, j) \in Nat
    BY <2>1, BehindType
  <2>3. Behind(b, j + k) = Behind(c, j) + k
    BY <2>1, BehindShifted
  <2> QED
    BY <2>1, <2>2, <2>3 DEF Starts
<1>5. Framed(c, first + 1)
  <2>1. c # <<>> => c[1].at = 1 /\ c[1].no = first + 1
    <3>1. c # <<>> => 1 \in 1..Len(c)
      OBVIOUS
    <3>2. c # <<>> => c[1] = b[k + 1] /\ k + 1 \in 1..Len(b)
      BY <1>3, <3>1
    <3> QED
      BY <1>1, <3>2 DEF Framed
  <2>2. ASSUME NEW j \in Starts(c), NEW i \in 1..Len(c)
        PROVE  /\ j <= i /\ i < Behind(c, j) =>
                    c[i] = [no |-> c[j].no, at |-> i - j + 1, body |-> c[j].body]
               /\ i = Behind(c, j) => c[i].at = 1 /\ c[i].no = c[j].no + 1
    <3>1. /\ j + k \in Starts(b) /\ i + k \in 1..Len(b)
          /\ c[i] = b[i + k] /\ c[j] = b[j + k] /\ i \in Nat /\ j \in Nat
          /\ Behind(b, j + k) = Behind(c, j) + k /\ Behind(c, j) \in Nat
      BY <1>3, <1>4
    <3>2. /\ j + k <= i + k /\ i + k < Behind(b, j + k) =>
               b[i + k] = [no |-> b[j + k].no, at |-> (i + k) - (j + k) + 1,
                           body |-> b[j + k].body]
          /\ i + k = Behind(b, j + k) => b[i + k].at = 1 /\ b[i + k].no = b[j + k].no + 1
      BY <3>1, Zenon DEF Framed
    <3>3. PICK e : e = Behind(c, j)
      OBVIOUS
    <3>4. /\ (i + k) - (j + k) + 1 = i - j + 1 /\ (j <= i => j + k <= i + k)
          /\ (i < e => i + k < e + k)
      BY <3>1, <3>3
    <3> QED
      BY <3>1, <3>2, <3>3, <3>4
  <2> QED
    BY <2>1, <2>2 DEF Framed
<1>6. FromAgent(b, s) => FromAgent(c, s)
  BY <1>4 DEF FromAgent
<1>7. ASSUME Whole(b, first, s) PROVE Whole(c, first + 1, s)
  <2>1. c = <<>> => first = Len(s)
    BY <1>1, <1>2, <1>7 DEF Whole
  <2>2. ASSUME NEW j \in Starts(c)
        PROVE  /\ Behind(c, j) <= Len(c) + 1
               /\ Behind(c, j) = Len(c) + 1 => c[j].no = Len(s)
    <3>1. PICK e : e = Behind(c, j)
      OBVIOUS
    <3>2. /\ j + k \in Starts(b) /\ c[j] = b[j + k]
          /\ e \in Nat /\ Behind(b, j + k) = e + k
      BY <1>4, <3>1
    <3>3. e + k <= Len(b) + 1 /\ (e + k = Len(b) + 1 => b[j + k].no = Len(s))
      BY <1>7, <3>2 DEF Whole
    <3>4. e <= Len(c) + 1 /\ (e = Len(c) + 1 => e + k = Len(b) + 1)
      BY <1>2, <3>2, <3>3
    <3> QED
      BY <3>1, <3>2, <3>3, <3>4
  <2> QED
    BY <2>1, <2>2 DEF Whole
<1> QED
  BY <1>5, <1>6, <1>7

\* The connection may end anywhere.
LEMMA Truncated ==
  ASSUME NEW b \in Seq(Byte), NEW first \in Nat, NEW s, Framed(b, first), FromAgent(b, s),
         NEW c \in Seq(Byte), Len(c) <= Len(b), \A i \in 1..Len(c) : c[i] = b[i]
  PROVE  Framed(c, first) /\ FromAgent(c, s)
<1>1. 1..Len(c) \subseteq 1..Len(b) /\ (c # <<>> => 1 \in 1..Len(c) /\ b # <<>>)
  OBVIOUS
<1>2. \A j \in Starts(c) : j \in Starts(b) /\ j \in 1..Len(c)
                          /\ Behind(c, j) = Behind(b, j)
  BY <1>1 DEF Starts, Behind
<1>3. Framed(c, first)
  <2>1. c # <<>> => c[1].at = 1 /\ c[1].no = first
    BY <1>1 DEF Framed
  <2>2. ASSUME NEW j \in Starts(c), NEW i \in 1..Len(c)
        PROVE  /\ j <= i /\ i < Behind(c, j) =>
                    c[i] = [no |-> c[j].no, at |-> i - j + 1, body |-> c[j].body]
               /\ i = Behind(c, j) => c[i].at = 1 /\ c[i].no = c[j].no + 1
    <3>1. /\ j \in Starts(b) /\ i \in 1..Len(b) /\ c[i] = b[i] /\ c[j] = b[j]
          /\ Behind(b, j) = Behind(c, j)
      BY <1>1, <1>2
    <3> QED
      BY <3>1 DEF Framed
  <2> QED
    BY <2>1, <2>2 DEF Framed
<1> QED
  BY <1>2, <1>3 DEF FromAgent

LEMMA Fields ==
  ASSUME NEW r, NEW x, NEW y, NEW z, r = [no |-> x, at |-> y, body |-> z]
  PROVE  r.no = x /\ r.at = y /\ r.body = z
  OBVIOUS

\* c is b and a packet behind it; t is s and that packet.
Longer(b, c, l, w, n, body) ==
  /\ Len(c) = l + w /\ \A i \in 1..l : c[i] = b[i]
  /\ \A i \in l+1..l+w : c[i] = [no |-> n + 1, at |-> i - l, body |-> body]
More(s, t, n, body) ==
  /\ Len(t) = n + 1 /\ t[n + 1] = Frame(n + 1, body)
  /\ \A i \in 1..n : t[i] = s[i]

LEMMA ExtendedBy ==
  ASSUME NEW b \in Seq(Byte), NEW first \in Nat, NEW s, NEW t,
         Framed(b, first), FromAgent(b, s), Whole(b, first, s),
         NEW l \in Nat, Len(b) = l, NEW n \in Nat, Len(s) = n,
         NEW body \in Bodies, NEW w \in Nat \ {0}, Header + body = w,
         NEW c \in Seq(Byte), Longer(b, c, l, w, n, body), More(s, t, n, body)
  PROVE  Framed(c, first) /\ FromAgent(c, t) /\ Whole(c, first, t)
<1>1. Header \in Nat \ {0} /\ body \in Nat
  BY PacketAssumption
<1>2. /\ Len(c) = l + w /\ \A i \in 1..l : c[i] = b[i]
      /\ \A i \in l+1..l+w : c[i] = [no |-> n + 1, at |-> i - l, body |-> body]
  BY DEF Longer
<1>3. /\ Len(t) = n + 1 /\ t[n + 1] = Frame(n + 1, body)
      /\ \A i \in 1..n : t[i] = s[i]
  BY DEF More
<1>5. \A i \in 1..Len(c) : i \in 1..l \/ i \in l+1..l+w
  BY <1>2, <1>3
<1>6. ASSUME NEW i \in l+1..l+w
      PROVE  c[i].no = n + 1 /\ c[i].at = i - l /\ c[i].body = body
  <2>1. c[i] = [no |-> n + 1, at |-> i - l, body |-> body]
    BY <1>2
  <2> QED
    <3>1. PICK r : r = c[i]
      OBVIOUS
    <3>2. PICK y : y = i - l
      OBVIOUS
    <3>3. r = [no |-> n + 1, at |-> y, body |-> body]
      BY <2>1, <3>1, <3>2, Zenon
    <3>4. r.no = n + 1 /\ r.at = y /\ r.body = body
      BY <3>3, Fields, Zenon
    <3> QED BY <3>1, <3>2, <3>4, Zenon
<1>7. ASSUME NEW j \in Starts(c)
      PROVE  j \in Starts(b) \/ j = l + 1
  <2>1. j \in 1..Len(c) /\ c[j].at = 1
    BY DEF Starts
  <2>2. j \in 1..l => j \in Starts(b)
    BY <1>2, <1>3, <2>1 DEF Starts
  <2>3. j \in l+1..l+w => j = l + 1
    <3>1. j \in l+1..l+w => c[j].at = j - l
      BY <1>6, Zenon
    <3>2. j \in Nat
      BY <2>1
    <3> QED
      BY <2>1, <3>1, <3>2
  <2> QED
    BY <1>5, <2>1, <2>2, <2>3
<1>8. ASSUME NEW j \in Starts(b)
      PROVE  /\ j \in 1..l /\ c[j] = b[j] /\ Behind(c, j) = Behind(b, j)
             /\ Behind(c, j) \in Nat /\ Behind(c, j) <= l + 1
             /\ Behind(c, j) = l + 1 => c[j].no = Len(s)
  <2>1. j \in 1..l /\ c[j] = b[j]
    BY <1>2, <1>3 DEF Starts
  <2>2. Behind(c, j) = Behind(b, j)
    BY <2>1 DEF Behind
  <2> QED
    BY <2>1, <2>2, BehindType DEF Whole
<1>9. /\ l + 1 \in 1..Len(c) /\ Behind(c, l + 1) = Len(c) + 1
      /\ c[l + 1] = [no |-> n + 1, at |-> 1, body |-> body]
  <2>1. l + 1 \in l+1..l+w /\ l + 1 - l = 1 /\ l + 1 \in 1..Len(c)
    BY <1>2, <1>3
  <2>2. c[l + 1] = [no |-> n + 1, at |-> l + 1 - l, body |-> body]
    BY <1>2, <1>3, <2>1
  <2>3. c[l + 1] = [no |-> n + 1, at |-> 1, body |-> body]
    BY <2>1, <2>2
  <2>4. (l + 1) + Header + body = Len(c) + 1
    <3>1. Len(c) = l + (Header + body)
      BY <1>2, <1>3
    <3> QED
      BY <1>1, <3>1
  <2>5. Behind(c, l + 1) = (l + 1) + Header + body
    <3>1. c[l + 1].body = body
      BY <2>3
    <3> QED
      BY <3>1, Zenon DEF Behind
  <2> QED
    BY <2>1, <2>3, <2>4, <2>5, Zenon
<1>10. Framed(c, first)
  <2>1. c[1].at = 1 /\ c[1].no = first
    <3>1. CASE b = <<>>
      <4>1. l = 0 /\ first = n + 1
        BY <3>1 DEF Whole
      <4> QED
        BY <1>9, <4>1
    <3>2. CASE b # <<>>
      <4>1. 1 \in 1..l
        BY <3>2
      <4> QED
        BY <1>2, <1>3, <3>2, <4>1 DEF Framed
    <3> QED
      BY <3>1, <3>2
  <2>2. ASSUME NEW j \in Starts(c), NEW i \in 1..Len(c)
        PROVE  /\ j <= i /\ i < Behind(c, j) =>
                    c[i] = [no |-> c[j].no, at |-> i - j + 1, body |-> c[j].body]
               /\ i = Behind(c, j) => c[i].at = 1 /\ c[i].no = c[j].no + 1
    <3>1. CASE j = l + 1
      <4>1. i \in Nat /\ i <= Len(c)
        OBVIOUS
      <4>2. j <= i => i \in l+1..l+w /\ i - j + 1 = i - l
        BY <1>2, <1>3, <3>1, <4>1
      <4>3. ~(i = Behind(c, j))
        BY <1>9, <3>1, <4>1
      <4>4. j <= i => c[i] = [no |-> n + 1, at |-> i - j + 1, body |-> body]
        BY <1>2, <1>3, <4>2, Zenon
      <4>5. c[j].no = n + 1 /\ c[j].body = body
        BY <1>9, <3>1
      <4> QED
        BY <4>3, <4>4, <4>5, Zenon
    <3>2. CASE j \in Starts(b) /\ i \in 1..l
      <4>1. c[i] = b[i] /\ c[j] = b[j] /\ Behind(c, j) = Behind(b, j) /\ i \in 1..Len(b)
        BY <1>2, <1>3, <1>8, <3>2
      <4> QED
        BY <3>2, <4>1 DEF Framed
    <3>3. CASE j \in Starts(b) /\ i \in l+1..l+w
      <4>1. PICK e : e = Behind(c, j)
        OBVIOUS
      <4>2. e \in Nat /\ e <= l + 1 /\ (e = l + 1 => c[j].no = Len(s))
        BY <1>8, <3>3, <4>1
      <4>3. ~(i < e) /\ (i = e => i = l + 1 /\ e = l + 1)
        BY <3>3, <4>2
      <4>4. i = e => c[i].at = 1 /\ c[i].no = n + 1
        BY <1>9, <4>3
      <4> QED
        BY <4>1, <4>2, <4>3, <4>4
    <3> QED
      BY <1>5, <1>7, <3>1, <3>2, <3>3
  <2> QED
    BY <2>1, <2>2 DEF Framed
<1>11. FromAgent(c, t)
  <2>1. ASSUME NEW j \in Starts(c)
        PROVE  /\ c[j].no \in 1..Len(t) /\ c[j].body \in Bodies
               /\ t[c[j].no] = Frame(c[j].no, c[j].body)
    <3>1. CASE j = l + 1
      <4>1. c[j].no = n + 1 /\ c[j].body = body
        BY <1>9, <3>1
      <4>2. n + 1 \in 1..Len(t)
        BY <1>2, <1>3, <1>1
      <4> QED
        BY <1>2, <1>3, <4>1, <4>2
    <3>2. CASE j \in Starts(b)
      <4>1. /\ c[j].no \in 1..Len(s) /\ c[j].body \in Bodies
            /\ s[c[j].no] = Frame(c[j].no, c[j].body)
        BY <1>8, <3>2 DEF FromAgent
      <4>2. c[j].no \in 1..Len(t)
        <5>1. 1..Len(s) \subseteq 1..Len(t)
          BY <1>2, <1>3, <1>1
        <5> QED
          BY <4>1, <5>1
      <4> QED
        BY <1>2, <1>3, <4>1, <4>2
    <3> QED
      BY <1>7, <3>1, <3>2
  <2> QED
    BY <2>1 DEF FromAgent
<1>12. Whole(c, first, t)
  <2>1. c # <<>>
    BY <1>2, <1>3
  <2>2. ASSUME NEW j \in Starts(c)
        PROVE  /\ Behind(c, j) <= Len(c) + 1
               /\ Behind(c, j) = Len(c) + 1 => c[j].no = Len(t)
    <3>1. CASE j = l + 1
      BY <1>2, <1>3, <1>9, <3>1
    <3>2. CASE j \in Starts(b)
      <4>1. PICK e : e = Behind(c, j)
        OBVIOUS
      <4>2. e \in Nat /\ e <= l + 1
        BY <1>8, <3>2, <4>1
      <4> QED
        BY <1>2, <1>3, <4>1, <4>2
    <3> QED
      BY <1>7, <3>1, <3>2
  <2> QED
    BY <2>1, <2>2 DEF Whole
<1> QED
  BY <1>10, <1>11, <1>12

LEMMA Extended ==
  ASSUME NEW b \in Seq(Byte), NEW first \in Nat, NEW s \in Seq(Seq(Byte)), NEW t,
         Framed(b, first), FromAgent(b, s), Whole(b, first, s), NEW body \in Bodies,
         t = Append(s, Frame(Len(s) + 1, body)), NEW c,
         c = b \o Frame(Len(s) + 1, body)
  PROVE  c \in Seq(Byte) /\ Framed(c, first) /\ FromAgent(c, t) /\ Whole(c, first, t)
<1>1. Len(s) \in Nat /\ Len(s) + 1 \in Nat /\ Header \in Nat \ {0} /\ body \in Nat
  BY PacketAssumption
<1>2. PICK p : p = Frame(Len(s) + 1, body)
  OBVIOUS
<1>9. t = Append(s, p) /\ c = b \o p
  BY <1>2
<1>3. /\ p \in Seq(Byte) /\ Len(p) = Header + body
      /\ \A i \in 1..Header + body : p[i] = [no |-> Len(s) + 1, at |-> i, body |-> body]
  BY <1>1, <1>2, FrameType
<1>4. Len(b) \in Nat /\ Header + body \in Nat \ {0}
  BY <1>1
<1>5. /\ Len(t) = Len(s) + 1 /\ t[Len(s) + 1] = p
      /\ \A n \in 1..Len(s) : t[n] = s[n]
  BY <1>3, <1>9, AppendProperties
<1>6. /\ c \in Seq(Byte) /\ Len(c) = Len(b) + (Header + body)
      /\ \A i \in 1..Len(b) + (Header + body) :
           c[i] = IF i <= Len(b) THEN b[i] ELSE p[i - Len(b)]
  BY <1>3, <1>9, ConcatProperties
<1>7. \A i \in 1..Len(b) : c[i] = b[i]
  BY <1>4, <1>6
<1>8. ASSUME NEW i \in Len(b)+1..Len(b)+(Header + body)
      PROVE  c[i] = [no |-> Len(s) + 1, at |-> i - Len(b), body |-> body]
  <2>1. i \in 1..Len(b) + (Header + body) /\ ~(i <= Len(b)) /\ i - Len(b) \in 1..Header + body
    BY <1>4
  <2> QED
    BY <1>3, <1>6, <2>1
<1>10. PICK n : n = Len(s)
  OBVIOUS
<1>11. PICK l : l = Len(b)
  OBVIOUS
<1>12. PICK w : w = Header + body
  OBVIOUS
<1>13. n \in Nat /\ l \in Nat /\ w \in Nat \ {0}
  BY <1>1, <1>4, <1>10, <1>11, <1>12
<1>14. c \in Seq(Byte) /\ Longer(b, c, l, w, n, body)
  BY <1>6, <1>7, <1>8, <1>10, <1>11, <1>12, Zenon DEF Longer
<1>15. More(s, t, n, body)
  BY <1>2, <1>5, <1>10, Zenon DEF More
<1>16. Framed(c, first) /\ FromAgent(c, t) /\ Whole(c, first, t)
  BY <1>10, <1>11, <1>12, <1>13, <1>14, <1>15, ExtendedBy
<1> QED
  BY <1>14, <1>16

-----------------------------------------------------------------------------
(* What is written.                                                        *)

LEMMA FramesEmpty == Frames(<< >>) = << >>
<1>1. [i \in DOMAIN << >> |-> Frame(i, << >>[i].body)] = << >>
  OBVIOUS
<1> QED
  BY <1>1, FlattenEmpty DEF Frames

LEMMA FramesAppend ==
  ASSUME NEW a \in Seq([text : Nat, body : Nat]), NEW e \in [text : Nat, body : Nat]
  PROVE  Frames(Append(a, e)) = Frames(a) \o Frame(Len(a) + 1, e.body)
<1>1. PICK b : b = Append(a, e)
  OBVIOUS
<1>2. /\ Len(b) = Len(a) + 1 /\ b[Len(a) + 1] = e /\ Len(a) \in Nat
      /\ \A i \in 1..Len(a) : b[i] = a[i]
      /\ DOMAIN a = 1..Len(a) /\ DOMAIN b = 1..Len(a) + 1
  BY <1>1
<1>3. PICK f : f = [i \in DOMAIN a |-> Frame(i, a[i].body)]
  OBVIOUS
<1>4. PICK g : g = [i \in DOMAIN b |-> Frame(i, b[i].body)]
  OBVIOUS
<1>5. PICK p : p = Frame(Len(a) + 1, e.body)
  OBVIOUS
<1>6. p \in Seq(Byte)
  <2>1. e.body \in Nat /\ Len(a) + 1 \in Nat
    BY <1>2
  <2> QED
    BY <1>5, <2>1, FrameType
<1>7. f \in Seq(Seq(Byte)) /\ Len(f) = Len(a)
  <2>1. \A i \in 1..Len(a) : Frame(i, a[i].body) \in Seq(Byte)
    <3>1. \A i \in 1..Len(a) : a[i] \in [text : Nat, body : Nat]
      BY Elements
    <3>3. \A i \in 1..Len(a) : i \in Nat
      BY <1>2
    <3>2. \A i \in 1..Len(a) : a[i].body \in Nat
      BY <3>1
    <3> QED
      BY <3>2, <3>3, FrameType
  <2> QED
    BY <1>2, <1>3, <2>1
<1>8. g = Append(f, p)
  <2>1. \A i \in 1..Len(a) : g[i] = f[i]
    BY <1>2, <1>3, <1>4
  <2>2. g[Len(a) + 1] = p
    BY <1>2, <1>4, <1>5
  <2>3. g = [i \in 1..Len(a) + 1 |-> g[i]]
    BY <1>2, <1>4
  <2>4. /\ Append(f, p) \in Seq(Seq(Byte)) /\ Len(Append(f, p)) = Len(a) + 1
        /\ \A i \in 1..Len(a) : Append(f, p)[i] = f[i]
        /\ Append(f, p)[Len(a) + 1] = p
    BY <1>6, <1>7, AppendProperties
  <2>5. Append(f, p) = [i \in 1..Len(a) + 1 |-> Append(f, p)[i]]
    <3>1. PICK h : h = Append(f, p)
      OBVIOUS
    <3>2. h \in Seq(Seq(Byte)) /\ Len(h) = Len(a) + 1
      BY <2>4, <3>1
    <3>3. h = [i \in 1..Len(a) + 1 |-> h[i]]
      BY <3>2
    <3> QED
      BY <3>1, <3>3
  <2>6. \A i \in 1..Len(a) + 1 : g[i] = Append(f, p)[i]
    <3>1. \A i \in 1..Len(a) + 1 : i \in 1..Len(a) \/ i = Len(a) + 1
      BY <1>2
    <3> QED
      BY <2>1, <2>2, <2>4, <3>1
  <2> QED
    BY <2>3, <2>5, <2>6
<1>9. FlattenSeq(g) = FlattenSeq(f) \o p
  BY <1>6, <1>7, <1>8, FlattenAppend
<1> QED
  BY <1>1, <1>3, <1>4, <1>5, <1>9 DEF Frames

LEMMA PacketBytes ==
  ASSUME PacketType, asked # << >>
  PROVE  /\ Packet \in Seq(Byte) /\ Len(Packet) = Header + Last(asked).body
         /\ Last(asked).body \in Nat
<1>1. asked[Len(asked)] \in [text : Nat, body : Nat] /\ Len(asked) \in Nat
  BY Elements DEF PacketType
<1>2. Last(asked).body \in Nat
  BY <1>1 DEF Last
<1> QED
  BY <1>1, <1>2, FrameType DEF Packet

-----------------------------------------------------------------------------
(* What the steps of the device do, one at a time.                         *)

LEMMA DevType ==
  ASSUME PacketType
  PROVE  /\ dev.pc \in {"idle", "write", "header", "body", "failed"} /\ dev.off \in Nat
         /\ dev.buf \in Seq(Byte)
  BY DEF PacketType

LEMMA Sends ==
  ASSUME PacketType, NEW n \in Texts, NEW answer \in BOOLEAN, SendPacket(n, answer)
  PROVE  /\ dev.pc = "idle" /\ dev' \in [pc : {"write", "failed"}, off : Nat,
                                        buf : Seq(Byte), answer : BOOLEAN]
         /\ UNCHANGED <<out, sent, in, got, ended>>
         /\ asked' \in Seq([text : Nat, body : Nat])
         /\ dev'.pc = "failed" => asked' = asked
         /\ dev'.pc = "write" =>
              dev'.off = 0 /\ \E e \in [text : Nat, body : Nat] : asked' = Append(asked, e)
<1>1. n \in Nat /\ Padded(n) \in Nat
  BY PacketAssumption, PaddedLength
<1>2. PICK e : e = [text |-> n, body |-> Padded(n)]
  OBVIOUS
<1>3. e \in [text : Nat, body : Nat]
  BY <1>1, <1>2
<1>4. Append(asked, e) \in Seq([text : Nat, body : Nat])
  BY <1>3 DEF PacketType
<1>5. CASE Fits(n)
  <2>1. dev' = [dev EXCEPT !.pc = "write", !.off = 0, !.answer = answer]
        /\ asked' = Append(asked, e)
    BY <1>2, <1>5 DEF SendPacket
  <2>2. dev' \in [pc : {"write", "failed"}, off : Nat, buf : Seq(Byte), answer : BOOLEAN]
        /\ dev'.pc = "write" /\ dev'.off = 0
    BY <2>1 DEF PacketType
  <2> QED
    BY <1>3, <1>4, <2>1, <2>2 DEF SendPacket
<1>6. CASE ~Fits(n)
  <2>1. dev' = [dev EXCEPT !.pc = "failed"] /\ asked' = asked
    BY <1>6 DEF SendPacket
  <2>2. dev' \in [pc : {"write", "failed"}, off : Nat, buf : Seq(Byte), answer : BOOLEAN]
        /\ dev'.pc = "failed"
    BY <2>1 DEF PacketType
  <2> QED
    BY <2>1, <2>2 DEF SendPacket, PacketType
<1> QED
  BY <1>5, <1>6

LEMMA Writes ==
  ASSUME PacketType, OutInv, TcpWrite
  PROVE  /\ dev.pc = "write" /\ dev' \in [pc : {"write", "idle", "header", "failed"},
                                         off : Nat, buf : Seq(Byte), answer : BOOLEAN]
         /\ out' \in Seq(Byte) /\ UNCHANGED <<asked, sent, in, got, ended>>
         /\ dev'.pc \in {"idle", "header"} => dev'.buf = << >>
         /\ \/ dev'.pc = "failed" /\ ended /\ out' = out
            \/ \E n \in dev.off..Len(Packet) :
                 /\ out' = out \o SubSeq(Packet, dev.off + 1, n)
                 /\ IF n < Len(Packet) THEN dev'.pc = "write" /\ dev'.off = n
                                       ELSE dev'.pc \in {"idle", "header"}
<1>1. dev.pc = "write" /\ asked # << >> /\ dev.off <= Len(Packet)
  BY DEF TcpWrite, OutInv
<1>2. PICK p : p = Packet
  OBVIOUS
<1>3. p \in Seq(Byte) /\ Len(p) \in Nat
  BY <1>1, <1>2, PacketBytes
<1>4. PICK off : off = dev.off
  OBVIOUS
<1>5. off \in Nat /\ off <= Len(p)
  BY <1>1, <1>2, <1>4, DevType
<1>6. CASE ended /\ dev' = [dev EXCEPT !.pc = "failed"] /\ out' = out
  <2>1. dev' \in [pc : {"failed"}, off : Nat, buf : Seq(Byte), answer : BOOLEAN]
    BY <1>6 DEF PacketType
  <2> QED
    BY <1>1, <1>6, <2>1 DEF TcpWrite, PacketType
<1>7. CASE \E n \in 0..Len(p) - off :
             /\ out' = out \o SubSeq(p, off + 1, off + n)
             /\ dev' = CASE off + n < Len(p) -> [dev EXCEPT !.off = @ + n]
                         [] off + n = Len(p) ->
                              [dev EXCEPT !.off = 0, !.buf = << >>,
                                          !.pc = IF dev.answer THEN "header" ELSE "idle"]
  <2>1. PICK n \in 0..Len(p) - off :
             /\ out' = out \o SubSeq(p, off + 1, off + n)
             /\ dev' = CASE off + n < Len(p) -> [dev EXCEPT !.off = @ + n]
                         [] off + n = Len(p) ->
                              [dev EXCEPT !.off = 0, !.buf = << >>,
                                          !.pc = IF dev.answer THEN "header" ELSE "idle"]
    BY <1>7
  <2>2. PICK m : m = off + n
    OBVIOUS
  <2>3. m \in off..Len(p) /\ off \in 0..Len(p) /\ n \in Nat
    BY <1>3, <1>5, <2>2
  <2>4. SubSeq(p, off + 1, m) \in Seq(Byte)
    BY <1>3, <2>3, Cut
  <2>5. out' = out \o SubSeq(p, off + 1, m) /\ out' \in Seq(Byte)
    BY <2>1, <2>2, <2>4, ConcatProperties DEF PacketType
  <2>6. CASE m < Len(p)
    <3>1. dev' = [dev EXCEPT !.off = m]
      BY <1>4, <2>1, <2>2, <2>6
    <3>2. m \in Nat
      BY <1>3, <1>5, <2>3
    <3>3. dev' \in [pc : {"write"}, off : Nat, buf : Seq(Byte), answer : BOOLEAN]
          /\ dev'.off = m
      BY <1>1, <3>1, <3>2 DEF PacketType
    <3> QED
      BY <1>1, <1>2, <1>4, <2>2, <2>3, <2>5, <2>6, <3>3 DEF TcpWrite
  <2>7. CASE ~(m < Len(p))
    <3>1. m = Len(p) /\ off + n = Len(p) /\ ~(off + n < Len(p))
      BY <1>3, <1>5, <2>2, <2>3, <2>7
    <3>2. dev' = [dev EXCEPT !.off = 0, !.buf = << >>,
                             !.pc = IF dev.answer THEN "header" ELSE "idle"]
      BY <2>1, <3>1
    <3>4. PICK q : q = IF dev.answer THEN "header" ELSE "idle"
      OBVIOUS
    <3>5. q \in {"idle", "header"}
      BY <3>4
    <3>7. PICK z : z = << >>
      OBVIOUS
    <3>8. z \in Seq(Byte)
      BY <3>7
    <3>6. dev' = [dev EXCEPT !.off = 0, !.buf = z, !.pc = q]
      BY <3>2, <3>4, <3>7, Zenon
    <3>3. dev' \in [pc : {"idle", "header"}, off : Nat, buf : Seq(Byte), answer : BOOLEAN]
          /\ dev'.buf = z
      BY <3>5, <3>6, <3>8 DEF PacketType
    <3> QED
      BY <1>1, <1>2, <1>4, <2>3, <2>5, <2>7, <3>3, <3>7 DEF TcpWrite
  <2> QED
    BY <2>6, <2>7
<1> QED
  BY <1>2, <1>4, <1>6, <1>7 DEF TcpWrite, Packet

\* How much cloud_recv_packet still asks for; the header that tells it is there.
LEMMA LeftType ==
  ASSUME PacketType, Partial, Reading
  PROVE  /\ Left \in Nat /\ Len(dev.buf) \in Nat
         /\ dev.pc = "header" => Len(dev.buf) + Left = Header /\ Left > 0
         /\ dev.pc = "body" => /\ 1 \in 1..Len(dev.buf) /\ dev.buf[1].body \in Nat
                               /\ Len(dev.buf) + Left = Header + dev.buf[1].body
                               /\ Left = 0 => dev.buf[1].body = 0
<1>1. dev.buf \in Seq(Byte) /\ Len(dev.buf) \in Nat /\ Header \in Nat \ {0}
  BY DevType, PacketAssumption
<1>2. CASE dev.pc = "header"
  <2>1. Left = Header - Len(dev.buf)
    BY <1>2 DEF Left
  <2>2. Len(dev.buf) < Header
    BY <1>2 DEF Partial
  <2> QED
    BY <1>1, <1>2, <2>1, <2>2
<1>3. CASE dev.pc = "body"
  <2>1. PICK x : x = dev.buf[1].body
    OBVIOUS
  <2>2. Left = Header + x - Len(dev.buf)
    BY <1>3, <2>1 DEF Left
  <2>3. Len(dev.buf) >= Header /\ (x = 0 \/ Len(dev.buf) < Header + x)
        /\ (x = 0 => Len(dev.buf) = Header)
    BY <1>3, <2>1 DEF Partial
  <2>4. 1 \in 1..Len(dev.buf)
    BY <1>1, <2>3
  <2>5. x \in Nat
    BY <1>1, <2>1, <2>4, BehindType
  <2>6. Left \in Nat /\ Len(dev.buf) + Left = Header + x /\ (Left = 0 => x = 0)
    BY <1>1, <2>2, <2>3, <2>5
  <2> QED
    BY <1>1, <1>3, <2>1, <2>4, <2>5, <2>6
<1> QED
  BY <1>2, <1>3 DEF Reading

\* n bytes have come.
ReadsPart(n, buf, left) ==
  /\ n \in 0..left /\ n <= Len(in)
  /\ buf \in Seq(Byte) /\ Len(buf) = Len(dev.buf) + n
  /\ \A i \in 1..Len(dev.buf) : buf[i] = dev.buf[i]
  /\ in' \in Seq(Byte) /\ Len(in') = Len(in) - n
  /\ buf \o in' = dev.buf \o in
  /\ dev' \in [pc : {"header", "body", "idle"}, off : Nat, buf : Seq(Byte),
               answer : BOOLEAN]
  /\ dev'.buf = buf
  /\ n < left => dev'.pc = dev.pc /\ got' = got
  /\ n = left /\ dev.pc = "header" => dev'.pc = "body" /\ got' = got
  /\ n = left /\ dev.pc = "body" => dev'.pc = "idle" /\ got' = Append(got, buf)

LEMMA Reads ==
  ASSUME PacketType, Partial, TcpRead
  PROVE  /\ Reading /\ Left > 0 /\ UNCHANGED <<asked, out, sent, ended>>
         /\ \E n, buf : ReadsPart(n, buf, Left)
<1>1. Reading /\ Left > 0 /\ UNCHANGED <<asked, out, sent, ended>>
  BY DEF TcpRead, Reading
<1>2. PICK left : left = Left
  OBVIOUS
<1>3. left \in Nat
  BY <1>1, <1>2, LeftType
<1>4. PICK n \in 0..left :
        /\ n <= Len(in) /\ in' = SubSeq(in, n + 1, Len(in))
        /\ dev' = [dev EXCEPT !.buf = dev.buf \o SubSeq(in, 1, n),
                              !.pc = CASE n < left -> dev.pc
                                       [] n = left -> IF dev.pc = "header" THEN "body"
                                                      ELSE "idle"]
        /\ got' = IF n = left /\ dev.pc = "body"
                  THEN Append(got, dev.buf \o SubSeq(in, 1, n)) ELSE got
  BY <1>2 DEF TcpRead
<1>5. PICK s : s = dev.buf
  OBVIOUS
<1>6. PICK buf : buf = s \o SubSeq(in, 1, n)
  OBVIOUS
<1>7. s \in Seq(Byte) /\ in \in Seq(Byte) /\ n \in 0..Len(in) /\ Len(in) \in Nat
  BY <1>3, <1>4, <1>5, DevType DEF PacketType
<1>8. /\ SubSeq(in, 1, n) \in Seq(Byte) /\ Len(SubSeq(in, 1, n)) = n
      /\ in' \in Seq(Byte) /\ Len(in') = Len(in) - n
  <2>1. 0 \in 0..Len(in) /\ n \in 0..Len(in) /\ Len(in) \in n..Len(in) /\ 0 + 1 = 1
        /\ n - 0 = n
    BY <1>7
  <2>2. SubSeq(in, 0 + 1, n) \in Seq(Byte) /\ Len(SubSeq(in, 0 + 1, n)) = n - 0
    BY <1>7, <2>1, Cut
  <2>3. SubSeq(in, n + 1, Len(in)) \in Seq(Byte)
        /\ Len(SubSeq(in, n + 1, Len(in))) = Len(in) - n
    BY <1>7, <2>1, Cut
  <2> QED
    BY <1>4, <2>1, <2>2, <2>3
<1>9. /\ buf \in Seq(Byte) /\ Len(buf) = Len(s) + n
      /\ \A i \in 1..Len(s) : buf[i] = s[i]
  BY <1>6, <1>7, <1>8, ConcatProperties
<1>10. buf \o in' = s \o in
  <2>1. 0 \in 0..Len(in) /\ n \in 0..Len(in) /\ 0 + 1 = 1
    BY <1>7
  <2>2. (s \o SubSeq(in, 0 + 1, n)) \o SubSeq(in, n + 1, Len(in))
          = s \o SubSeq(in, 0 + 1, Len(in))
    BY <1>7, <2>1, CutJoins
  <2>3. SubSeq(in, 1, Len(in)) = in
    BY <1>7, SubSeqFull
  <2> QED
    BY <1>4, <1>6, <2>1, <2>2, <2>3
<1>11. PICK q : q = CASE n < left -> dev.pc
                      [] n = left -> IF dev.pc = "header" THEN "body" ELSE "idle"
  OBVIOUS
<1>12. dev' = [dev EXCEPT !.buf = buf, !.pc = q]
  BY <1>4, <1>5, <1>6, <1>11, Zenon
<1>13. (n < left \/ n = left) /\ ~(n < left /\ n = left)
  BY <1>3, <1>4
<1>14. /\ n < left => q = dev.pc
       /\ n = left => q = IF dev.pc = "header" THEN "body" ELSE "idle"
  BY <1>11, <1>13
<1>15. q \in {"header", "body", "idle"}
  BY <1>1, <1>13, <1>14 DEF Reading
<1>16. dev' \in [pc : {"header", "body", "idle"}, off : Nat, buf : Seq(Byte),
                 answer : BOOLEAN] /\ dev'.buf = buf /\ dev'.pc = q
  BY <1>9, <1>12, <1>15 DEF PacketType
<1>17. /\ ~(n = left /\ dev.pc = "body") => got' = got
       /\ n = left /\ dev.pc = "body" => got' = Append(got, buf)
  BY <1>4, <1>5, <1>6
<1>18. ReadsPart(n, buf, left)
  BY <1>4, <1>5, <1>8, <1>9, <1>10, <1>13, <1>14, <1>16, <1>17, Zenon DEF ReadsPart
<1> QED
  BY <1>1, <1>2, <1>18

LEMMA Receives ==
  ASSUME PacketType, ReceivePacket
  PROVE  /\ dev.pc = "idle" /\ dev' \in [pc : {"header"}, off : Nat, buf : Seq(Byte),
                                        answer : BOOLEAN]
         /\ dev'.buf = << >> /\ UNCHANGED <<asked, out, sent, in, got, ended>>
<1>1. PICK z : z = << >>
  OBVIOUS
<1>2. z \in Seq(Byte)
  BY <1>1
<1>3. dev' = [dev EXCEPT !.pc = "header", !.buf = z]
  BY <1>1 DEF ReceivePacket
<1>4. dev' \in [pc : {"header"}, off : Nat, buf : Seq(Byte), answer : BOOLEAN]
      /\ dev'.buf = z
  BY <1>2, <1>3 DEF PacketType
<1> QED
  BY <1>1, <1>4 DEF ReceivePacket

LEMMA ReadFails ==
  ASSUME PacketType, TcpReadFails
  PROVE  /\ Reading /\ dev' \in [pc : {"failed"}, off : Nat, buf : Seq(Byte),
                                answer : BOOLEAN]
         /\ Left = 0 \/ (in = << >> /\ ended)
         /\ UNCHANGED <<asked, out, sent, in, got, ended>>
<1>1. dev' = [dev EXCEPT !.pc = "failed"]
  BY DEF TcpReadFails
<1>2. dev' \in [pc : {"failed"}, off : Nat, buf : Seq(Byte), answer : BOOLEAN]
  BY <1>1 DEF PacketType
<1>3. Reading
  BY DEF TcpReadFails, Reading
<1>4. Left = 0 \/ (in = << >> /\ ended)
  BY Zenon DEF TcpReadFails
<1>5. UNCHANGED <<asked, out, sent, in, got, ended>>
  BY DEF TcpReadFails
<1> QED
  BY <1>2, <1>3, <1>4, <1>5, Zenon

LEMMA AgentSent ==
  ASSUME PacketType, AgentSends
  PROVE  /\ ~ended /\ UNCHANGED <<dev, asked, out, got, ended>>
         /\ in' \in Seq(Byte) /\ sent' \in Seq(Seq(Byte))
         /\ Len(sent) + 1 \in 1..MaxSent
         /\ \E body \in Bodies : /\ sent' = Append(sent, Frame(Len(sent) + 1, body))
                                 /\ in' = in \o Frame(Len(sent) + 1, body)
<1>1. PICK body \in Bodies : /\ sent' = Append(sent, Frame(Len(sent) + 1, body))
                             /\ in' = in \o Frame(Len(sent) + 1, body)
  BY DEF AgentSends
<1>2. PICK p : p = Frame(Len(sent) + 1, body)
  OBVIOUS
<1>3. body \in Nat /\ Len(sent) \in Nat /\ Len(sent) + 1 \in Nat
      /\ Len(sent) + 1 \in 1..MaxSent
  <2>1. body \in Nat
    BY PacketAssumption, Zenon
  <2>2. Len(sent) \in Nat
    BY DEF PacketType
  <2>3. Len(sent) < MaxSent
    BY DEF AgentSends
  <2> QED
    BY <2>1, <2>2, <2>3, PacketBounds
<1>4. p \in Seq(Byte)
  BY <1>2, <1>3, FrameType
<1>5. sent' \in Seq(Seq(Byte))
  BY <1>1, <1>2, <1>4 DEF PacketType
<1>6. in' \in Seq(Byte)
  BY <1>1, <1>2, <1>4, ConcatProperties DEF PacketType
<1> QED
  BY <1>1, <1>3, <1>5, <1>6 DEF AgentSends

LEMMA AgentEnded ==
  ASSUME PacketType, AgentEnds
  PROVE  /\ ended' = TRUE /\ UNCHANGED <<dev, asked, out, sent, got>>
         /\ in' \in Seq(Byte) /\ Len(in') <= Len(in)
         /\ \A i \in 1..Len(in') : in'[i] = in[i]
<1>1. PICK n \in 0..Len(in) : in' = SubSeq(in, 1, n)
  BY DEF AgentEnds
<1>2. in \in Seq(Byte) /\ Len(in) \in Nat
  BY DEF PacketType
<1>3. 0 \in 0..Len(in) /\ n \in 0..Len(in) /\ 0 + 1 = 1 /\ n - 0 = n
  BY <1>2
<1>4. /\ SubSeq(in, 0 + 1, n) \in Seq(Byte) /\ Len(SubSeq(in, 0 + 1, n)) = n - 0
      /\ \A i \in 1..n - 0 : SubSeq(in, 0 + 1, n)[i] = in[i + 0]
  BY <1>2, <1>3, Cut
<1>5. in' \in Seq(Byte) /\ Len(in') = n /\ \A i \in 1..n : in'[i] = in[i]
  BY <1>1, <1>3, <1>4
<1> QED
  BY <1>1, <1>2, <1>5 DEF AgentEnds

LEMMA TypeKept ==
  ASSUME PacketInv, Next
  PROVE  PacketType'
<1> USE DEF PacketInv
<1>1. ASSUME NEW n \in Texts, NEW answer \in BOOLEAN, SendPacket(n, answer)
      PROVE  PacketType'
  BY <1>1, Sends DEF PacketType
<1>2. CASE ReceivePacket
  BY <1>2, Receives DEF PacketType
<1>3. CASE TcpWrite
  BY <1>3, Writes DEF PacketType
<1>4. CASE TcpRead
  <2>1. /\ UNCHANGED <<asked, out, sent, ended>> /\ \E n, buf : ReadsPart(n, buf, Left)
    BY <1>4, Reads DEF StreamInv
  <2>2. PICK n, buf : ReadsPart(n, buf, Left)
    BY <2>1
  <2>3. /\ in' \in Seq(Byte) /\ (got' = got \/ got' = Append(got, buf)) /\ buf \in Seq(Byte)
        /\ dev' \in [pc : {"header", "body", "idle"}, off : Nat, buf : Seq(Byte),
                     answer : BOOLEAN]
    <3>1. Reading /\ Left \in Nat
      BY <1>4, Reads, LeftType DEF StreamInv
    <3>2. n < Left \/ n = Left
      BY <2>2, <3>1 DEF ReadsPart
    <3> QED
      BY <2>2, <3>1, <3>2 DEF ReadsPart, Reading
  <2>4. got' \in Seq(Seq(Byte))
    <3>1. got \in Seq(Seq(Byte))
      BY DEF PacketType
    <3>2. Append(got, buf) \in Seq(Seq(Byte))
      BY <2>3, <3>1, AppendProperties
    <3> QED
      BY <2>3, <3>1, <3>2
  <2> QED
    BY <2>1, <2>3, <2>4 DEF PacketType
<1>5. CASE TcpReadFails
  BY <1>5, ReadFails DEF PacketType
<1>6. CASE AgentSends
  BY <1>6, AgentSent DEF PacketType
<1>7. CASE AgentEnds
  BY <1>7, AgentEnded DEF PacketType
<1> QED
  BY <1>1, <1>2, <1>3, <1>4, <1>5, <1>6, <1>7 DEF Next, Transfer

LEMMA SendOut ==
  ASSUME PacketInv, NEW n \in Texts, NEW answer \in BOOLEAN, SendPacket(n, answer)
  PROVE  OutInv'
<1>1. PacketType /\ out = Frames(asked) /\ out \in Seq(Byte) /\ out' = out
  BY Sends DEF PacketInv, OutInv, PacketType
<1>2. CASE dev'.pc = "failed"
  <2>1. Frames(asked)' = Frames(asked)
    BY <1>1, <1>2, Sends DEF Frames
  <2>2. IsPrefix(out', Frames(asked)')
    BY <1>1, <2>1, PrefixItself
  <2> QED
    BY <1>2, <2>2 DEF OutInv
<1>3. CASE dev'.pc = "write"
  <2>1. PICK e \in [text : Nat, body : Nat] : asked' = Append(asked, e)
    BY <1>1, <1>3, Sends
  <2>2. Frames(asked)' = Frames(asked) \o Frame(Len(asked) + 1, e.body)
    <3>1. Frames(Append(asked, e)) = Frames(asked) \o Frame(Len(asked) + 1, e.body)
      BY <1>1, FramesAppend DEF PacketType
    <3> QED
      BY <2>1, <3>1 DEF Frames
  <2>3. asked' # << >> /\ Len(asked') = Len(asked) + 1 /\ asked'[Len(asked) + 1] = e
    <3>1. asked \in Seq([text : Nat, body : Nat])
      BY <1>1 DEF PacketType
    <3> QED
      BY <2>1, <3>1, AppendProperties
  <2>4. Packet' = Frame(Len(asked) + 1, e.body)
    BY <2>3 DEF Packet, Frame, Last
  <2>5. PICK p : p = Frame(Len(asked) + 1, e.body)
    OBVIOUS
  <2>6. p \in Seq(Byte) /\ Len(p) \in Nat
    <3>1. Len(asked) + 1 \in Nat /\ e.body \in Nat
      BY <1>1 DEF PacketType
    <3> QED
      BY <2>5, <3>1, FrameType
  <2>7. dev'.off = 0
    BY <1>1, <1>3, Sends
  <2>8. Rest' = p
    <3>1. SubSeq(p, 0 + 1, Len(p)) = p
      BY <2>6, SubSeqFull
    <3> QED
      BY <2>4, <2>5, <2>7, <3>1 DEF Rest
  <2>9. dev'.off <= Len(Packet')
    BY <2>4, <2>5, <2>6, <2>7
  <2>10. out' \o Rest' = Frames(asked)'
    BY <1>1, <2>2, <2>5, <2>8
  <2> QED
    BY <1>3, <2>3, <2>9, <2>10 DEF OutInv
<1> QED
  BY <1>1, <1>2, <1>3, Sends

LEMMA WriteOut ==
  ASSUME PacketInv, TcpWrite
  PROVE  OutInv'
<1>1. PacketType /\ OutInv /\ dev.pc = "write" /\ asked # << >> /\ asked' = asked
  BY Writes DEF PacketInv, OutInv
<1>2. dev.off <= Len(Packet) /\ out \o Rest = Frames(asked) /\ out \in Seq(Byte)
  BY <1>1 DEF OutInv, PacketType
<1>3. Frames(asked)' = Frames(asked) /\ Packet' = Packet
  BY <1>1 DEF Frames, Packet, Frame, Last
<1>4. PICK p : p = Packet
  OBVIOUS
<1>5. PICK off : off = dev.off
  OBVIOUS
<1>6. p \in Seq(Byte) /\ Len(p) \in Nat /\ off \in 0..Len(p)
  BY <1>1, <1>2, <1>4, <1>5, PacketBytes, DevType
<1>7. Rest = SubSeq(p, off + 1, Len(p)) /\ Rest' = SubSeq(p, dev'.off + 1, Len(p))
  BY <1>3, <1>4, <1>5 DEF Rest
<1>8. CASE dev'.pc = "failed" /\ out' = out
  <2>1. SubSeq(p, off + 1, Len(p)) \in Seq(Byte)
    <3>1. Len(p) \in off..Len(p)
      BY <1>6
    <3> QED
      BY <1>6, <3>1, Cut
  <2>2. IsPrefix(out, out \o Rest)
    BY <1>2, <1>7, <2>1, PrefixJoined
  <2> QED
    BY <1>2, <1>3, <1>8, <2>2 DEF OutInv
<1>9. ASSUME NEW n \in off..Len(p), out' = out \o SubSeq(p, off + 1, n),
             IF n < Len(p) THEN dev'.pc = "write" /\ dev'.off = n
                           ELSE dev'.pc \in {"idle", "header"}
      PROVE  OutInv'
  <2>1. (out \o SubSeq(p, off + 1, n)) \o SubSeq(p, n + 1, Len(p))
          = out \o SubSeq(p, off + 1, Len(p))
    BY <1>2, <1>6, CutJoins
  <2>2. CASE n < Len(p)
    <3>1. dev'.pc = "write" /\ dev'.off = n /\ n <= Len(p)
      BY <1>6, <1>9, <2>2
    <3>2. out' \o Rest' = Frames(asked)'
      BY <1>2, <1>3, <1>7, <1>9, <2>1, <3>1
    <3> QED
      BY <1>1, <1>3, <1>4, <3>1, <3>2 DEF OutInv
  <2>3. CASE ~(n < Len(p))
    <3>1. n = Len(p)
      BY <1>6, <2>3
    <3>2. out' = Frames(asked)'
      BY <1>2, <1>3, <1>7, <1>9, <3>1
    <3> QED
      BY <1>9, <2>3, <3>2 DEF OutInv
  <2> QED
    BY <2>2, <2>3
<1> QED
  BY <1>1, <1>4, <1>5, <1>8, <1>9, Writes

\* While a packet is read, and in the agent's steps, nothing is written.
LEMMA OutStays ==
  ASSUME PacketInv, UNCHANGED <<out, asked>>,
         \/ UNCHANGED dev
         \/ dev.pc \in {"idle", "header", "body"} /\
            dev'.pc \in {"idle", "header", "body", "failed"}
  PROVE  OutInv'
<1>1. Frames(asked)' = Frames(asked) /\ Packet' = Packet /\ out' = out /\ asked' = asked
  BY DEF Frames, Packet, Frame, Last
<1>2. CASE UNCHANGED dev
  <2>1. Rest' = Rest
    BY <1>1, <1>2 DEF Rest
  <2> QED
    BY <1>1, <1>2, <2>1 DEF OutInv, PacketInv
<1>3. CASE dev.pc \in {"idle", "header", "body"} /\
           dev'.pc \in {"idle", "header", "body", "failed"}
  <2>1. out = Frames(asked) /\ IsPrefix(out, out)
    BY <1>3, PrefixItself DEF PacketInv, OutInv, PacketType
  <2> QED
    BY <1>1, <1>3, <2>1 DEF OutInv
<1> QED
  BY <1>2, <1>3

LEMMA OutKept ==
  ASSUME PacketInv, Next
  PROVE  OutInv'
<1>1. ASSUME NEW n \in Texts, NEW answer \in BOOLEAN, SendPacket(n, answer)
      PROVE  OutInv'
  BY <1>1, SendOut
<1>2. CASE ReceivePacket
  BY <1>2, Receives, OutStays DEF PacketInv
<1>3. CASE TcpWrite
  BY <1>3, WriteOut
<1>4. CASE TcpRead
  <2>1. Reading /\ UNCHANGED <<asked, out>> /\ \E n, buf : ReadsPart(n, buf, Left)
    BY <1>4, Reads DEF StreamInv, PacketInv
  <2>2. dev'.pc \in {"header", "body", "idle"}
    BY <2>1 DEF ReadsPart
  <2> QED
    BY <2>1, <2>2, OutStays DEF Reading
<1>5. CASE TcpReadFails
  <2>1. Reading /\ UNCHANGED <<asked, out>> /\ dev'.pc = "failed"
    BY <1>5, ReadFails DEF PacketInv
  <2> QED
    BY <2>1, OutStays DEF Reading
<1>6. CASE AgentSends
  BY <1>6, AgentSent, OutStays DEF PacketInv
<1>7. CASE AgentEnds
  BY <1>7, AgentEnded, OutStays DEF PacketInv
<1> QED
  BY <1>1, <1>2, <1>3, <1>4, <1>5, <1>6, <1>7 DEF Next, Transfer

-----------------------------------------------------------------------------
(* What is read, over the steps.                                           *)

\* Of the bytes not returned, those the device reads are first.
LEMMA StreamType ==
  ASSUME PacketType
  PROVE  /\ Stream \in Seq(Byte) /\ Len(got) \in Nat /\ Len(got) + 1 \in Nat
         /\ Reading => Stream = dev.buf \o in
         /\ ~Reading => Stream = in
  BY DevType, ConcatProperties DEF Stream, PacketType

\* Steps that neither move bytes nor return packets.
LEMMA StreamStays ==
  ASSUME PacketInv, UNCHANGED <<sent, in, got, ended>>, ~Reading, dev.pc # "failed",
         \/ dev'.pc = "write" \/ dev'.pc = "failed"
         \/ dev'.pc \in {"idle", "header"} /\ dev'.buf = << >>
  PROVE  StreamInv'
<1>1. PacketType /\ in \in Seq(Byte) /\ Header \in Nat \ {0}
  BY PacketAssumption DEF PacketInv, PacketType
<1>2. Stream = in
  BY <1>1, StreamType
<1>3. /\ Framed(in, Len(got) + 1) /\ FromAgent(in, sent)
      /\ ended \/ Whole(in, Len(got) + 1, sent)
      /\ Len(got) <= Len(sent)
  BY <1>2 DEF PacketInv, StreamInv
<1>4. Partial'
  BY <1>1 DEF Partial
<1>5. dev'.pc # "failed" => Stream' = in
  <2>1. << >> \o in = in
    BY <1>1, ConcatEmptySeq
  <2> QED
    BY <2>1 DEF Stream, Reading
<1> QED
  BY <1>3, <1>4, <1>5 DEF StreamInv, PacketInv

LEMMA AgentSendsStream ==
  ASSUME PacketInv, AgentSends
  PROVE  StreamInv'
<1>1. /\ PacketType /\ ~ended /\ UNCHANGED <<dev, got, ended>> /\ Partial
      /\ Len(got) <= Len(sent)
  BY AgentSent DEF PacketInv, StreamInv
<1>2. PICK body \in Bodies : /\ sent' = Append(sent, Frame(Len(sent) + 1, body))
                             /\ in' = in \o Frame(Len(sent) + 1, body)
  BY <1>1, AgentSent
<1>3. PICK p : p = Frame(Len(sent) + 1, body)
  OBVIOUS
<1>4. p \in Seq(Byte) /\ sent \in Seq(Seq(Byte)) /\ in \in Seq(Byte) /\ Len(sent) \in Nat
  <2>1. Len(sent) + 1 \in Nat /\ body \in Nat
    <3>1. body \in Nat
      BY PacketAssumption, Zenon
    <3> QED
      BY <1>1, <3>1 DEF PacketType
  <2>2. p \in Seq(Byte)
    BY <1>3, <2>1, FrameType
  <2>3. sent \in Seq(Seq(Byte)) /\ in \in Seq(Byte)
    BY <1>1 DEF PacketType
  <2> QED
    BY <2>2, <2>3, Elements
<1>5. Len(sent') = Len(sent) + 1
  BY <1>2, <1>3, <1>4, AppendProperties
<1>6. Stream' = Stream \o p
  <2>1. in' = in \o p
    BY <1>2, <1>3
  <2>2. CASE Reading
    <3>1. PICK s : s = dev.buf
      OBVIOUS
    <3>2. s \in Seq(Byte)
      BY <1>1, <3>1, DevType
    <3>3. (s \o in) \o p = s \o (in \o p)
      <4>1. \A u, v, w \in Seq(Byte) : (u \o v) \o w = u \o (v \o w)
        BY ConcatAssociative
      <4> QED
        BY <1>4, <3>2, <4>1, Zenon
    <3>4. Stream = s \o in /\ Stream' = s \o in'
      BY <1>1, <2>2, <3>1 DEF Stream, Reading
    <3> QED
      BY <2>1, <3>3, <3>4
  <2>3. CASE ~Reading
    BY <1>1, <2>1, <2>3 DEF Stream, Reading
  <2> QED
    BY <2>2, <2>3
<1>7. ASSUME dev.pc # "failed"
      PROVE  /\ Framed(Stream', Len(got) + 1) /\ FromAgent(Stream', sent')
             /\ Whole(Stream', Len(got) + 1, sent')
  <2>1. /\ Framed(Stream, Len(got) + 1) /\ FromAgent(Stream, sent)
        /\ Whole(Stream, Len(got) + 1, sent)
    BY <1>1, <1>7 DEF PacketInv, StreamInv
  <2>2. Stream \in Seq(Byte) /\ Len(got) + 1 \in Nat
    BY <1>1, StreamType
  <2>3. Stream' = Stream \o Frame(Len(sent) + 1, body)
    BY <1>3, <1>6
  <2>4. PICK b : b = Stream
    OBVIOUS
  <2>5. PICK c : c = Stream'
    OBVIOUS
  <2>6. c = b \o Frame(Len(sent) + 1, body)
    BY <2>3, <2>4, <2>5
  <2>7. Framed(c, Len(got) + 1) /\ FromAgent(c, sent') /\ Whole(c, Len(got) + 1, sent')
    BY <1>2, <1>4, <2>1, <2>2, <2>4, <2>6, Extended
  <2> QED
    BY <2>5, <2>7
<1>8. Partial'
  BY <1>1 DEF Partial
<1>9. Len(got') <= Len(sent')
  BY <1>1, <1>4, <1>5 DEF PacketType
<1> QED
  BY <1>1, <1>7, <1>8, <1>9 DEF StreamInv

LEMMA AgentEndsStream ==
  ASSUME PacketInv, AgentEnds
  PROVE  StreamInv'
<1>1. /\ PacketType /\ ended' = TRUE /\ UNCHANGED <<dev, got, sent>> /\ Partial
      /\ Len(got) <= Len(sent)
      /\ in' \in Seq(Byte) /\ Len(in') <= Len(in) /\ \A i \in 1..Len(in') : in'[i] = in[i]
  BY AgentEnded DEF PacketInv, StreamInv
<1>2. PICK s : s = dev.buf
  OBVIOUS
<1>3. PICK u : u = in
  OBVIOUS
<1>4. PICK v : v = in'
  OBVIOUS
<1>5. /\ s \in Seq(Byte) /\ u \in Seq(Byte) /\ v \in Seq(Byte) /\ Len(v) <= Len(u)
      /\ \A i \in 1..Len(v) : v[i] = u[i]
  BY <1>1, <1>2, <1>3, <1>4, DevType DEF PacketType
<1>6. /\ Stream = IF Reading THEN s \o u ELSE u
      /\ Stream' = IF Reading THEN s \o v ELSE v
  BY <1>1, <1>2, <1>3, <1>4 DEF Stream, Reading
<1>7. /\ s \o v \in Seq(Byte) /\ s \o u \in Seq(Byte) /\ Len(s \o v) <= Len(s \o u)
      /\ \A i \in 1..Len(s \o v) : (s \o v)[i] = (s \o u)[i]
  <2>1. /\ s \o v \in Seq(Byte) /\ Len(s \o v) = Len(s) + Len(v)
        /\ \A i \in 1..Len(s) + Len(v) :
             (s \o v)[i] = IF i <= Len(s) THEN s[i] ELSE v[i - Len(s)]
    BY <1>5, ConcatProperties
  <2>2. /\ s \o u \in Seq(Byte) /\ Len(s \o u) = Len(s) + Len(u)
        /\ \A i \in 1..Len(s) + Len(u) :
             (s \o u)[i] = IF i <= Len(s) THEN s[i] ELSE u[i - Len(s)]
    BY <1>5, ConcatProperties
  <2>3. Len(s) \in Nat /\ Len(u) \in Nat /\ Len(v) \in Nat
    BY <1>5
  <2>4. ASSUME NEW i \in 1..Len(s) + Len(v)
        PROVE  (s \o v)[i] = (s \o u)[i]
    <3>1. i \in 1..Len(s) + Len(u)
      BY <1>5, <2>3
    <3>2. ~(i <= Len(s)) => i - Len(s) \in 1..Len(v)
      BY <2>3
    <3> QED
      BY <1>5, <2>1, <2>2, <3>1, <3>2
  <2> QED
    BY <1>5, <2>1, <2>2, <2>3, <2>4
<1>8. ASSUME dev.pc # "failed"
      PROVE  Framed(Stream', Len(got) + 1) /\ FromAgent(Stream', sent)
  <2>1. Framed(Stream, Len(got) + 1) /\ FromAgent(Stream, sent) /\ Len(got) + 1 \in Nat
    BY <1>1, <1>8, StreamType DEF PacketInv, StreamInv
  <2>2. CASE Reading
    BY <1>6, <1>7, <2>1, <2>2, Truncated
  <2>3. CASE ~Reading
    BY <1>5, <1>6, <2>1, <2>3, Truncated
  <2> QED
    BY <2>2, <2>3
<1>9. Partial'
  BY <1>1 DEF Partial
<1> QED
  BY <1>1, <1>8, <1>9 DEF StreamInv

\* When the last of a body has come, what is in the buffer is the next packet
\* of the agent, whole, and what follows starts with the one behind it.
LEMMA Returned ==
  ASSUME PacketInv, Reading, NEW n, NEW buf, NEW left \in Nat, left = Left,
         ReadsPart(n, buf, left), n = left, dev.pc = "body"
  PROVE  /\ Len(got) + 1 \in 1..Len(sent) /\ buf = sent[Len(got) + 1]
         /\ Framed(in', Len(got) + 2) /\ FromAgent(in', sent)
         /\ Whole(Stream, Len(got) + 1, sent) => Whole(in', Len(got) + 2, sent)
<1>1. PacketType /\ Partial
  BY DEF PacketInv, StreamInv
<1>2. /\ dev.buf \in Seq(Byte) /\ 1 \in 1..Len(dev.buf) /\ dev.buf[1].body \in Nat
      /\ Len(dev.buf) + left = Header + dev.buf[1].body
  BY <1>1, LeftType, DevType
<1>3. /\ buf \in Seq(Byte) /\ Len(buf) = Len(dev.buf) + left
      /\ \A i \in 1..Len(dev.buf) : buf[i] = dev.buf[i]
      /\ in' \in Seq(Byte) /\ buf \o in' = dev.buf \o in
  BY DEF ReadsPart
<1>4. PICK b : b = Stream
  OBVIOUS
<1>5. PICK body : body = dev.buf[1].body
  OBVIOUS
<1>6. PICK first : first = Len(got) + 1
  OBVIOUS
<1>7. /\ Framed(b, first) /\ FromAgent(b, sent) /\ b \in Seq(Byte)
      /\ first \in Nat /\ Len(got) \in Nat
  BY <1>1, <1>4, <1>6, StreamType DEF PacketInv, StreamInv
<1>8. b = buf \o in'
  BY <1>1, <1>3, <1>4, StreamType
<1>9. Len(buf) = Header + body /\ body \in Nat /\ Header \in Nat \ {0} /\ buf[1].body = body
  BY <1>2, <1>3, <1>5, PacketAssumption
<1>10. /\ Len(b) = Len(buf) + Len(in')
       /\ \A i \in 1..Len(buf) + Len(in') :
            b[i] = IF i <= Len(buf) THEN buf[i] ELSE in'[i - Len(buf)]
  BY <1>3, <1>8, ConcatProperties
<1>11. PICK k : k = Len(buf)
  OBVIOUS
<1>12. k \in Nat \ {0} /\ Len(in') \in Nat /\ k = Header + body
  BY <1>3, <1>9, <1>11
<1>13. /\ \A i \in 1..k : i \in 1..Len(b) /\ b[i] = buf[i]
       /\ \A i \in 1..Len(in') : in'[i] = b[i + k]
  <2>1. \A i \in 1..k : i \in 1..k + Len(in') /\ i <= k
    BY <1>12
  <2>2. \A i \in 1..Len(in') : i + k \in 1..k + Len(in') /\ ~(i + k <= k) /\ i + k - k = i
    BY <1>12
  <2> QED
    BY <1>10, <1>11, <2>1, <2>2
<1>14. 1 \in 1..k /\ b # << >>
  BY <1>10, <1>11, <1>12
<1>15. b[1].body = body /\ Behind(b, 1) = k + 1
  <2>1. b[1] = buf[1]
    BY <1>13, <1>14
  <2>2. 1 + Header + body = k + 1
    BY <1>9, <1>12
  <2> QED
    BY <1>9, <2>1, <2>2 DEF Behind
<1>16. 1 \in Starts(b) /\ b[1].no = first
  BY <1>7, <1>13, <1>14 DEF Framed, Starts
<1>17. first \in 1..Len(sent) /\ sent[first] = Frame(first, body)
  BY <1>7, <1>15, <1>16 DEF FromAgent
<1>18. \A i \in 1..k : buf[i] = [no |-> first, at |-> i, body |-> body]
  <2> SUFFICES ASSUME NEW i \in 1..k PROVE buf[i] = [no |-> first, at |-> i, body |-> body]
    OBVIOUS
  <2>1. 1 <= i /\ i < Behind(b, 1) /\ i \in 1..Len(b) /\ i - 1 + 1 = i
    BY <1>12, <1>13, <1>15
  <2>2. b[i] = [no |-> b[1].no, at |-> i - 1 + 1, body |-> b[1].body]
    BY <1>7, <1>16, <2>1, Zenon DEF Framed
  <2> QED
    BY <1>13, <1>15, <1>16, <2>1, <2>2
<1>19. buf = Frame(first, body)
  <2>1. buf = [i \in 1..k |-> buf[i]]
    BY <1>3, <1>11
  <2>2. buf = [i \in 1..k |-> [no |-> first, at |-> i, body |-> body]]
    BY <1>18, <2>1
  <2> QED
    BY <1>12, <2>2 DEF Frame
<1>20. /\ Framed(in', first + 1) /\ FromAgent(in', sent)
       /\ Whole(b, first, sent) => Whole(in', first + 1, sent)
  <2>1. Len(b) = k + Len(in') /\ k \in Nat
    BY <1>10, <1>11, <1>12
  <2> QED
    BY <1>3, <1>7, <1>13, <1>14, <1>15, <2>1, Dropped
<1>21. first + 1 = Len(got) + 2
  BY <1>6, <1>7
<1> QED
  BY <1>4, <1>6, <1>17, <1>19, <1>20, <1>21

LEMMA ReadsStream ==
  ASSUME PacketInv, TcpRead
  PROVE  StreamInv'
<1>1. PacketType /\ Partial /\ Reading /\ dev.pc # "failed"
  BY Reads DEF PacketInv, StreamInv, Reading
<1>2. PICK left : left = Left
  OBVIOUS
<1>3. /\ Left > 0 /\ left \in Nat /\ UNCHANGED <<sent, ended>>
      /\ \E n, buf : ReadsPart(n, buf, left)
  BY <1>1, <1>2, Reads, LeftType
<1>4. PICK n, buf : ReadsPart(n, buf, left)
  BY <1>3
<1>5. /\ Framed(Stream, Len(got) + 1) /\ FromAgent(Stream, sent)
      /\ ended \/ Whole(Stream, Len(got) + 1, sent)
      /\ Len(got) <= Len(sent) /\ Len(got) \in Nat /\ Stream = dev.buf \o in
  BY <1>1, StreamType DEF PacketInv, StreamInv
<1>6. CASE n = left /\ dev.pc = "body"
  <2>1. /\ Len(got) + 1 \in 1..Len(sent)
        /\ Framed(in', Len(got) + 2) /\ FromAgent(in', sent)
        /\ Whole(Stream, Len(got) + 1, sent) => Whole(in', Len(got) + 2, sent)
    BY <1>1, <1>2, <1>3, <1>4, <1>6, Returned
  <2>2. dev'.pc = "idle" /\ Len(got') = Len(got) + 1
    BY <1>1, <1>4, <1>6, AppendProperties DEF ReadsPart, PacketType
  <2>3. Stream' = in' /\ Partial' /\ Len(got') + 1 = Len(got) + 2
    BY <1>5, <2>2 DEF Stream, Reading, Partial
  <2>4. Len(got) + 1 <= Len(sent)
    BY <2>1
  <2> QED
    BY <1>3, <1>5, <2>1, <2>2, <2>3, <2>4 DEF StreamInv
<1>7. CASE ~(n = left /\ dev.pc = "body")
  <2>1. /\ dev'.pc \in {"header", "body"} /\ dev'.buf = buf /\ got' = got
        /\ n \in 0..left /\ buf \in Seq(Byte) /\ Len(buf) = Len(dev.buf) + n
        /\ n < left => dev'.pc = dev.pc
        /\ n = left => dev.pc = "header" /\ dev'.pc = "body"
        /\ \A i \in 1..Len(dev.buf) : buf[i] = dev.buf[i]
    <3>1. /\ Reading
          /\ n < left => dev'.pc = dev.pc /\ got' = got
          /\ n = left /\ dev.pc = "header" => dev'.pc = "body" /\ got' = got
      BY <1>1, <1>4 DEF ReadsPart
    <3>2. /\ n \in 0..left /\ buf \in Seq(Byte) /\ Len(buf) = Len(dev.buf) + n
          /\ dev'.buf = buf
          /\ \A i \in 1..Len(dev.buf) : buf[i] = dev.buf[i]
      BY <1>1, <1>4 DEF ReadsPart
    <3>3. n < left \/ n = left
      BY <1>3, <3>2
    <3>4. dev.pc = "header" \/ dev.pc = "body"
      BY <3>1 DEF Reading
    <3> QED
      BY <1>7, <3>1, <3>2, <3>3, <3>4
  <2>2. Stream' = Stream
    BY <1>4, <1>5, <2>1 DEF Stream, Reading, ReadsPart
  <2>3. CASE n < left /\ dev.pc = "header"
    <3>1. Len(dev.buf) \in Nat /\ Len(dev.buf) + left = Header
      BY <1>1, <1>2, <2>3, LeftType
    <3>2. Len(buf) < Header
      BY <1>3, <2>1, <2>3, <3>1
    <3>3. Partial'
      BY <2>1, <2>3, <3>2 DEF Partial
    <3> QED
      BY <1>3, <1>5, <2>1, <2>2, <3>3 DEF StreamInv
  <2>4. CASE n < left /\ dev.pc = "body"
    <3>1. PICK body : body = dev.buf[1].body
      OBVIOUS
    <3>2. /\ 1 \in 1..Len(dev.buf) /\ body \in Nat /\ Len(dev.buf) \in Nat
          /\ Len(dev.buf) + left = Header + body /\ Len(dev.buf) >= Header
      BY <1>1, <1>2, <2>4, <3>1, LeftType DEF Partial
    <3>3. buf[1].body = body /\ Len(buf) >= Header /\ Len(buf) < Header + body
      <4>1. Header \in Nat
        BY PacketAssumption, Zenon
      <4>2. /\ n \in Nat /\ n < left /\ left \in Nat /\ buf[1] = dev.buf[1]
            /\ Len(buf) = Len(dev.buf) + n
        BY <1>3, <2>1, <2>4, <3>2
      <4> QED
        BY <3>1, <3>2, <4>1, <4>2
    <3>4. body # 0
      BY <3>2, <3>3, PacketAssumption
    <3>5. Partial'
      BY <2>1, <2>4, <3>3, <3>4 DEF Partial
    <3> QED
      BY <1>3, <1>5, <2>1, <2>2, <3>5 DEF StreamInv
  <2>5. CASE n = left
    <3>1. Len(buf) = Header /\ Header \in Nat \ {0}
      BY <1>1, <1>2, <2>1, <2>5, LeftType, PacketAssumption
    <3>2. buf[1].body \in Nat
      <4>1. 1 \in 1..Len(buf)
        BY <3>1
      <4> QED
        BY <2>1, <4>1, BehindType
    <3>3. buf[1].body = 0 \/ Len(buf) < Header + buf[1].body
      <4>1. PICK x : x = buf[1].body
        OBVIOUS
      <4>2. x = 0 \/ Header < Header + x
        BY <3>1, <3>2, <4>1
      <4> QED
        BY <3>1, <4>1, <4>2
    <3>4. Len(buf) >= Header
      BY <3>1
    <3>5. Partial'
      BY <2>1, <2>5, <3>1, <3>3, <3>4 DEF Partial
    <3> QED
      BY <1>3, <1>5, <2>1, <2>2, <3>5 DEF StreamInv
  <2> QED
    BY <1>1, <1>3, <2>1, <2>3, <2>4, <2>5 DEF Reading
<1> QED
  BY <1>6, <1>7

LEMMA StreamKept ==
  ASSUME PacketInv, Next
  PROVE  StreamInv'
<1>1. ASSUME NEW n \in Texts, NEW answer \in BOOLEAN, SendPacket(n, answer)
      PROVE  StreamInv'
  <2>1. PacketType
    BY DEF PacketInv
  <2>2. /\ UNCHANGED <<sent, in, got, ended>> /\ dev.pc = "idle"
        /\ dev'.pc = "write" \/ dev'.pc = "failed"
    BY <1>1, <2>1, Sends
  <2> QED
    BY <2>2, StreamStays DEF Reading
<1>2. CASE ReceivePacket
  BY <1>2, Receives, StreamStays DEF PacketInv, Reading
<1>3. CASE TcpWrite
  <2>1. PacketType /\ OutInv
    BY DEF PacketInv
  <2>2. /\ UNCHANGED <<sent, in, got, ended>> /\ dev.pc = "write"
        /\ dev'.pc \in {"write", "idle", "header", "failed"}
        /\ dev'.pc \in {"idle", "header"} => dev'.buf = << >>
    BY <1>3, <2>1, Writes
  <2> QED
    BY <2>2, StreamStays DEF Reading
<1>4. CASE TcpRead
  BY <1>4, ReadsStream
<1>5. CASE TcpReadFails
  <2>1. PacketType
    BY DEF PacketInv
  <2>2. UNCHANGED <<sent, got>> /\ dev'.pc = "failed"
    BY <1>5, <2>1, ReadFails
  <2> QED
    BY <2>2 DEF PacketInv, StreamInv, Partial
<1>6. CASE AgentSends
  BY <1>6, AgentSendsStream
<1>7. CASE AgentEnds
  BY <1>7, AgentEndsStream
<1> QED
  BY <1>1, <1>2, <1>3, <1>4, <1>5, <1>6, <1>7 DEF Next, Transfer

LEMMA PacketStep ==
  ASSUME PacketInv, [Next]_vars
  PROVE  PacketInv'
<1>1. CASE Next
  BY <1>1, TypeKept, OutKept, StreamKept DEF PacketInv
<1>2. CASE UNCHANGED vars
  <2>1. PacketType'
    BY <1>2 DEF vars, PacketInv, PacketType
  <2>2. OutInv'
    BY <1>2, OutStays DEF vars
  <2>3. StreamInv'
    BY <1>2 DEF vars, PacketInv, StreamInv, Partial, Stream, Reading
  <2> QED
    BY <2>1, <2>2, <2>3 DEF PacketInv
<1> QED
  BY <1>1, <1>2

LEMMA PacketInit ==
  ASSUME Init
  PROVE  PacketInv
<1>1. PacketType
  <2>1. PICK z : z = << >>
    OBVIOUS
  <2>2. /\ z \in Seq(Byte) /\ z \in Seq(Seq(Byte)) /\ z \in Seq([text : Nat, body : Nat])
    BY <2>1
  <2>3. dev = [pc |-> "idle", off |-> 0, buf |-> z, answer |-> FALSE]
    BY <2>1 DEF Init
  <2>4. dev \in [pc : {"idle", "write", "header", "body", "failed"}, off : Nat,
                 buf : Seq(Byte), answer : BOOLEAN]
    BY <2>2, <2>3
  <2> QED
    BY <2>1, <2>2, <2>4 DEF Init, PacketType
<1>2. dev.pc = "idle"
  BY DEF Init
<1>3. OutInv
  BY <1>2, FramesEmpty DEF Init, OutInv
<1>4. StreamInv
  <2>1. Stream = << >> /\ got = << >> /\ sent = << >> /\ Len(<< >>) = 0
    BY <1>2 DEF Init, Stream, Reading
  <2>2. Starts(<< >>) = {}
    BY DEF Starts
  <2>3. Framed(<< >>, 1) /\ FromAgent(<< >>, << >>) /\ Whole(<< >>, 1, << >>)
    BY <2>2 DEF Framed, FromAgent, Whole
  <2> QED
    BY <1>2, <2>1, <2>3 DEF StreamInv, Partial
<1> QED
  BY <1>1, <1>3, <1>4 DEF PacketInv

\* The invariant of the bytes, on both ways.
THEOREM PacketsKept == Spec => []PacketInv
<1>1. Init => PacketInv
  BY PacketInit
<1>2. PacketInv /\ [Next]_vars => PacketInv'
  BY PacketStep
<1> QED
  BY <1>1, <1>2, PTL DEF Spec

\* What tcp_write sends is whole packets in order, and at last a part of one.
THEOREM WritesFramed == Spec => []OutFramed
<1>1. PacketInv => OutFramed
  <2> SUFFICES ASSUME PacketInv PROVE OutFramed
    OBVIOUS
  <2>1. PacketType /\ OutInv /\ out \in Seq(Byte)
    BY DEF PacketInv, PacketType
  <2>2. dev.pc \in {"idle", "header", "body"} => out = Frames(asked)
    BY <2>1 DEF OutInv
  <2>3. CASE dev.pc \in {"idle", "header", "body"}
    BY <2>1, <2>2, <2>3, PrefixItself DEF OutFramed
  <2>4. CASE dev.pc = "write"
    <3>1. asked # << >> /\ dev.off <= Len(Packet) /\ out \o Rest = Frames(asked)
      BY <2>1, <2>4 DEF OutInv
    <3>2. PICK p : p = Packet
      OBVIOUS
    <3>3. PICK off : off = dev.off
      OBVIOUS
    <3>4. p \in Seq(Byte) /\ off \in 0..Len(p) /\ Len(p) \in off..Len(p)
      BY <2>1, <3>1, <3>2, <3>3, PacketBytes, DevType
    <3>5. SubSeq(p, off + 1, Len(p)) \in Seq(Byte)
      BY <3>4, Cut
    <3>6. Rest \in Seq(Byte)
      BY <3>2, <3>3, <3>5 DEF Rest
    <3>7. IsPrefix(out, Frames(asked))
      BY <2>1, <3>1, <3>6, PrefixJoined
    <3> QED
      BY <2>4, <3>7 DEF OutFramed
  <2>5. CASE dev.pc = "failed"
    BY <2>1, <2>5 DEF OutFramed, OutInv
  <2> QED
    BY <2>1, <2>3, <2>4, <2>5, DevType
<1> QED
  BY <1>1, PacketsKept, PTL

\* Reading fails at the end of the connection or at a packet without a body,
\* and at nothing else.
THEOREM FailsOnlyAtEnd == Spec => FailsAtEnd
<1>1. ASSUME PacketInv, [Next]_vars, Reading, dev'.pc = "failed"
      PROVE  (ended /\ in = << >>) \/ (dev.pc = "body" /\ dev.buf[1].body = 0)
  <2>1. PacketType /\ Partial /\ OutInv
    BY <1>1 DEF PacketInv, StreamInv
  <2>2. ~\E n \in Texts, answer \in BOOLEAN : SendPacket(n, answer)
    BY <1>1, <2>1, Sends DEF Reading
  <2>3. ~ReceivePacket /\ ~TcpWrite
    BY <1>1, <2>1 DEF Reading, ReceivePacket, TcpWrite
  <2>4. ~TcpRead
    <3> SUFFICES ASSUME TcpRead PROVE FALSE
      OBVIOUS
    <3>1. \E n, buf : ReadsPart(n, buf, Left)
      BY <2>1, Reads
    <3>2. dev'.pc # "failed"
      BY <3>1 DEF ReadsPart
    <3> QED
      BY <1>1, <3>2
  <2>5. ~AgentSends /\ ~AgentEnds /\ ~UNCHANGED vars
    BY <1>1 DEF AgentSends, AgentEnds, vars, Reading
  <2>6. TcpReadFails
    BY <1>1, <2>2, <2>3, <2>4, <2>5 DEF Next, Transfer
  <2>7. Left = 0 \/ (in = << >> /\ ended)
    BY <2>1, <2>6, ReadFails
  <2>8. Left = 0 => dev.pc = "body" /\ dev.buf[1].body = 0
    BY <1>1, <2>1, LeftType DEF Reading
  <2> QED
    BY <2>7, <2>8
<1>2. PacketInv /\ [Next]_vars =>
        [dev.pc \in {"header", "body"} /\ dev'.pc = "failed" =>
           (ended /\ in = << >>) \/ (dev.pc = "body" /\ dev.buf[1].body = 0)]_vars
  BY <1>1 DEF Reading
<1> QED
  BY <1>2, PacketsKept, PTL DEF Spec, FailsAtEnd

\* A step of the device or of the agent is a step of the queue, or none: what
\* cloud_recv_packet returns is the next packet, however its bytes came.
LEMMA QueueStep ==
  ASSUME PacketInv, [Next]_vars
  PROVE  [Queue!Put \/ Queue!Get]_<<sent, got>>
<1>1. PacketType /\ Partial /\ OutInv
  BY DEF PacketInv, StreamInv
<1>2. ASSUME NEW n \in Texts, NEW answer \in BOOLEAN, SendPacket(n, answer)
      PROVE  UNCHANGED <<sent, got>>
  BY <1>1, <1>2, Sends
<1>3. ReceivePacket \/ TcpWrite \/ TcpReadFails \/ AgentEnds \/ UNCHANGED vars
        => UNCHANGED <<sent, got>>
  BY DEF ReceivePacket, TcpWrite, TcpReadFails, AgentEnds, vars
<1>4. CASE AgentSends
  <2>1. PICK body \in Bodies : sent' = Append(sent, Frame(Len(sent) + 1, body))
    BY <1>1, <1>4, AgentSent
  <2>2. Len(sent) + 1 \in 1..MaxSent /\ got' = got
    BY <1>1, <1>4, AgentSent
  <2>3. Frame(Len(sent) + 1, body) \in {Frame(no, b) : no \in 1..MaxSent, b \in Bodies}
    BY <2>2
  <2>4. Queue!Put
    BY <2>1, <2>2, <2>3 DEF Queue!Put
  <2> QED
    BY <2>4
<1>5. CASE TcpRead
  <2>1. PICK left : left = Left
    OBVIOUS
  <2>2. /\ Reading /\ left \in Nat /\ sent' = sent /\ \E n, buf : ReadsPart(n, buf, left)
    BY <1>1, <1>5, <2>1, Reads, LeftType
  <2>3. PICK n, buf : ReadsPart(n, buf, left)
    BY <2>2
  <2>4. CASE n = left /\ dev.pc = "body"
    <3>1. Len(got) + 1 \in 1..Len(sent) /\ buf = sent[Len(got) + 1]
      BY <2>1, <2>2, <2>3, <2>4, Returned
    <3>2. got' = Append(got, buf)
      BY <2>3, <2>4 DEF ReadsPart
    <3>3. Len(got) < Len(sent)
      BY <1>1, <3>1 DEF PacketType
    <3>4. Queue!Get
      BY <2>2, <3>1, <3>2, <3>3 DEF Queue!Get
    <3> QED
      BY <3>4
  <2>5. CASE ~(n = left /\ dev.pc = "body")
    <3>1. n < left \/ n = left
      BY <2>2, <2>3 DEF ReadsPart
    <3>2. got' = got
      BY <2>2, <2>3, <2>5, <3>1 DEF ReadsPart, Reading
    <3> QED
      BY <2>2, <3>2
  <2> QED
    BY <2>4, <2>5
<1> QED
  BY <1>2, <1>3, <1>4, <1>5 DEF Next, Transfer

\* However the bytes are cut, the packets that come out are those of the agent,
\* in order: the device implements PacketQueue.
THEOREM ImplementsPacketQueue == Spec => ImplementsQueue
<1>1. Init => Queue!Init
  BY DEF Init, Queue!Init
<1>2. PacketInv /\ [Next]_vars => [Queue!Put \/ Queue!Get]_<<sent, got>>
  BY QueueStep
<1> QED
  BY <1>1, <1>2, PacketsKept, PTL DEF Spec, ImplementsQueue, Queue!Spec
=============================================================================
