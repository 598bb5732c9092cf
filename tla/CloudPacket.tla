---------------------------- MODULE CloudPacket ----------------------------
(***************************************************************************)
(* The bytes below the packets of CloudBase: cloud_send_packet and         *)
(* cloud_recv_packet of snippets/swCloud.c, over the tcp_read and          *)
(* tcp_write that loop until all is moved.  One thread of the device uses  *)
(* the connection; the agent, whose packets fit the buffers, is external.  *)
(***************************************************************************)
EXTENDS Naturals, Sequences, SequencesExt

CONSTANTS
  Header,       \* sizeof(cldhdr_t)
  MaxPkt,       \* CLD_MAX_PKTSIZE
  Texts,        \* lengths of the texts the device sends
  Bodies,       \* lengths of the bodies the agent sends
  MaxAsked,     \* bound on the packets of the device
  MaxSent       \* bound on the packets of the agent

ASSUME PacketAssumption ==
  /\ Header \in Nat \ {0} /\ MaxPkt \in Nat
  /\ Header % 4 = 0 /\ MaxPkt % 4 = 0
  /\ Texts \subseteq Nat
  /\ \A b \in Bodies : b \in Nat /\ b % 4 = 0 /\ Header + b <= MaxPkt
ASSUME PacketBounds == MaxAsked \in Nat /\ MaxSent \in Nat

VARIABLES
  dev,     \* where the device is, the packet it writes, how much of it is
           \* written, the buffer it reads into, whether it waits for an answer
  asked,   \* the packets it has begun to write: length of text and of body
  out,     \* the bytes it has written
  sent,    \* the packets of the agent
  in,      \* their bytes that the device has not read
  got,     \* the packets the device has read
  ended    \* the agent has closed the connection

vars == <<dev, asked, out, sent, in, got, ended>>

\* A packet is its bytes, each of which knows its packet, its place and the
\* length that the header of the packet tells.
Frame(no, body) ==
  [i \in 1..Header + body |-> [no |-> no, at |-> i, body |-> body]]
Frames(packets) == FlattenSeq([i \in DOMAIN packets |-> Frame(i, packets[i].body)])

-----------------------------------------------------------------------------
\* Mutant: the text may lose the NUL behind it.
PaddedShort(n) == ((n + 3) \div 4) * 4

\* size += 4; size &= ~3
Padded(n) == ((n + 4) \div 4) * 4

\* if ( sizeof(cldhdr_t) + size >= sizeof(buf) ): packet too large.
Fits(n) == Header + n < MaxPkt

\* answer: the packet is a request, neither a notification nor a response.
SendPacket(n, answer) ==
  /\ dev.pc = "idle" /\ Len(asked) < MaxAsked
  /\ IF Fits(n)
     THEN /\ dev' = [dev EXCEPT !.pc = "write", !.off = 0, !.answer = answer]
          /\ asked' = Append(asked, [text |-> n, body |-> Padded(n)])
     ELSE dev' = [dev EXCEPT !.pc = "failed"] /\ asked' = asked
  /\ UNCHANGED <<out, sent, in, got, ended>>

\* Mutant: after a part was written, begin again.
TcpWriteAgain ==
  LET packet == Frame(Len(asked), Last(asked).body) IN
  /\ dev.pc = "write"
  /\ \E n \in 1..Len(packet) :
       /\ out' = out \o SubSeq(packet, 1, n)
       /\ dev' = IF dev.off + n >= Len(packet) THEN [dev EXCEPT !.pc = "idle"]
                 ELSE [dev EXCEPT !.off = @ + n]
  /\ UNCHANGED <<asked, sent, in, got, ended>>

\* One write() of tcp_write: any part of what is left, nothing when a signal
\* interrupts it, or an error.
TcpWrite ==
  LET packet == Frame(Len(asked), Last(asked).body) IN
  /\ dev.pc = "write"
  /\ \/ \E n \in 0..Len(packet) - dev.off :
          /\ out' = out \o SubSeq(packet, dev.off + 1, dev.off + n)
          /\ dev' = CASE dev.off + n < Len(packet) -> [dev EXCEPT !.off = @ + n]
                      [] dev.off + n = Len(packet) ->
                           [dev EXCEPT !.off = 0, !.buf = <<>>,
                                       !.pc = IF dev.answer THEN "header" ELSE "idle"]
     \/ ended /\ dev' = [dev EXCEPT !.pc = "failed"] /\ out' = out
  /\ UNCHANGED <<asked, sent, in, got, ended>>

\* network_device_control finds the connection readable.
ReceivePacket ==
  /\ dev.pc = "idle"
  /\ in # <<>> \/ ended
  /\ dev' = [dev EXCEPT !.pc = "header", !.buf = <<>>]
  /\ UNCHANGED <<asked, out, sent, in, got, ended>>

\* What cloud_recv_packet still asks for: the header, then the body, whose
\* length the header tells.
Left == CASE dev.pc = "header" -> Header - Len(dev.buf)
          [] dev.pc = "body"   -> Header + dev.buf[1].body - Len(dev.buf)

\* Mutant: a part is taken for all.
TcpReadPart ==
  /\ dev.pc \in {"header", "body"}
  /\ \E n \in 1..Left :
       /\ n <= Len(in)
       /\ in' = SubSeq(in, n + 1, Len(in))
       /\ dev' = [dev EXCEPT !.buf = @ \o SubSeq(in, 1, n),
                             !.pc = IF dev.pc = "header" THEN "body" ELSE "idle"]
       /\ got' = IF dev.pc = "body" THEN Append(got, dev'.buf) ELSE got
  /\ UNCHANGED <<asked, out, sent, ended>>

\* Mutant: an interrupted read() is an error.
TcpReadInterrupted ==
  /\ dev.pc \in {"header", "body"}
  /\ dev' = [dev EXCEPT !.pc = "failed"]
  /\ UNCHANGED <<asked, out, sent, in, got, ended>>

\* One read() of tcp_read that returns a part, or is interrupted.
TcpRead ==
  /\ dev.pc \in {"header", "body"} /\ Left > 0
  /\ \E n \in 0..Left :
       LET buf == dev.buf \o SubSeq(in, 1, n) IN
       /\ n <= Len(in)
       /\ in' = SubSeq(in, n + 1, Len(in))
       /\ dev' = [dev EXCEPT !.buf = buf,
                             !.pc = CASE n < Left -> @
                                      [] n = Left -> IF @ = "header" THEN "body" ELSE "idle"]
       /\ got' = IF n = Left /\ dev.pc = "body" THEN Append(got, buf) ELSE got
  /\ UNCHANGED <<asked, out, sent, ended>>

\* Mutant: 0 is no error.
TcpReadFailsNever ==
  /\ dev.pc \in {"header", "body"} /\ Left = 0
  /\ dev' = [dev EXCEPT !.pc = "failed"]
  /\ UNCHANGED <<asked, out, sent, in, got, ended>>

\* read() returns 0: at the end of the stream, and when it is asked for nothing.
TcpReadFails ==
  /\ dev.pc \in {"header", "body"}
  /\ \/ Left = 0
     \/ in = <<>> /\ ended
  /\ dev' = [dev EXCEPT !.pc = "failed"]
  /\ UNCHANGED <<asked, out, sent, in, got, ended>>

-----------------------------------------------------------------------------
AgentSends ==
  /\ ~ended /\ Len(sent) < MaxSent
  /\ \E b \in Bodies :
       LET packet == Frame(Len(sent) + 1, b) IN
       sent' = Append(sent, packet) /\ in' = in \o packet
  /\ UNCHANGED <<dev, asked, out, got, ended>>

\* What was under way may be lost.
AgentEnds ==
  /\ ~ended /\ ended' = TRUE
  /\ \E n \in 0..Len(in) : in' = SubSeq(in, 1, n)
  /\ UNCHANGED <<dev, asked, out, sent, got>>

Init ==
  /\ dev = [pc |-> "idle", off |-> 0, buf |-> <<>>, answer |-> FALSE]
  /\ asked = <<>> /\ out = <<>> /\ sent = <<>> /\ in = <<>> /\ got = <<>>
  /\ ended = FALSE

Transfer == TcpWrite \/ TcpRead \/ TcpReadFails

Next ==
  \/ \E n \in Texts, answer \in BOOLEAN : SendPacket(n, answer)
  \/ ReceivePacket \/ Transfer \/ AgentSends \/ AgentEnds

Spec == Init /\ [][Next]_vars

(* The device's thread is scheduled; the agent owes it nothing.            *)
FairSpec == Spec /\ WF_vars(Transfer)

-----------------------------------------------------------------------------
(* Properties.                                                             *)

\* Whatever write() takes at a time, the agent is sent whole packets, in
\* order, and at last a part of the one being written.
OutFramed ==
  /\ IsPrefix(out, Frames(asked))
  /\ dev.pc \in {"idle", "header", "body"} => out = Frames(asked)

\* A packet ends behind a NUL after its text and within the buffer it is
\* built in, also for the longest text the test lets through.
SentFits ==
  \A i \in DOMAIN asked : /\ asked[i].text < asked[i].body
                          /\ Header + asked[i].body <= MaxPkt

\* Reading fails only at the end of the connection, or at a packet without a
\* body: a signal or a packet that comes in parts does not look like a loss.
FailsAtEnd ==
  [][dev.pc \in {"header", "body"} /\ dev'.pc = "failed" =>
       (ended /\ in = <<>>) \/ (dev.pc = "body" /\ dev.buf[1].body = 0)]_vars

\* However the bytes are cut, what cloud_recv_packet returns are the packets of
\* the agent, in order.
Queue == INSTANCE PacketQueue WITH
  Packet <- {Frame(no, b) : no \in 1..MaxSent, b \in Bodies}
ImplementsQueue == Queue!Spec

\* A call on a connection that has ended returns.
EndNoticed == ended ~> dev.pc \in {"idle", "failed"}
=============================================================================
