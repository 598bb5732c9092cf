---------------------------- MODULE PacketQueue ----------------------------
(***************************************************************************)
(* What the cloud protocol wants of a connection: whole packets come out   *)
(* in the order in which they went in, each of them once.                  *)
(***************************************************************************)
EXTENDS Naturals, Sequences

CONSTANT Packet
VARIABLES sent, got

Init == sent = <<>> /\ got = <<>>

Put == \E p \in Packet : sent' = Append(sent, p) /\ got' = got
Get == /\ Len(got) < Len(sent)
       /\ got' = Append(got, sent[Len(got) + 1])
       /\ sent' = sent

Spec == Init /\ [][Put \/ Get]_<<sent, got>>
=============================================================================
