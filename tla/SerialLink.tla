---------------------------- MODULE SerialLink ----------------------------
(***************************************************************************)
(* What one direction of the emulated serial line promises: the bytes      *)
(* received are the bytes sent, once each and in order.  A reset drops the *)
(* bytes under way; if it cuts a byte short, the receiver may afterwards   *)
(* hear one byte that nobody sent.                                         *)
(***************************************************************************)
EXTENDS Naturals, Sequences, SequencesExt

VARIABLES
  sent,    \* every byte given to the line and not dropped
  got,     \* every byte received
  noise    \* a reset has cut a byte short
vars == <<sent, got, noise>>

Init == sent = <<>> /\ got = <<>> /\ noise = FALSE

Send ==
  /\ sent # sent'
  /\ IsPrefix(sent, sent')
  /\ UNCHANGED <<got, noise>>

Deliver ==
  /\ Len(got) < Len(sent)
  /\ got' = Append(got, sent[Len(got) + 1])
  /\ UNCHANGED <<sent, noise>>

Reset ==
  /\ sent' = got
  /\ noise' \in BOOLEAN
  /\ noise => noise'
  /\ UNCHANGED got

HearNoise ==
  /\ noise
  /\ noise' = FALSE
  /\ UNCHANGED <<sent, got>>

Next == Send \/ Deliver \/ Reset \/ HearNoise
Spec == Init /\ [][Next]_vars
=============================================================================
