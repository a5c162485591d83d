----------------------------- MODULE ByteStream -----------------------------
(***************************************************************************)
(* What a byte channel promises: bytes come out in the order they went in, *)
(* every one of them in the end, none twice; when the bus or an endpoint   *)
(* is reset, those that did not come out yet are lost from some place on.  *)
(* ByteChannels implements it in both directions.                          *)
(***************************************************************************)
EXTENDS Naturals, Sequences

VARIABLES sent,    \* the bytes that went in and did not come out yet
          got      \* the last ones that came out

bvars == <<sent, got>>

BInit == sent = <<>> /\ got = <<>>

\* Some bytes go in behind the others; which, is for the channel's user to say.
Accept == /\ Len(sent') > Len(sent)
          /\ SubSeq(sent', 1, Len(sent)) = sent
          /\ UNCHANGED got

Deliver == \E n \in 1 .. Len(sent) : /\ got' = SubSeq(sent, 1, n)
                                     /\ sent' = SubSeq(sent, n + 1, Len(sent))

Cut == /\ \E n \in 0 .. Len(sent) : sent' = SubSeq(sent, 1, n)
       /\ UNCHANGED got

BNext == Accept \/ Deliver \/ Cut
BInOrder == BInit /\ [][BNext]_bvars
BSpec == BInOrder /\ WF_bvars(Deliver)
=============================================================================
