--------------------------- MODULE MCVoteCounting ---------------------------
(***************************************************************************)
(* Three authorities with stakes 1, 1 and 2: a quorum is all but one of    *)
(* the light ones.                                                         *)
(***************************************************************************)
EXTENDS VoteCounting

CONSTANTS Light, Heavy

Stakes == [a \in Authorities |-> IF a = Heavy THEN 2 ELSE 1]

BlocksOf == [a \in Authorities |-> IF a = Light THEN 1 ELSE 2]

SharesOf == [x \in (Authorities \ {Me}) \X (1 .. 2) |-> IF x = <<Light, 1>> THEN 2 ELSE 0]
=============================================================================
