------------------------------- MODULE MCCore -------------------------------
(***************************************************************************)
(* Four authorities of equal stake; the validator is authority 0. Either   *)
(* authority 3 is silent, so that 1 and 2 need the blocks of 0, or 1, 2    *)
(* and 3 go on without 0, which has a connection to 1 alone and has to ask *)
(* for the rest.                                                           *)
(***************************************************************************)
EXTENDS Core

EqualStake == [a \in Authorities |-> 1]

Needed(pevm, rounds, most) ==
    [pevm |-> pevm, quorum |-> {0, 1, 2}, streams |-> {1, 2},
     rounds |-> rounds, crashes |-> most]

Behind(pevm, rounds, most) ==
    [pevm |-> pevm, quorum |-> {1, 2, 3}, streams |-> {1},
     rounds |-> rounds, crashes |-> most]

MCSettings == {Needed(FALSE, 3, 1), Needed(TRUE, 2, 2),
               Behind(FALSE, 2, 2), Behind(TRUE, 3, 1)}
=============================================================================
