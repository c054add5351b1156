------------------------------ MODULE MCSystem ------------------------------
(***************************************************************************)
(* A small instance of System for TLC.                                     *)
(***************************************************************************)
EXTENDS System

\* What can happen to a process that stays up.
Outages == {"connection", "slow", "publish", "confirm", "blank"}

\* A file that can be analysed, and one that cannot.
TwoFiles == { [oversized |-> FALSE, magic |-> "png", readable |-> TRUE],
              [oversized |-> FALSE, magic |-> "other", readable |-> FALSE] }

=============================================================================
