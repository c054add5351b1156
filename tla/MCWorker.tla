------------------------------ MODULE MCWorker ------------------------------
(***************************************************************************)
(* Small instances of Worker for TLC.                                      *)
(***************************************************************************)
EXTENDS WorkerAbstraction

\* Nothing goes wrong.
Undisturbed == {}

\* Anything may go wrong.
AllDisturbances == DisturbanceKinds

\* What can happen to a worker whose process stays up.
Outages == {"connection", "slow", "publish", "confirm", "blank"}

\* Publishing is in trouble, the connection is not.
PublishTrouble == {"publish", "confirm"}

=============================================================================
