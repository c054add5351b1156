-------------------------- MODULE WorkerAbstraction --------------------------
(***************************************************************************)
(* The worker as an implementation of AtLeastOnce: the broker's place of a *)
(* request gives its abstract status (redelivery is invisible), and the    *)
(* copies in the output queue say whether it is answered.                  *)
(***************************************************************************)
EXTENDS Worker

StatusOf(place) == CASE place = "unsent"              -> "absent"
                     [] place \in {"ready", "unacked"} -> "pending"
                     [] place = "acked"               -> "settled"
                     [] place = "rejected"            -> "rejected"

statusBar == [m \in Messages |-> StatusOf(request[m])]

answeredBar == {m \in Messages : Copies(m) > 0}

Abstract == INSTANCE AtLeastOnce WITH status <- statusBar, answered <- answeredBar

\* The worker keeps the promise of AtLeastOnce through redelivery, retries,
\* lost connections, crashes and restarts (consumer.py, publisher.py).
ImplementsAtLeastOnce == Abstract!Spec

=============================================================================
