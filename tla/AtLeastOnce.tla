----------------------------- MODULE AtLeastOnce -----------------------------
(***************************************************************************)
(* What the queue worker promises to those who use the two queues, and     *)
(* nothing of how: a well-formed request is answered, perhaps more than    *)
(* once, before it is settled; a malformed one is rejected and never       *)
(* answered.  The worker of module Worker implements this specification.   *)
(***************************************************************************)

CONSTANTS Messages,   \* the requests
          Malformed   \* those of them that cannot be understood

VARIABLES status,     \* "absent", "pending", "settled" or "rejected"
          answered    \* the requests with an answer in the output queue

vars == <<status, answered>>

TypeOK == /\ status \in [Messages -> {"absent", "pending", "settled", "rejected"}]
          /\ answered \subseteq Messages

Init == /\ status = [m \in Messages |-> "absent"]
        /\ answered = {}

\* A request is sent.
Submit(m) == /\ status[m] = "absent"
             /\ status' = [status EXCEPT ![m] = "pending"]
             /\ UNCHANGED answered

\* The answer to a well-formed request is there to be read.  It may also
\* come, again, after the request was settled.
Give(m) == /\ status[m] \in {"pending", "settled"}
           /\ m \notin Malformed
           /\ answered' = answered \cup {m}
           /\ UNCHANGED status

\* The request will not be delivered again: it has been answered.
Settle(m) == /\ status[m] = "pending"
             /\ m \in answered
             /\ status' = [status EXCEPT ![m] = "settled"]
             /\ UNCHANGED answered

\* A malformed request is refused.
Reject(m) == /\ status[m] = "pending"
             /\ m \in Malformed
             /\ status' = [status EXCEPT ![m] = "rejected"]
             /\ UNCHANGED answered

Next == \E m \in Messages : Submit(m) \/ Give(m) \/ Settle(m) \/ Reject(m)

Spec == Init /\ [][Next]_vars

=============================================================================
