---------------------------- MODULE LogicalSend ----------------------------
(***************************************************************************)
(* What the outbound pipeline promises of every logical message, without   *)
(* batches, jobs, attempts, workers or webhooks: how many copies of it the *)
(* provider has taken, and what the host is told.  At most one copy is     *)
(* ever taken; a host told that nothing was sent can rely on it; where it  *)
(* cannot be known the host is told so, and that is final until the        *)
(* provider's own word.                                                    *)
(***************************************************************************)
EXTENDS Naturals

CONSTANT Messages

VARIABLES told,           \* message -> what its status tells the host
          copies          \* message -> copies the provider has accepted

vars == <<told, copies>>

Told == {"NOTHING",       \* not requested
         "PENDING",       \* queued or being sent
         "SENT",          \* accepted by the provider
         "PROVEN",        \* delivered, read or answered
         "REPORTED",      \* the provider reported that delivery failed
         "UNSENT",        \* failed, and safe to send again
         "UNCERTAIN"}     \* failed, and not known whether it was sent

Init ==
    /\ told = [m \in Messages |-> "NOTHING"]
    /\ copies = [m \in Messages |-> 0]

Silent(m) == told'[m] = told[m]
Tell(m, word) == told'[m] = word /\ copies'[m] = copies[m]

Idle(m) == Silent(m) /\ copies'[m] = copies[m]

Request(m) == told[m] \in {"NOTHING", "UNSENT"} /\ Tell(m, "PENDING")

\* The one copy; it may still be on its way when the host is told of doubt.
Take(m) ==
    /\ told[m] \in {"PENDING", "UNCERTAIN"} /\ Silent(m)
    /\ copies[m] = 0 /\ copies'[m] = 1

\* Only if no copy was taken; none is taken before the next request.
GiveUp(m) == told[m] = "PENDING" /\ copies[m] = 0 /\ Tell(m, "UNSENT")

Doubt(m) == told[m] = "PENDING" /\ Tell(m, "UNCERTAIN")

\* The provider's word, in its answer or a webhook, about the copy it took: it
\* only ever moves forward, and proof of delivery undoes a reported failure.
Confirm(m) ==
    /\ copies[m] = 1
    /\ \/ told[m] = "PENDING" /\ Tell(m, "SENT")
       \/ told[m] \in {"PENDING", "SENT", "UNCERTAIN"} /\ Tell(m, "REPORTED")
       \/ told[m] \notin {"NOTHING", "UNSENT", "PROVEN"} /\ Tell(m, "PROVEN")

\* A batch moves several of its messages at once; each keeps its own promise.
Next ==
    \A m \in Messages :
        \/ Idle(m)
        \/ Request(m)
        \/ Take(m)
        \/ GiveUp(m)
        \/ Doubt(m)
        \/ Confirm(m)

Spec == Init /\ [][Next]_vars

=============================================================================
