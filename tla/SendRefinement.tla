--------------------------- MODULE SendRefinement ---------------------------
(***************************************************************************)
(* SendPipeline implements LogicalSend: the message row's status, with the *)
(* class of a failure and the evidence applied, is what the host is told.  *)
(***************************************************************************)
EXTENDS SendPipeline, FiniteSets

\* What the host reads off a message row.
Told(m) ==
    CASE status[m] = "ABSENT"    -> "NOTHING"
      [] status[m] \in Active    -> "PENDING"
      [] status[m] = "SENT"      -> "SENT"
      [] status[m] \in Proven    -> "PROVEN"
      [] status[m] = "FAILED"    ->
             IF "FAILED" \in applied[m] THEN "REPORTED"
             ELSE IF failureClass[m] = "AMBIGUOUS" THEN "UNCERTAIN"
             ELSE "UNSENT"

Logical == INSTANCE LogicalSend
           WITH told <- [m \in Messages |-> Told(m)],
                copies <- [m \in Messages |-> Cardinality(accepted[m])]

\* Every step of the pipeline, whatever crashes, stalls, replays, sweeps and
\* early or late webhooks it comes from, is one the host was promised: at most
\* one copy, and "not sent" only if none was and none will be.
ImplementsLogicalSend == Logical!Spec

=============================================================================
