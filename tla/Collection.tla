----------------------------- MODULE Collection -----------------------------
(***************************************************************************)
(* What _collect_openai_worker promises to the launch wrapper and, through *)
(* _WorkerReaping, to the attempt journal: one verdict, and every attested *)
(* verdict only once the worker is gone for good.                          *)
(***************************************************************************)
VARIABLES
  quiet,    \* the worker is gone, nothing holds its pipes, all was read
  verdict   \* the wrapper's one conclusion, from which the journal is closed

\* _WorkerExitUncertain, and an interrupt raised with the worker unconfirmed.
Unattested == {"uncertain", "interrupted_uncertain"}

Verdicts == {"returned", "timeout", "infrastructure", "interrupted"}
            \cup Unattested

Init == quiet = FALSE /\ verdict = "pending"

Quieten == ~quiet /\ quiet' = TRUE /\ UNCHANGED verdict

Conclude(v) ==
  /\ verdict = "pending"
  /\ v \notin Unattested => quiet
  /\ verdict' = v /\ UNCHANGED quiet

Next == Quieten \/ \E v \in Verdicts : Conclude(v)

Spec == Init /\ [][Next]_<<quiet, verdict>>
=============================================================================
