--------------------------- MODULE JobStatusStream ---------------------------
(***************************************************************************)
(* What the facilitator may observe of one organic job: the sequence of    *)
(* JobStatusUpdate statuses sent for its uuid.  Each update moves the job  *)
(* one step along the protocol of spec 4.5, a terminal status (completed,  *)
(* failed, rejected) ends the stream, and no status is sent twice.         *)
(***************************************************************************)
EXTENDS Naturals, Sequences

VARIABLE sent   \* the statuses sent for the job so far, oldest first

Progress == <<"received", "accepted", "executor_ready", "volumes_ready", "execution_done">>
Terminal == {"completed", "failed", "rejected"}
Status == {Progress[i] : i \in 1..Len(Progress)} \cup Terminal

\* The statuses that may follow the last one sent.
Successors(s) ==
    IF s \in Terminal THEN {}
    ELSE LET i == CHOOSE j \in 1..Len(Progress) : Progress[j] = s
         IN (IF i < Len(Progress) THEN {Progress[i + 1]} ELSE {"completed"})
            \cup {"failed", "rejected"}

\* A job reaches its validator after the facilitator has reported it received.
Init == sent = <<"received">>

Emit == \E s \in Successors(sent[Len(sent)]) : sent' = Append(sent, s)

Spec == Init /\ [][Emit]_sent

=============================================================================
