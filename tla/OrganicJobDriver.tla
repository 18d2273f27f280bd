--------------------------- MODULE OrganicJobDriver ---------------------------
(***************************************************************************)
(* One organic job driven against one miner: the protocol run of           *)
(* run_organic_job (compute_horde library, not in this repository: its    *)
(* stages, messages and timeouts are taken from spec 4.5 and the tests),  *)
(* and drive_organic_job (organic_jobs/miner_driver.py), which turns the  *)
(* run's result or its OrganicJobError into the OrganicJob row's status,  *)
(* a SystemEvent and the terminal JobStatusUpdate for the facilitator.    *)
(*                                                                         *)
(* The facilitator's "received" update precedes the driver.  The miner's  *)
(* messages are unconstrained; every wait is bounded by a timeout.        *)
(***************************************************************************)
EXTENDS Naturals, Sequences

CONSTANTS
    Worlds,                  \* the library and database behaviours a run may meet
    DisableTrustedEvents,    \* DYNAMIC_DISABLE_TRUSTED_ORGANIC_JOB_EVENTS
    MaxExcuses,              \* most valid excuse receipts a BUSY decline carries
    MaxExpected              \* largest expected executor count of the miner

FailureReason ==
    {"MINER_CONNECTION_FAILED", "INITIAL_RESPONSE_TIMED_OUT", "JOB_DECLINED",
     "EXECUTOR_READINESS_RESPONSE_TIMED_OUT", "STREAMING_JOB_READY_TIMED_OUT",
     "VOLUMES_TIMED_OUT", "EXECUTOR_FAILED", "FINAL_RESPONSE_TIMED_OUT", "JOB_FAILED"}

(* A world fixes what the library and the database do for the whole run: *)
(* whether the JobStartedReceipt is written with the initial request      *)
(* (TRUE) or on executor ready (FALSE, spec 4.5), the FailureReason the    *)
(* library raises when VolumesReady is late, and whether job.asave,        *)
(* SystemEvent acreate or the channel send may raise.                      *)
World == [receipt_at_initial_request : BOOLEAN,
          volume_stage_timeouts : SUBSET FailureReason,
          store_failures : BOOLEAN]

ASSUME /\ Worlds \subseteq World /\ Worlds # {}
       /\ \A w \in Worlds : w.volume_stage_timeouts # {}
       /\ DisableTrustedEvents \in BOOLEAN
       /\ MaxExcuses \in Nat /\ MaxExpected \in Nat

\* The miner message an OrganicJobError carries (exc.received).
Received == {"none", "decline_busy", "decline_other", "executor_failed",
             "job_failed", "job_failed_hf"}

JobState == {"PENDING", "COMPLETED", "FAILED", "EXCUSED"}   \* OrganicJob.Status

EventSubType == {"SUCCESS", "MINER_CONNECTION_ERROR", "JOB_NOT_STARTED", "JOB_EXCUSED",
                 "JOB_REJECTED", "JOB_EXECUTION_TIMEOUT", "FAILURE",
                 "ERROR_DOWNLOADING_FROM_HUGGINGFACE"}

VARIABLES
    stage,           \* where the run is: "connect", "initial", "executor", "volumes",
                     \* "execution", "final", "finished" (run returned), "raised"
                     \* (OrganicJobError), "done" (handled) or "crashed"
    reason,          \* exc.reason of the OrganicJobError, or "none"
    received,        \* exc.received
    updates,         \* the JobStatusUpdate statuses sent for the job
    job_status,      \* OrganicJob.status of the row
    started_receipt, \* a JobStartedReceipt with the job's uuid exists
    events,          \* the SystemEvent subtypes written for the job
    on_trusted,      \* job.on_trusted_miner
    expected,        \* get_expected_miner_executor_count at the job's request time
    excuses,         \* len(valid_excuses) of the BUSY decline's receipts
    world            \* the World of this run; no step changes it

vars == <<stage, reason, received, updates, job_status, started_receipt, events,
          on_trusted, expected, excuses, world>>

ReceiptAtInitialRequest == world.receipt_at_initial_request
VolumeStageTimeouts == world.volume_stage_timeouts
StoreFailures == world.store_failures

\* save_event is a no-op for trusted-miner jobs when their events are disabled.
EventsDisabled == on_trusted /\ DisableTrustedEvents

JSS == INSTANCE JobStatusStream WITH sent <- updates

-----------------------------------------------------------------------------
\* execute_organic_job_request picks the miner's address: the debug miner when
\* its hotkey is DEBUG_MINER_KEY and a debug address and port are set, the
\* trusted miner for TRUSTED_MINER_FAKE_KEY, the metagraph entry otherwise.
\* Only the second branch sets on_trusted_miner.
MinerKinds == {"debug", "trusted_fake", "metagraph"}
OnTrustedMiner(hotkey, debugAddressSet) ==
    IF hotkey = "debug" /\ debugAddressSet THEN FALSE
    ELSE hotkey = "trusted_fake"

\* The OrganicJob row execute_organic_job_request creates before it drives
\* the job: status PENDING, on_trusted_miner from the branch above.
Init ==
    /\ stage = "connect"
    /\ reason = "none"
    /\ received = "none"
    /\ updates = <<"received">>
    /\ job_status = "PENDING"
    /\ started_receipt = FALSE
    /\ events = <<>>
    /\ \E hotkey \in MinerKinds, debugAddressSet \in BOOLEAN :
          on_trusted = OnTrustedMiner(hotkey, debugAddressSet)
    /\ expected \in 0..MaxExpected
    /\ excuses = 0
    /\ world \in Worlds

\* run_organic_job raises: the run ends with this reason and message.
Raise(r, msg) ==
    /\ stage' = "raised"
    /\ reason' = r
    /\ received' = msg
    /\ UNCHANGED <<updates, job_status, started_receipt, events, on_trusted, expected>>

\* The run moves to the next stage, possibly sending one status update.
Advance(to, status) ==
    /\ stage' = to
    /\ updates' = IF status = "none" THEN updates ELSE Append(updates, status)
    /\ UNCHANGED <<reason, received, job_status, events, on_trusted, expected, excuses>>

(* Connecting, then sending V0InitialJobRequest (with the receipt, when    *)
(* the library writes it there).                                           *)
Connect ==
    /\ stage = "connect"
    /\ \/ /\ Raise("MINER_CONNECTION_FAILED", "none") /\ UNCHANGED excuses
       \/ /\ Advance("initial", "none")
          /\ started_receipt' = ReceiptAtInitialRequest

\* The initial response: V0AcceptJobRequest calls notify_job_accepted.
MinerAccepts ==
    /\ stage = "initial"
    /\ Advance("executor", "accepted")
    /\ UNCHANGED started_receipt

MinerDeclines ==
    /\ stage = "initial"
    /\ \/ Raise("JOB_DECLINED", "decline_other") /\ excuses' = 0
       \/ Raise("JOB_DECLINED", "decline_busy") /\ excuses' \in 0..MaxExcuses

\* V0ExecutorReadyRequest; the JobRequest is sent next.
MinerExecutorReady ==
    /\ stage = "executor"
    /\ Advance("volumes", "executor_ready")
    /\ started_receipt' = TRUE

MinerExecutorFails ==
    /\ stage = "executor"
    /\ Raise("EXECUTOR_FAILED", "executor_failed")
    /\ UNCHANGED excuses

(* Fault injection: the volumes-ready notification sends the executor-    *)
(* ready status again.                                                     *)
MinerVolumesReady_WrongStatus ==
    /\ stage = "volumes"
    /\ Advance("execution", "executor_ready")
    /\ UNCHANGED started_receipt

MinerVolumesReady ==
    /\ stage = "volumes"
    /\ Advance("execution", "volumes_ready")
    /\ UNCHANGED started_receipt

MinerExecutionDone ==
    /\ stage = "execution"
    /\ Advance("final", "execution_done")
    /\ UNCHANGED started_receipt

MinerJobFinished ==
    /\ stage = "final"
    /\ Advance("finished", "none")
    /\ UNCHANGED started_receipt

\* V0JobFailedRequest, with no error_type or with HUGGINGFACE_DOWNLOAD.
MinerJobFails ==
    /\ stage \in {"volumes", "execution", "final"}
    /\ \E msg \in {"job_failed", "job_failed_hf"} : Raise("JOB_FAILED", msg)
    /\ UNCHANGED excuses

(* The waits of the run: initial_response_timeout, executor_ready_timeout *)
(* (also for the volumes), and total_job_timeout for everything after.    *)
Timeout ==
    /\ UNCHANGED excuses
    /\ \/ stage = "initial" /\ Raise("INITIAL_RESPONSE_TIMED_OUT", "none")
       \/ stage = "executor" /\ Raise("EXECUTOR_READINESS_RESPONSE_TIMED_OUT", "none")
       \/ stage = "volumes" /\ \E r \in VolumeStageTimeouts : Raise(r, "none")
       \/ stage \in {"volumes", "execution", "final"} /\ Raise("FINAL_RESPONSE_TIMED_OUT", "none")

-----------------------------------------------------------------------------
(* drive_organic_job.  Each branch sets the row's status and comment,     *)
(* saves it, writes a SystemEvent (unless trusted-miner events are off)   *)
(* and sends one status update.                                           *)

SaveEvent(subtype) ==
    events' = IF EventsDisabled THEN events ELSE Append(events, subtype)

(* Each branch awaits job.asave(), then save_event, then notify_callback. *)
(* Any of them may raise (StoreFailures); nothing in drive_organic_job     *)
(* catches it, so the awaits before it stay done and the driver crashes.   *)
(* `steps` is how many of the three completed.                             *)
StepsDone == IF StoreFailures THEN 0..3 ELSE {3}

(* Fault injection: the update sent before the row is saved.              *)
Conclude_NotifyFirst(status, subtype, update) ==
    \E steps \in StepsDone :
       /\ stage' = IF steps = 3 THEN "done" ELSE "crashed"
       /\ updates' = IF steps >= 1 THEN Append(updates, update) ELSE updates
       /\ job_status' = IF steps >= 2 THEN status ELSE job_status
       /\ IF steps = 3 THEN SaveEvent(subtype) ELSE UNCHANGED events
       /\ UNCHANGED <<reason, received, started_receipt, on_trusted, expected, excuses>>

Conclude(status, subtype, update) ==
    \E steps \in StepsDone :
       /\ stage' = IF steps = 3 THEN "done" ELSE "crashed"
       /\ job_status' = IF steps >= 1 THEN status ELSE job_status
       /\ IF steps >= 2 THEN SaveEvent(subtype) ELSE UNCHANGED events
       /\ updates' = IF steps = 3 THEN Append(updates, update) ELSE updates
       /\ UNCHANGED <<reason, received, started_receipt, on_trusted, expected, excuses>>

\* The run returned stdout, stderr and artifacts.
Complete ==
    /\ stage = "finished"
    /\ Conclude("COMPLETED", "SUCCESS", "completed")

(* Fault injection: the Hugging Face branch records the job's error type  *)
(* instead of the event subtype.                                           *)
FailedSubtype_ErrorTypeName(r, msg) ==
    CASE r = "MINER_CONNECTION_FAILED" -> "MINER_CONNECTION_ERROR"
      [] r = "EXECUTOR_FAILED"          -> "JOB_REJECTED"
      [] r = "FINAL_RESPONSE_TIMED_OUT" -> "JOB_EXECUTION_TIMEOUT"
      [] r = "JOB_FAILED"               ->
            IF msg = "job_failed_hf" THEN "HUGGINGFACE_DOWNLOAD" ELSE "FAILURE"
      [] OTHER                          -> "JOB_NOT_STARTED"

\* The SystemEvent subtype of each branch that ends with a "failed" update.
FailedSubtype(r, msg) ==
    CASE r = "MINER_CONNECTION_FAILED" -> "MINER_CONNECTION_ERROR"
      [] r = "EXECUTOR_FAILED"          -> "JOB_REJECTED"
      [] r = "FINAL_RESPONSE_TIMED_OUT" -> "JOB_EXECUTION_TIMEOUT"
      [] r = "JOB_FAILED"               ->
            IF msg = "job_failed_hf" THEN "ERROR_DOWNLOADING_FROM_HUGGINGFACE" ELSE "FAILURE"
      [] OTHER                          -> "JOB_NOT_STARTED"

\* The reasons with a branch of their own that sends "failed".
FailedReasons ==
    {"MINER_CONNECTION_FAILED", "INITIAL_RESPONSE_TIMED_OUT",
     "EXECUTOR_READINESS_RESPONSE_TIMED_OUT", "STREAMING_JOB_READY_TIMED_OUT",
     "EXECUTOR_FAILED", "FINAL_RESPONSE_TIMED_OUT", "JOB_FAILED"}

HandleFailed ==
    /\ stage = "raised"
    /\ reason \in FailedReasons
    /\ Conclude("FAILED", FailedSubtype(reason, received), "failed")

(* Declined BUSY: the excuses are checked against the timestamp of the    *)
(* job's JobStartedReceipt; JobStartedReceipt.objects.aget raises          *)
(* DoesNotExist when there is none, and the handler itself fails.  The      *)
(* count of valid excuses (job_excuses filters them) is compared with the *)
(* miner's expected executor count.                                        *)
(* Fault injection: the excused branch sends "failed".                     *)
HandleDeclinedBusy_ExcusedFailed ==
    /\ stage = "raised"
    /\ reason = "JOB_DECLINED" /\ received = "decline_busy"
    /\ \/ /\ ~started_receipt
          /\ stage' = "crashed"
          /\ UNCHANGED <<reason, received, updates, job_status, started_receipt, events,
                         on_trusted, expected, excuses>>
       \/ /\ started_receipt
          /\ IF excuses >= expected
                THEN Conclude("EXCUSED", "JOB_EXCUSED", "failed")
                ELSE Conclude("FAILED", "JOB_REJECTED", "rejected")

HandleDeclinedBusy ==
    /\ stage = "raised"
    /\ reason = "JOB_DECLINED" /\ received = "decline_busy"
    /\ \/ /\ ~started_receipt
          /\ stage' = "crashed"
          /\ UNCHANGED <<reason, received, updates, job_status, started_receipt, events,
                         on_trusted, expected, excuses>>
       \/ /\ started_receipt
          /\ IF excuses >= expected
                THEN Conclude("EXCUSED", "JOB_EXCUSED", "rejected")   \* properly excused
                ELSE Conclude("FAILED", "JOB_REJECTED", "rejected")    \* failed to excuse

HandleDeclined ==
    /\ stage = "raised"
    /\ reason = "JOB_DECLINED" /\ received # "decline_busy"
    /\ Conclude("FAILED", "JOB_REJECTED", "rejected")

\* Any other reason reaches assert_never, which raises.
HandleUnknown ==
    /\ stage = "raised"
    /\ reason \notin FailedReasons \cup {"JOB_DECLINED"}
    /\ stage' = "crashed"
    /\ UNCHANGED <<reason, received, updates, job_status, started_receipt, events,
                   on_trusted, expected, excuses>>

\* The driver has returned or raised: nothing happens to this job any more.
Ended ==
    /\ stage \in {"done", "crashed"}
    /\ UNCHANGED vars

-----------------------------------------------------------------------------
MinerMessage ==
    \/ MinerAccepts \/ MinerDeclines \/ MinerExecutorReady \/ MinerExecutorFails
    \/ MinerVolumesReady \/ MinerExecutionDone \/ MinerJobFinished \/ MinerJobFails

DriverStep ==
    \/ Connect \/ Timeout
    \/ Complete \/ HandleFailed \/ HandleDeclinedBusy \/ HandleDeclined \/ HandleUnknown

Next == (MinerMessage \/ DriverStep \/ Ended) /\ UNCHANGED world

(* The miner may stay silent; the driver's task is scheduled by asyncio   *)
(* and every wait of the run ends at the latest with its timeout.         *)
Spec == Init /\ [][Next]_vars /\ WF_vars(DriverStep /\ UNCHANGED world)

-----------------------------------------------------------------------------
TypeOK ==
    /\ stage \in {"connect", "initial", "executor", "volumes", "execution", "final",
                  "finished", "raised", "done", "crashed"}
    /\ reason \in FailureReason \cup {"none"}
    /\ received \in Received
    /\ updates \in Seq(JSS!Status)
    /\ job_status \in JobState
    /\ started_receipt \in BOOLEAN
    /\ events \in Seq(EventSubType)
    /\ on_trusted \in BOOLEAN
    /\ expected \in 0..MaxExpected
    /\ excuses \in 0..MaxExcuses
    /\ world \in Worlds

(* The updates sent for the job follow the protocol of spec 4.5 (P4):     *)
(* each is a legal successor of the previous one, nothing follows a        *)
(* terminal status and no status repeats; the library's notifications and *)
(* drive_organic_job's final update together refine JobStatusStream.       *)
StatusStreamRefinement == JSS!Spec

(* Every job handed to drive_organic_job ends with a terminal update sent *)
(* to the facilitator, whatever the miner does or fails to do.            *)
JobConcludes == <>(stage = "done")

(* When drive_organic_job has finished, the row agrees with the last      *)
(* update: COMPLETED with "completed", EXCUSED with "rejected", FAILED     *)
(* with "failed" or "rejected"; and exactly one SystemEvent was written   *)
(* unless trusted-miner events are off.                                   *)
OutcomeMatchesUpdate ==
    stage = "done" =>
        LET last == updates[Len(updates)] IN
        /\ job_status = "COMPLETED" <=> last = "completed"
        /\ job_status = "EXCUSED" => last = "rejected"
        /\ job_status = "FAILED" => last \in {"failed", "rejected"}
        /\ Len(events) = IF EventsDisabled THEN 0 ELSE 1

(* The facilitator is never told an outcome the database does not hold:  *)
(* once a terminal update is sent, the row has left PENDING and the job's *)
(* SystemEvent is written, even when an await of the handler raised        *)
(* (job.asave, save_event and notify_callback run in that order).         *)
UpdateBackedByRow ==
    updates[Len(updates)] \in JSS!Terminal =>
        /\ job_status # "PENDING"
        /\ Len(events) = IF EventsDisabled THEN 0 ELSE 1

=============================================================================
