----------------------------- MODULE ChainOracle -----------------------------
(***************************************************************************)
(* One chain read of SuperTensor (allowance/utils/supertensor.py), the     *)
(* decorator stack every block-addressed read goes through:                *)
(*                                                                         *)
(*   RETRY_ON_TIMEOUT        up to 3 attempts, retried on SuperTensorTimeout *)
(*     archive_fallback      lite node first; on UnknownBlock the archive   *)
(*       make_sync           wait_for(DEFAULT_TIMEOUT); TimeoutError becomes *)
(*                           SuperTensorTimeout                             *)
(*                                                                         *)
(* A node call is abstracted to its outcome: the datum, UnknownBlock (the  *)
(* lite node has pruned the block) or a timeout.  A read is then a pure    *)
(* function of the outcomes of its node calls, one <<lite, archive>> pair  *)
(* per attempt, and the set of outcomes a read can have is the image of    *)
(* every such sequence.                                                    *)
(***************************************************************************)
EXTENDS Naturals, Sequences

CONSTANTS
    ArchiveConfigured,   \* archive_network set: archive_bittensor is not None
    LITE_BLOCK_LOOKBACK  \* blocks the lite node keeps behind current_block

\* stop_after_attempt(3) of RETRY_ON_TIMEOUT.
MAX_ATTEMPTS == 3

\* A read that returns its datum; the other outcomes are the exceptions raised.
Ok == "ok"

-----------------------------------------------------------------------------
\* The lite node no longer has blocks behind current - LITE_BLOCK_LOOKBACK.
LitePruned(b, current) == b < current - LITE_BLOCK_LOOKBACK

\* oldest_reachable_block: -inf with an archive, else current - LITE_BLOCK_LOOKBACK.
Unreachable(b, current) == ~ArchiveConfigured /\ LitePruned(b, current)

\* A lite-node call through make_sync: the datum, or UnknownBlock for a
\* block the node no longer has, or SuperTensorTimeout after DEFAULT_TIMEOUT.
LiteCalls(b, current) ==
    {IF LitePruned(b, current) THEN "UnknownBlock" ELSE Ok,
     "SuperTensorTimeout"}

\* An archive-node call has every block.
ArchiveCalls == {Ok, "SuperTensorTimeout"}

\* Fault injection: UnknownBlock raises ArchiveSubtensorNotConfigured even
\* when an archive is configured.
Fallback_IgnoresArchive(call) ==
    IF call[1] = "UnknownBlock" THEN "ArchiveSubtensorNotConfigured" ELSE call[1]

\* archive_fallback: the lite call; on UnknownBlock, ArchiveSubtensorNotConfigured
\* without an archive, else the archive call.  Anything else propagates.
Fallback(call) ==
    IF call[1] = "UnknownBlock"
    THEN IF ArchiveConfigured THEN call[2] ELSE "ArchiveSubtensorNotConfigured"
    ELSE call[1]

\* Fault injection: the stop condition of the retry taken one attempt early.
RetryOnTimeout_TwoAttempts(calls, attempt) ==
    LET r == Fallback(calls[attempt]) IN
    IF r = "SuperTensorTimeout" /\ attempt < MAX_ATTEMPTS - 1
    THEN Fallback(calls[attempt + 1])
    ELSE r

\* RETRY_ON_TIMEOUT: the attempt's result, unless it is a SuperTensorTimeout
\* and attempts remain, in which case the whole fallback is tried again;
\* after the last attempt the timeout is re-raised (reraise=True).
RECURSIVE RetryOnTimeout(_, _)
RetryOnTimeout(calls, attempt) ==
    LET r == Fallback(calls[attempt]) IN
    IF r = "SuperTensorTimeout" /\ attempt < MAX_ATTEMPTS
    THEN RetryOnTimeout(calls, attempt + 1)
    ELSE r

\* Every sequence of node-call outcomes one read may meet.
CallSeqs(b, current) == [1..MAX_ATTEMPTS -> LiteCalls(b, current) \X ArchiveCalls]

\* The outcomes of one read of block b (list_neurons, get_block_timestamp,
\* get_block_hash, get_subnet_state).
ReadOutcomes(b, current) ==
    {RetryOnTimeout(c, 1) : c \in CallSeqs(b, current)}

\* list_validators: list_neurons, then get_subnet_state, each a read of its
\* own; the first failure propagates.
ValidatorsOutcomes(b, current) ==
    {IF n # Ok THEN n ELSE s : n, s \in ReadOutcomes(b, current)}

\* The outcomes of the read behind a task or a cache miss of kind k.
KindOutcomes(k, b, current) ==
    IF k = "VALIDATORS" THEN ValidatorsOutcomes(b, current) ELSE ReadOutcomes(b, current)

\* An attempt that ended in a timeout, on the lite node or on the archive.
AttemptTimedOut(call) ==
    \/ call[1] = "SuperTensorTimeout"
    \/ call[1] = "UnknownBlock" /\ ArchiveConfigured /\ call[2] = "SuperTensorTimeout"

-----------------------------------------------------------------------------
(* Spec 4.1: a block-addressed read transparently falls back to the archive *)
(* when the lite node has pruned, fails with ArchiveNotConfigured only when  *)
(* no archive is set, and gives up on timeouts only after three attempts.    *)
(* ReadReliable states this of RetryOnTimeout over every call sequence:      *)
(* the read fails with a timeout only if each of the three attempts timed    *)
(* out on the node it ended on, with ArchiveSubtensorNotConfigured only for  *)
(* a pruned block and no archive, and never lets UnknownBlock escape.        *)
ReadReliable(b, current) ==
    \A c \in CallSeqs(b, current) :
        LET r == RetryOnTimeout(c, 1) IN
        /\ r # "UnknownBlock"
        /\ r = "SuperTensorTimeout" => \A i \in 1..MAX_ATTEMPTS : AttemptTimedOut(c[i])
        /\ r = "ArchiveSubtensorNotConfigured" => Unreachable(b, current)
        /\ r = Ok => ~Unreachable(b, current)

=============================================================================
