------------------------ MODULE PrecachingSuperTensor ------------------------
(***************************************************************************)
(* The forward-prefetching chain cache of the allowance engine              *)
(* (PrecachingSuperTensor in allowance/utils/supertensor.py).               *)
(*                                                                         *)
(* One producer thread advances highest_block_submitted towards            *)
(* highest_block_requested + CACHE_AHEAD and puts one task per datum kind   *)
(* and block on an unbounded queue; N_THREADS worker threads take tasks,   *)
(* skip what is cached, fetch the rest from the chain and put it in the    *)
(* cache, and drop the task on any error.  Consumer threads read through  *)
(* the cache with no lock around the shared counters: every read records *)
(* the requested block, a hit is served, a                                 *)
(* miss raises (throw_on_cache_miss) or is fetched from the chain and,     *)
(* for every kind but the block timestamp, stored.  close() sets the       *)
(* closing flag and puts one THE_END sentinel per worker on the queue.     *)
(*                                                                         *)
(* Data is abstracted to presence: a chain datum for (kind, block) is      *)
(* immutable, so the cache is the set of <<kind, block>> pairs it holds.   *)
(***************************************************************************)
EXTENDS Integers, Sequences, FiniteSets

CONSTANTS
    Workers,             \* the worker threads (N_THREADS of them)
    Consumers,           \* the threads that call the cached reads
    Kinds,               \* the TaskType values modelled (a subset of TaskKinds)
    CACHE_AHEAD,         \* how far the producer runs ahead of the consumer
    LITE_BLOCK_LOOKBACK, \* blocks the lite node keeps before pruning
    ArchiveConfigured,   \* whether an archive network is configured
    ThrowOnCacheMiss,    \* the throw_on_cache_miss constructor flag
    InitBlock,           \* current_block when the object is created
    MaxBlock,            \* bound: the chain head never passes this block
    MaxTransientErrors,  \* bound: chain timeouts that outlast the retries
    MaxReads,            \* bound: the reads each consumer thread makes
    None                 \* model value: a highest_block_* still unset

TaskKinds == {"NEURONS", "BLOCK_TIMESTAMP", "BLOCK_HASH", "SUBNET_STATE", "VALIDATORS"}
THE_END == "THE_END"

ASSUME /\ Workers # {} /\ Consumers # {}
       /\ Kinds \subseteq TaskKinds /\ Kinds # {}
       /\ CACHE_AHEAD \in Nat \ {0}
       /\ LITE_BLOCK_LOOKBACK \in Nat
       /\ ArchiveConfigured \in BOOLEAN /\ ThrowOnCacheMiss \in BOOLEAN
       /\ InitBlock \in Nat \ {0} /\ MaxBlock \in Nat /\ InitBlock <= MaxBlock
       /\ MaxTransientErrors \in Nat /\ MaxReads \in Nat

Blocks == 1..MaxBlock
Task == (Kinds \X Blocks) \cup {<<THE_END, 0>>}

VARIABLES
    current_block,            \* get_current_block(): chain head - 5
    highest_block_requested,  \* None or the highest block read by the consumer
    highest_block_submitted,  \* None or the last block the producer enqueued
    task_queue,               \* the Queue of (TaskType, block) tasks
    cache,                    \* the set of <<kind, block>> held by the cache
    closing,                  \* the closing flag set by close()
    producer_pc,              \* "check", "submit" or "done"
    worker_pc,                \* per worker: "check", "get", "run" or "exited"
    worker_task,              \* per worker: the task taken from the queue
    errors,                   \* transient chain errors that have happened
    consumer_pc,              \* per consumer: "idle", "max", "seed" or "cache"
    consumer_block,           \* per consumer: the block it is reading (0 when idle)
    consumer_seen,            \* per consumer: highest_block_requested or 0, as line 550 read it
    consumer_reads,           \* per consumer: the reads it has started
    served,                   \* history: the <<kind, block>> data a fallback read returned
    max_requested,            \* history: the highest block a consumer has written as requested
    submitted_blocks          \* history: the blocks the producer has enqueued

vars == <<current_block, highest_block_requested, highest_block_submitted,
          task_queue, cache, closing, producer_pc, worker_pc, worker_task, errors, served,
          consumer_pc, consumer_block, consumer_seen, consumer_reads, max_requested,
          submitted_blocks>>

\* The variables only the consumer threads and the histories change.
consumerVars == <<consumer_pc, consumer_block, consumer_seen, consumer_reads, max_requested,
                  submitted_blocks>>

-----------------------------------------------------------------------------
(* The chain, through the SuperTensor read path of ChainOracle: a block    *)
(* the lite node has pruned is read from the archive, or raises            *)
(* ArchiveSubtensorNotConfigured without one; a read that times out on all *)
(* three attempts of RETRY_ON_TIMEOUT raises SuperTensorTimeout.           *)

Oracle == INSTANCE ChainOracle

\* The chain heads current_block takes.
Heads == InitBlock..MaxBlock

\* Oracle!KindOutcomes tabulated once over the kinds, blocks and heads.
ReadTable == [r \in Kinds \X Blocks \X Heads |-> Oracle!KindOutcomes(r[1], r[2], r[3])]

\* The outcomes of the chain read behind kind k at block b.  Bound: once
\* MaxTransientErrors reads have failed by timeout, no further read does.
ReadResults(k, b) ==
    ReadTable[<<k, b, current_block>>]
        \ (IF errors < MaxTransientErrors THEN {} ELSE {"SuperTensorTimeout"})

\* A read that failed by timeout uses up one transient error.
CountError(o) == errors' = IF o = "SuperTensorTimeout" THEN errors + 1 ELSE errors

-----------------------------------------------------------------------------
Init ==
    /\ current_block = InitBlock
    /\ highest_block_requested = None
    /\ highest_block_submitted = None
    /\ task_queue = <<>>
    /\ cache = {}
    /\ closing = FALSE
    /\ producer_pc = "check"
    /\ worker_pc = [w \in Workers |-> "check"]
    /\ worker_task = [w \in Workers |-> <<THE_END, 0>>]
    /\ errors = 0
    /\ served = {}
    /\ consumer_pc = [c \in Consumers |-> "idle"]
    /\ consumer_block = [c \in Consumers |-> 0]
    /\ consumer_seen = [c \in Consumers |-> 0]
    /\ consumer_reads = [c \in Consumers |-> 0]
    /\ max_requested = 0
    /\ submitted_blocks = {}

\* The chain advances by one block.
NewBlock ==
    /\ current_block < MaxBlock
    /\ current_block' = current_block + 1
    /\ UNCHANGED <<highest_block_requested, highest_block_submitted, task_queue,
                   cache, closing, producer_pc, worker_pc, worker_task, errors, served, consumerVars>>

-----------------------------------------------------------------------------
(* produce_thread.  One pass of its loop reads closing, the current block   *)
(* and both highest_block_* fields; the sleeps of a failed guard are        *)
(* stuttering steps.  The enqueue is a step of its own, so close() can     *)
(* happen between the guard and the puts.                                  *)

(* Fault injection: the look-ahead guard written with <= (one block too   *)
(* many).                                                                  *)
ProducerMayAdvance_LooseAhead ==
    /\ highest_block_requested # None
    /\ highest_block_submitted # None
    /\ highest_block_submitted - highest_block_requested <= CACHE_AHEAD
    /\ highest_block_submitted < current_block

\* The guards of produce_thread that fall through to the puts.
ProducerMayAdvance ==
    /\ highest_block_requested # None
    /\ highest_block_submitted # None
    /\ highest_block_submitted - highest_block_requested < CACHE_AHEAD
    /\ highest_block_submitted < current_block

ProduceCheck ==
    /\ producer_pc = "check"
    /\ \/ /\ closing
          /\ producer_pc' = "done"
       \/ /\ ~closing
          /\ ProducerMayAdvance
          /\ producer_pc' = "submit"
    /\ UNCHANGED <<current_block, highest_block_requested, highest_block_submitted,
                   task_queue, cache, closing, worker_pc, worker_task, errors, served, consumerVars>>

\* The five puts of one block, in the order of TaskType, then the new mark.
BlockTasks(b) ==
    LET order == <<"NEURONS", "BLOCK_TIMESTAMP", "BLOCK_HASH", "SUBNET_STATE", "VALIDATORS">>
        kept  == SelectSeq(order, LAMBDA k : k \in Kinds)
    IN [i \in 1..Len(kept) |-> <<kept[i], b>>]

ProduceSubmit ==
    /\ producer_pc = "submit"
    /\ task_queue' = task_queue \o BlockTasks(highest_block_submitted + 1)
    /\ highest_block_submitted' = highest_block_submitted + 1
    /\ producer_pc' = "check"
    /\ submitted_blocks' = submitted_blocks \cup {highest_block_submitted + 1}
    /\ UNCHANGED <<current_block, highest_block_requested, cache, closing,
                   worker_pc, worker_task, errors, served, consumer_pc, consumer_block,
                   consumer_seen, consumer_reads, max_requested>>

-----------------------------------------------------------------------------
(* worker(ind).  Each pass checks closing, then blocks on task_queue.get(). *)
(* A task whose datum is cached is skipped; otherwise the worker reads the  *)
(* chain and puts the datum.  ArchiveSubtensorNotConfigured and any other   *)
(* exception end the inner loop: the task is dropped, the SuperTensor is    *)
(* closed and recreated, and the worker goes back to checking closing.     *)

WorkerCheck(w) ==
    /\ worker_pc[w] = "check"
    /\ worker_pc' = [worker_pc EXCEPT ![w] = IF closing THEN "exited" ELSE "get"]
    /\ UNCHANGED <<current_block, highest_block_requested, highest_block_submitted,
                   task_queue, cache, closing, producer_pc, worker_task, errors, served, consumerVars>>

WorkerGet(w) ==
    /\ worker_pc[w] = "get"
    /\ task_queue # <<>>
    /\ task_queue' = Tail(task_queue)
    /\ worker_task' = [worker_task EXCEPT ![w] = Head(task_queue)]
    /\ worker_pc' = [worker_pc EXCEPT ![w] =
                        IF Head(task_queue)[1] = THE_END THEN "exited" ELSE "run"]
    /\ UNCHANGED <<current_block, highest_block_requested, highest_block_submitted,
                   cache, closing, producer_pc, errors, served, consumerVars>>

(* Fault injection: the "already cached" test made on the block before.   *)
WorkerSkips_PrevBlock(t) == <<t[1], t[2] - 1>> \in cache

\* The "already cached" test at the top of every task branch.
WorkerSkips(t) == t \in cache

WorkerRun(w) ==
    LET t == worker_task[w] IN
    /\ worker_pc[w] = "run"
    /\ worker_pc' = [worker_pc EXCEPT ![w] = "check"]
    /\ \/ /\ WorkerSkips(t)
          /\ UNCHANGED <<cache, errors>>
       \/ /\ ~WorkerSkips(t)
          /\ \E o \in ReadResults(t[1], t[2]) :
                IF o = Oracle!Ok THEN /\ cache' = cache \cup {t}
                                      /\ UNCHANGED errors
                                 ELSE /\ CountError(o)
                                      /\ UNCHANGED cache
    /\ UNCHANGED <<current_block, highest_block_requested, highest_block_submitted,
                   task_queue, closing, producer_pc, worker_task, served, consumerVars>>

-----------------------------------------------------------------------------
(* The consumer threads' reads (list_neurons, get_block_timestamp,        *)
(* get_block_hash, get_subnet_state, list_validators), of any block.  Each  *)
(* first runs set_starting_block, whose statements are separate steps,      *)
(* since no lock guards the counters: line 550 reads highest_block_requested*)
(* (StartRead) and writes the max back (SetRequested), line 551 tests       *)
(* highest_block_submitted for None (taken with the write: no other step    *)
(* can tell the two apart) and line 552 seeds it (SeedSubmitted).  The kind *)
(* read is chosen at the cache read, the first step that depends on it.    *)
(* Reads stay possible after close(): hits are served from the cache, and *)
(* fallback read fails on the closed chain client.                         *)

StartRead(c, b) ==
    /\ consumer_pc[c] = "idle"
    /\ consumer_reads[c] < MaxReads
    /\ consumer_reads' = [consumer_reads EXCEPT ![c] = @ + 1]
    /\ consumer_pc' = [consumer_pc EXCEPT ![c] = "max"]
    /\ consumer_block' = [consumer_block EXCEPT ![c] = b]
    /\ consumer_seen' = [consumer_seen EXCEPT ![c] =
                            IF highest_block_requested = None THEN 0 ELSE highest_block_requested]
    /\ UNCHANGED <<current_block, highest_block_requested, highest_block_submitted,
                   task_queue, cache, closing, producer_pc, worker_pc, worker_task, errors,
                   served, max_requested, submitted_blocks>>

SetRequested(c) ==
    LET b == consumer_block[c]
        m == IF consumer_seen[c] >= b THEN consumer_seen[c] ELSE b
    IN
    /\ consumer_pc[c] = "max"
    /\ highest_block_requested' = m
    /\ max_requested' = IF m > max_requested THEN m ELSE max_requested
    /\ consumer_pc' = [consumer_pc EXCEPT ![c] =
                          IF highest_block_submitted = None THEN "seed" ELSE "cache"]
    /\ consumer_seen' = [consumer_seen EXCEPT ![c] = 0]
    /\ UNCHANGED <<current_block, highest_block_submitted, task_queue, cache, closing,
                   producer_pc, worker_pc, worker_task, errors, served, consumer_block,
                   consumer_reads, submitted_blocks>>

(* Fault injection: the first mark set two blocks below the request.      *)
SeedSubmitted_OffByOne(c) ==
    /\ consumer_pc[c] = "seed"
    /\ highest_block_submitted' = consumer_block[c] - 2
    /\ consumer_pc' = [consumer_pc EXCEPT ![c] = "cache"]
    /\ UNCHANGED <<current_block, highest_block_requested, task_queue, cache, closing,
                   producer_pc, worker_pc, worker_task, errors, served, consumer_block,
                   consumer_seen, consumer_reads, max_requested, submitted_blocks>>

SeedSubmitted(c) ==
    /\ consumer_pc[c] = "seed"
    /\ highest_block_submitted' = consumer_block[c] - 1
    /\ consumer_pc' = [consumer_pc EXCEPT ![c] = "cache"]
    /\ UNCHANGED <<current_block, highest_block_requested, task_queue, cache, closing,
                   producer_pc, worker_pc, worker_task, errors, served, consumer_block,
                   consumer_seen, consumer_reads, max_requested, submitted_blocks>>

(* Fault injection below: _list_neurons without its put_neurons.         *)
(* What a successful fallback read of kind k stores: get_block_timestamp    *)
(* returns the chain value without putting it; list_validators goes through *)
(* the cached list_neurons and get_subnet_state, which store theirs.        *)
MissFills_NeuronsNotPut(k) ==
    CASE k \in {"BLOCK_TIMESTAMP", "NEURONS"} -> {}
      [] k = "VALIDATORS"      -> {"SUBNET_STATE", "VALIDATORS"} \cap Kinds
      [] OTHER                 -> {k}

MissFills(k) ==
    CASE k = "BLOCK_TIMESTAMP" -> {}
      [] k = "VALIDATORS"      -> {"NEURONS", "SUBNET_STATE", "VALIDATORS"} \cap Kinds
      [] OTHER                 -> {k}

\* What a failed fallback read of kind k may already have stored.
MissPartialFills(k) ==
    IF k = "VALIDATORS"
    THEN {{}, {"NEURONS"} \cap Kinds, {"NEURONS", "SUBNET_STATE"} \cap Kinds}
    ELSE {{}}

\* The cached read of kind k after set_starting_block: a hit (served from
\* the add-only cache, so not recorded), a miss raised, or a fallback read.
CacheRead(c, k) ==
    LET b == consumer_block[c] IN
    /\ consumer_pc[c] = "cache"
    /\ consumer_pc' = [consumer_pc EXCEPT ![c] = "idle"]
    /\ consumer_block' = [consumer_block EXCEPT ![c] = 0]
    /\ \/ /\ <<k, b>> \in cache                           \* cache hit
          /\ UNCHANGED <<cache, errors, served>>
       \/ /\ <<k, b>> \notin cache
          /\ ThrowOnCacheMiss                            \* PrecachingSuperTensorCacheMiss
          /\ UNCHANGED <<cache, errors, served>>
       \/ /\ <<k, b>> \notin cache
          /\ ~ThrowOnCacheMiss /\ closing                \* the chain client is closed
          /\ UNCHANGED <<cache, errors, served>>
       \/ /\ <<k, b>> \notin cache
          /\ ~ThrowOnCacheMiss /\ ~closing               \* fall back to the chain
          /\ \E o \in ReadResults(k, b) :
                IF o = Oracle!Ok
                THEN /\ cache' = cache \cup {<<f, b>> : f \in MissFills(k)}
                     /\ served' = served \cup {<<k, b>>}
                     /\ UNCHANGED errors
                ELSE /\ \E part \in MissPartialFills(k) :
                          cache' = cache \cup {<<f, b>> : f \in part}
                     /\ CountError(o)
                     /\ UNCHANGED served
    /\ UNCHANGED <<current_block, highest_block_requested, highest_block_submitted,
                   task_queue, closing, producer_pc, worker_pc, worker_task,
                   consumer_seen, consumer_reads, max_requested, submitted_blocks>>

(* Fault injection: one sentinel fewer than there are workers.           *)
Close_MissingSentinel ==
    /\ ~closing
    /\ closing' = TRUE
    /\ task_queue' = task_queue \o [i \in 1..(Cardinality(Workers) - 1) |-> <<THE_END, 0>>]
    /\ UNCHANGED <<current_block, highest_block_requested, highest_block_submitted,
                   cache, producer_pc, worker_pc, worker_task, errors, served, consumerVars>>

\* close(): the flag, then one sentinel per worker (enable_workers is TRUE).
Close ==
    /\ ~closing
    /\ closing' = TRUE
    /\ task_queue' = task_queue \o [i \in 1..Cardinality(Workers) |-> <<THE_END, 0>>]
    /\ UNCHANGED <<current_block, highest_block_requested, highest_block_submitted,
                   cache, producer_pc, worker_pc, worker_task, errors, served, consumerVars>>

\* Every thread has returned: the process has nothing left to do.
ShutDown ==
    /\ producer_pc = "done"
    /\ \A w \in Workers : worker_pc[w] = "exited"
    /\ UNCHANGED vars

-----------------------------------------------------------------------------
Producer == ProduceCheck \/ ProduceSubmit
Worker(w) == WorkerCheck(w) \/ WorkerGet(w) \/ WorkerRun(w)
Consumer(c) ==
    \/ \E b \in Blocks : StartRead(c, b)
    \/ SetRequested(c) \/ SeedSubmitted(c) \/ \E k \in Kinds : CacheRead(c, k)

Next ==
    \/ NewBlock
    \/ Producer
    \/ \E w \in Workers : Worker(w)
    \/ \E c \in Consumers : Consumer(c)
    \/ Close
    \/ ShutDown

(* The producer and the workers are daemon threads that run whenever they  *)
(* are not blocked; the chain, the consumers and close() promise nothing.  *)
Fairness ==
    /\ WF_vars(Producer)
    /\ \A w \in Workers : WF_vars(Worker(w))

Spec == Init /\ [][Next]_vars /\ Fairness

-----------------------------------------------------------------------------
TypeOK ==
    /\ current_block \in InitBlock..MaxBlock
    /\ highest_block_requested \in Blocks \cup {None}
    /\ highest_block_submitted \in (0..MaxBlock) \cup {None}
    /\ task_queue \in Seq(Task)
    /\ cache \subseteq Kinds \X Blocks
    /\ closing \in BOOLEAN
    /\ producer_pc \in {"check", "submit", "done"}
    /\ worker_pc \in [Workers -> {"check", "get", "run", "exited"}]
    /\ worker_task \in [Workers -> Task]
    /\ errors \in 0..MaxTransientErrors
    /\ served \subseteq Kinds \X Blocks
    /\ consumer_pc \in [Consumers -> {"idle", "max", "seed", "cache"}]
    /\ consumer_block \in [Consumers -> 0..MaxBlock]
    /\ consumer_seen \in [Consumers -> 0..MaxBlock]
    /\ consumer_reads \in [Consumers -> 0..MaxReads]
    /\ max_requested \in 0..MaxBlock
    /\ submitted_blocks \subseteq Blocks

(* produce_thread's two guards against every consumer interleaving: every *)
(* block the producer has enqueued is at most CACHE_AHEAD above the highest*)
(* block a consumer has written as requested, and one above current_block  *)
(* (the head less the five blocks kept back from reorgs) is a block a      *)
(* consumer has itself requested.  The guards read the counters while      *)
(* consumers run set_starting_block unlocked, and block_to_submit re-reads *)
(* highest_block_submitted after them: a lost max() update lowers          *)
(* highest_block_requested, a stale None test re-seeds                     *)
(* highest_block_submitted, and a read above the head (spec 9 leaves it    *)
(* open) seeds it beyond current_block.                                    *)
EnqueuedWithinWindow ==
    \A b \in submitted_blocks :
        /\ b <= max_requested + CACHE_AHEAD
        /\ b > current_block => b <= max_requested

(* The producer keeps up: a block above the last submitted one, within     *)
(* CACHE_AHEAD of the highest requested block and already on the chain, is *)
(* eventually submitted, unless the cache is closed first.                 *)
PrefetchesAhead ==
    \A b \in Blocks :
        (/\ highest_block_requested # None
         /\ highest_block_submitted # None
         /\ highest_block_submitted < b
         /\ b <= highest_block_requested + CACHE_AHEAD
         /\ b <= current_block)
        ~> (closing \/ (highest_block_submitted # None /\ highest_block_submitted >= b))

(* Every task the producer enqueues ends up in the cache (the spec's P6:   *)
(* after warm-up every prefetched block is a hit), unless closed first.    *)
QueuedTasks == {task_queue[i] : i \in DOMAIN task_queue}

SubmittedBlocksCached ==
    \A k \in Kinds, b \in Blocks :
        (<<k, b>> \in QueuedTasks) ~> (closing \/ <<k, b>> \in cache)

(* A datum once returned to a consumer stays cached: after a miss the read *)
(* falls through to the chain and populates the cache (spec 4.2), so the   *)
(* next read of it is a hit.  Hits come from the add-only cache, so only   *)
(* what fallback reads returned is recorded.                               *)
ServedDataCached == served \subseteq cache

(* close() stops every thread: the producer returns and every worker,      *)
(* including one blocked on an empty queue, returns.                       *)
ShutdownCompletes ==
    closing ~> (producer_pc = "done" /\ \A w \in Workers : worker_pc[w] = "exited")


(* The read path under the cache (SuperTensor's RETRY_ON_TIMEOUT around     *)
(* archive_fallback around make_sync) keeps the promise of spec 4.1 at     *)
(* every head the chain reaches: a pruned block is read from the archive   *)
(* when one is configured, ArchiveSubtensorNotConfigured is raised only    *)
(* for a block that is unreachable, UnknownBlock never escapes, and a read *)
(* fails by timeout only after every one of its three attempts timed out.  *)
ReliableTable == [r \in Blocks \X Heads |-> Oracle!ReadReliable(r[1], r[2])]

ChainReadsReliable == \A b \in Blocks : ReliableTable[<<b, current_block>>]
=============================================================================
