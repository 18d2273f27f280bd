---------------------------- MODULE OutputUploader ----------------------------
(***************************************************************************)
(* Job output upload (compute_horde_core/output_upload/_uploader.py).      *)
(* Several uploads run on one event loop and share the class-level         *)
(* OutputUploader._semaphore of MAX_CONCURRENT_UPLOADS permits:            *)
(*   - a Zip uploader (ZipAndHTTPPost/Put) zips the directory, then holds  *)
(*     a permit around its one upload;                                     *)
(*   - a MultiUploadOutputUploader builds one coroutine per single-file    *)
(*     upload, plus one for the zipped system output, taking and returning *)
(*     a permit around each append, and then gathers them all.             *)
(* Every upload goes through the retry decorator: up to MAX_RETRIES        *)
(* attempts, retried on OutputUploadFailed.  The HTTP outcome of each      *)
(* attempt, the size limit of a zip and the existence of a file are free  *)
(* choices; the file-count limit is decided by the directory's contents.   *)
(***************************************************************************)
EXTENDS Naturals, Sequences, FiniteSets

CONSTANTS
    ZipCallers,              \* upload() calls of Zip uploaders
    MultiCallers,            \* upload() calls of MultiUpload uploaders
    NFiles,                  \* single-file uploads of each MultiUpload
    MultiHasSystem,          \* each MultiUpload has a system_output zip
    MAX_CONCURRENT_UPLOADS,
    MAX_RETRIES,             \* retry(max_retries=3)
    MAX_NUMBER_OF_FILES,
    DirFiles,                \* regular files in the output directory, the
                             \* NFiles single-file uploads among them
    DirSubdirs               \* subdirectories of the output directory

ASSUME /\ ZipCallers \cap MultiCallers = {}
       /\ NFiles \in Nat /\ MultiHasSystem \in BOOLEAN
       /\ MAX_CONCURRENT_UPLOADS \in Nat \ {0} /\ MAX_RETRIES \in Nat \ {0}
       /\ MAX_NUMBER_OF_FILES \in Nat /\ DirSubdirs \in Nat
       /\ DirFiles \in Nat /\ DirFiles >= NFiles

Callers == ZipCallers \cup MultiCallers

\* The uploads of a call, in the order MultiUpload appends them: the
\* single files 1..NFiles, then the system output zip, numbered 0.
Order(c) ==
    IF c \in ZipCallers THEN <<0>>
    ELSE [i \in 1..NFiles |-> i] \o (IF MultiHasSystem THEN <<0>> ELSE <<>>)

Uploads(c) == {Order(c)[i] : i \in 1..Len(Order(c))}

Tasks == UNION {{<<c, u>> : u \in Uploads(c)} : c \in Callers}

VARIABLES
    pc,        \* where each upload() call is
    built,     \* MultiUpload: how many coroutines are appended to tasks
    task,      \* each upload: "idle", "created" (coroutine built), "running"
               \* (inside upload_post/upload_put and its retries), "ok", "failed"
    attempts,  \* attempts made by each upload's retry wrapper
    sem,       \* free permits of OutputUploader._semaphore
    received,  \* uploads the server has accepted
    refused    \* zips refused by the file-count limit (history)

vars == <<pc, built, task, attempts, sem, received, refused>>

Init ==
    /\ pc = [c \in Callers |-> IF c \in ZipCallers THEN "zip" ELSE "build"]
    /\ built = [c \in Callers |-> 0]
    /\ task = [t \in Tasks |-> "idle"]
    /\ attempts = [t \in Tasks |-> 0]
    /\ sem = MAX_CONCURRENT_UPLOADS
    /\ received = {}
    /\ refused = {}

-----------------------------------------------------------------------------
(* Zip uploaders: ZipAndHTTPPostOutputUploader.upload and its PUT twin.    *)

\* zipped_directory: directory.glob("**/*") lists every entry below the
\* directory, subdirectories included, less the excluded relative paths.
ZipEntries(excluded) == DirFiles + DirSubdirs - excluded

\* More entries than MAX_NUMBER_OF_FILES raise OutputUploadFailed before
\* the zip is written; a zip larger than max_size_bytes raises after it.
ZipOutcomes(excluded) ==
    IF ZipEntries(excluded) > MAX_NUMBER_OF_FILES THEN {"too_many"}
    ELSE {"ok", "too_large"}

\* The refusal of zip t recorded in the history.
RecordRefusal(t, o) ==
    refused' = IF o = "too_many" THEN refused \cup {t} ELSE refused

\* with zipped_directory(directory, ...): the whole directory is zipped.
ZipDirectory(c) ==
    /\ pc[c] = "zip"
    /\ \E o \in ZipOutcomes(0) :
          /\ pc' = [pc EXCEPT ![c] = IF o = "ok" THEN "acquire" ELSE "failed"]
          /\ RecordRefusal(<<c, 0>>, o)
    /\ UNCHANGED <<built, task, attempts, sem, received>>

\* async with self._semaphore, then the call of upload_post / upload_put.
AcquireAndUpload(c) ==
    /\ pc[c] = "acquire"
    /\ sem > 0
    /\ sem' = sem - 1
    /\ task' = [task EXCEPT ![<<c, 0>>] = "running"]
    /\ pc' = [pc EXCEPT ![c] = "upload"]
    /\ UNCHANGED <<built, attempts, received, refused>>

\* Leaving the async with and the zip context: the call returns or raises.
ReleaseAfterUpload(c) ==
    /\ pc[c] = "upload"
    /\ task[<<c, 0>>] \in {"ok", "failed"}
    /\ sem' = sem + 1
    /\ pc' = [pc EXCEPT ![c] = IF task[<<c, 0>>] = "ok" THEN "done" ELSE "failed"]
    /\ UNCHANGED <<built, task, attempts, received, refused>>

-----------------------------------------------------------------------------
(* MultiUploadOutputUploader.upload.                                       *)

(* One iteration of the loop over uploads (or the system output): a       *)
(* missing single file raises OutputUploadFailed, and the coroutines built *)
(* so far are never awaited; otherwise the coroutine is appended under     *)
(* the semaphore, which is held only for the append.                       *)
AppendUpload(c) ==
    /\ pc[c] = "build"
    /\ LET u == Order(c)[built[c] + 1] IN
       \/ /\ u # 0                                   \* file_path.exists() is False
          /\ pc' = [pc EXCEPT ![c] = "failed"]
          /\ UNCHANGED <<built, task>>
       \/ /\ sem > 0                                 \* async with self._semaphore
          /\ task' = [task EXCEPT ![<<c, u>>] = "created"]
          /\ built' = [built EXCEPT ![c] = built[c] + 1]
          /\ pc' = [pc EXCEPT ![c] = IF built[c] + 1 = Len(Order(c)) THEN "gather" ELSE "build"]
    /\ UNCHANGED <<attempts, sem, received, refused>>

(* asyncio.gather wraps every coroutine in a task, which runs even after   *)
(* gather has raised: a single file goes straight to its upload; the       *)
(* system output first zips the directory with exclude=single_file_uploads *)
(* (the NFiles single files), and the zip limits may raise                 *)
(* OutputUploadFailed.                                                     *)
StartTask(t) ==
    /\ task[t] = "created"
    /\ built[t[1]] = Len(Order(t[1]))                  \* gather has been called
    /\ \/ /\ t[2] # 0
          /\ task' = [task EXCEPT ![t] = "running"]
          /\ UNCHANGED refused
       \/ /\ t[2] = 0
          /\ \E o \in ZipOutcomes(NFiles) :
                /\ task' = [task EXCEPT ![t] = IF o = "ok" THEN "running" ELSE "failed"]
                /\ RecordRefusal(t, o)
    /\ UNCHANGED <<pc, built, attempts, sem, received>>

(* Fault injection: gather treated as done when any upload has succeeded. *)
GatherReturns_FirstCompleted(c) ==
    /\ pc[c] = "gather"
    /\ \/ /\ \E u \in Uploads(c) : task[<<c, u>>] = "failed"
          /\ pc' = [pc EXCEPT ![c] = "failed"]
       \/ /\ \E u \in Uploads(c) : task[<<c, u>>] = "ok"
          /\ pc' = [pc EXCEPT ![c] = "done"]
    /\ UNCHANGED <<built, task, attempts, sem, received, refused>>

(* Fault injection: gather's exception lost, so the call returns only   *)
(* once every upload has succeeded.                                       *)
GatherReturns_WaitsForAll(c) ==
    /\ pc[c] = "gather"
    /\ \A u \in Uploads(c) : task[<<c, u>>] = "ok"
    /\ pc' = [pc EXCEPT ![c] = "done"]
    /\ UNCHANGED <<built, task, attempts, sem, received, refused>>

(* gather raises the first exception as soon as it happens, leaving the   *)
(* other uploads running; it returns when all of them have succeeded.     *)
GatherReturns(c) ==
    /\ pc[c] = "gather"
    /\ \/ /\ \E u \in Uploads(c) : task[<<c, u>>] = "failed"
          /\ pc' = [pc EXCEPT ![c] = "failed"]
       \/ /\ \A u \in Uploads(c) : task[<<c, u>>] = "ok"
          /\ pc' = [pc EXCEPT ![c] = "done"]
    /\ UNCHANGED <<built, task, attempts, sem, received, refused>>

-----------------------------------------------------------------------------
(* The retry decorator around upload_post / upload_put.                    *)

(* Fault injection: the last attempt is recognised one iteration late.    *)
LastAttempt_OffByOne(n) == n = MAX_RETRIES

\* i == max_retries - 1: the failure of this attempt is re-raised.
LastAttempt(n) == n = MAX_RETRIES - 1

(* One attempt: the request succeeds, or raise_for_status / an httpx error *)
(* raises OutputUploadFailed, which is re-raised on the last attempt and  *)
(* otherwise retried after the backoff sleep.                              *)
Attempt(t) ==
    /\ task[t] = "running"
    /\ attempts' = [attempts EXCEPT ![t] = attempts[t] + 1]
    /\ \/ /\ task' = [task EXCEPT ![t] = "ok"]
          /\ received' = received \cup {t}
       \/ /\ task' = [task EXCEPT ![t] = IF LastAttempt(attempts[t]) THEN "failed" ELSE "running"]
          /\ UNCHANGED received
    /\ UNCHANGED <<pc, built, sem, refused>>

-----------------------------------------------------------------------------
\* All calls have returned or raised: the loop has nothing left of them.
Finished ==
    /\ \A c \in Callers : pc[c] \in {"done", "failed"}
    /\ \A t \in Tasks : ~ENABLED (StartTask(t) \/ Attempt(t))
    /\ UNCHANGED vars

Caller(c) ==
    \/ ZipDirectory(c) \/ AcquireAndUpload(c) \/ ReleaseAfterUpload(c)
    \/ AppendUpload(c) \/ GatherReturns(c)

Next ==
    \/ \E c \in Callers : Caller(c)
    \/ \E t \in Tasks : StartTask(t) \/ Attempt(t)
    \/ Finished

(* The event loop runs every ready coroutine.  asyncio.Semaphore wakes its *)
(* waiters in FIFO order, so a call that keeps waiting for a permit gets   *)
(* one when permits keep being returned: strong fairness on the waits.     *)
Fairness ==
    /\ \A c \in Callers : /\ WF_vars(Caller(c))
                          /\ SF_vars(AcquireAndUpload(c))
                          /\ SF_vars(AppendUpload(c))
    /\ \A t \in Tasks : WF_vars(StartTask(t) \/ Attempt(t))

Spec == Init /\ [][Next]_vars /\ Fairness

-----------------------------------------------------------------------------
TypeOK ==
    /\ pc \in [Callers -> {"zip", "acquire", "upload", "build", "gather", "done", "failed"}]
    /\ built \in [Callers -> 0..NFiles + 1]
    /\ task \in [Tasks -> {"idle", "created", "running", "ok", "failed"}]
    /\ attempts \in [Tasks -> 0..MAX_RETRIES]
    /\ sem \in 0..MAX_CONCURRENT_UPLOADS
    /\ received \subseteq Tasks
    /\ refused \subseteq Tasks

InFlight == {t \in Tasks : task[t] = "running"}

(* Spec 4.7: uploads run under a process-wide semaphore of                 *)
(* MAX_CONCURRENT_UPLOADS; no more uploads are in progress at once,        *)
(* whichever uploaders started them.                                       *)
UploadConcurrencyBounded == Cardinality(InFlight) <= MAX_CONCURRENT_UPLOADS

(* An upload() call that returns normally has had every one of its files  *)
(* and its system output accepted by the server.                           *)
SuccessMeansAllReceived ==
    \A c \in Callers : pc[c] = "done" => \A u \in Uploads(c) : <<c, u>> \in received

\* The regular files a zip of t would carry: the directory less, for a
\* MultiUpload's system output, its single files.
FilesToZip(t) == DirFiles - (IF t[1] \in MultiCallers THEN NFiles ELSE 0)

(* Spec P7: zip creation refuses a directory with more than                *)
(* MAX_NUMBER_OF_FILES files.  Every zip that zipped_directory refused for  *)
(* its count had more files than the limit.                               *)
ZipFileLimit == \A t \in refused : FilesToZip(t) > MAX_NUMBER_OF_FILES

(* Every upload() call returns or raises: the retries end and no call     *)
(* waits for a permit forever.                                             *)
EveryUploadReturns == \A c \in Callers : <>(pc[c] \in {"done", "failed"})

=============================================================================
