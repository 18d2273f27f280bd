--------------------------- MODULE ReceiptTransfer ---------------------------
(***************************************************************************)
(* The transfer_receipts management command (spec 4.6): pulls receipt      *)
(* pages from miners.  Time is counted in pages; a page is "complete" once *)
(* it has been pulled, on an open HTTP session, after it ended (now > p),  *)
(* so that none of its receipts is left behind.                            *)
(*                                                                         *)
(* Once mode: one catch_up over [cutoff_page, current_page].  Daemon mode: *)
(* run_in_loop awaits a catch_up of the active pages, then gathers a       *)
(* catch_up task over the cold pages and an endless keep_up task; a        *)
(* TransferIsDisabled raised by either ends gather, closes the session,    *)
(* and handle sleeps and calls run_in_loop again.  asyncio.gather does     *)
(* not cancel the sibling, so it goes on as an orphan on the closed        *)
(* session.  Any other exception (an await of miners(), aget_config or the *)
(* transfer raising) passes through handle and ends the command.  All      *)
(* coroutines share one event loop: a step is the code between two awaits, *)
(* and keep_up's time.sleep blocks every other one.                        *)
(***************************************************************************)
EXTENDS Naturals, Sequences, Functions

CONSTANTS
    InitPage,        \* current_page() when handle starts
    CUTOFF_PAGES,    \* pages in timedelta(hours=5)
    N_ACTIVE_PAGES,  \* compute_horde.receipts.store.local.N_ACTIVE_PAGES
    MaxPage,         \* last page the model lets time reach
    MaxToggles,      \* bound on changes of DYNAMIC_RECEIPT_TRANSFER_ENABLED
    MaxErrors        \* bound on awaits that raise an error of their own

ASSUME N_ACTIVE_PAGES \in 1..InitPage /\ InitPage <= MaxPage
ASSUME CUTOFF_PAGES \in 0..InitPage /\ MaxToggles \in Nat /\ MaxErrors \in Nat

\* cutoff = timezone.now() - timedelta(hours=5), fixed once in handle.
CutoffPage == InitPage - CUTOFF_PAGES
Pages == CutoffPage..MaxPage

\* list(reversed(range(lo, hi + 1))): hi, hi - 1, ..., lo.
Desc(lo, hi) == [i \in 1..(hi - lo + 1) |-> hi - i + 1]

\* Mutant: the poll leaves out the oldest active page.
ActivePages_Narrow(cur) == Desc(cur - N_ACTIVE_PAGES + 2, cur)
\* Mutant: the cold range stops one page short of the active ones.
ColdPages_OffByOne(cur) == Desc(CutoffPage, cur - N_ACTIVE_PAGES - 1)
\* Mutant: the cold range starts one page before the cutoff.
ColdPages_BeforeCutoff(cur) == Desc(CutoffPage - 1, cur - N_ACTIVE_PAGES)

ActivePages(cur) == Desc(cur - N_ACTIVE_PAGES + 1, cur)
ColdPages(cur) == Desc(CutoffPage, cur - N_ACTIVE_PAGES)
OncePages(cur) == Desc(CutoffPage, cur)

\* Each gather spawns one catch_up and one keep_up; a new gather needs a
\* failed one first, and that needs the switch turned off.
MaxEpoch == MaxToggles \div 2 + 1
Epochs == 1..MaxEpoch
Tasks == {"catch_up", "keep_up"} \X Epochs

VARIABLES
    daemon,     \* the --daemon flag of this invocation
    now,        \* LocalFilesystemPagedReceiptStore.current_page()
    enabled,    \* DYNAMIC_RECEIPT_TRANSFER_ENABLED
    toggles,    \* changes of the switch so far
    main,       \* where handle / run_in_loop / run_once is
    run_page,   \* current_page read at the start of the run
    mpages,     \* pages left in the catch_up that main awaits itself
    epoch,      \* number of gathers started; epoch's tasks use the open session
    tpc,        \* where each gathered task is
    tpages,     \* pages left in each catch_up task
    complete,   \* pages pulled on an open session after they ended
    crossed,    \* a page boundary passed since the live run's last poll
    errors,     \* awaits that have raised an error other than TransferIsDisabled
    gather_exc  \* the exception the current gather raises: "none" yet,
                \* "disabled" (TransferIsDisabled) or "error" (anything else)

vars == <<daemon, now, enabled, toggles, main, run_page, mpages, epoch, tpc, tpages,
          complete, crossed, errors, gather_exc>>

MainPcs == {"start", "check", "transfer", "gather", "sleep", "done", "failed", "crashed"}
TaskPcs == {"unborn", "check", "transfer", "sleep", "returned", "raised", "errored"}

\* The `async with aiohttp.ClientSession()` of the task's run is still open.
SessionOpen(t) == t[2] = epoch /\ main = "gather"

Current(kind) == <<kind, epoch>>

\* The run is alive: main is in its catch_up, or gathering with no child raised.
RunLive ==
    \/ main \in {"check", "transfer"}
    \/ main = "gather" /\ gather_exc = "none"

\* Environment assumption: a page lasts longer than one keep_up period, so
\* while a run is alive at most one boundary passes between two polls.
CanCross == ~daemon \/ main \notin {"check", "transfer", "gather"} \/ ~crossed

\* ReceiptsTransfer.transfer of pgs: on an open session every ended page is
\* pulled whole; on a closed one every request fails.
Pull(pgs, open) ==
    complete' = IF open THEN complete \cup {p \in Range(pgs) : p < now}
                ELSE complete

\* An await of a loop iteration raises an error of its own: the miners()
\* query (MetagraphSnapshot.aget_latest, Miner.objects.filter), aget_config
\* or ReceiptsTransfer.transfer.  Bound: MaxErrors in a run.
AwaitMayRaise == errors < MaxErrors

\* asyncio.gather raises the first exception of its children; a later one
\* is never retrieved.  Only the children of the current gather count.
FirstException(t, e) ==
    gather_exc' = IF t[2] = epoch /\ gather_exc = "none" THEN e ELSE gather_exc

Init ==
    /\ daemon \in BOOLEAN
    /\ now = InitPage
    /\ enabled = TRUE
    /\ toggles = 0
    /\ main = "start"
    /\ run_page = InitPage
    /\ mpages = <<>>
    /\ epoch = 0
    /\ tpc = [t \in Tasks |-> "unborn"]
    /\ tpages = [t \in Tasks |-> <<>>]
    /\ complete = {}
    /\ crossed = FALSE
    /\ errors = 0
    /\ gather_exc = "none"

(***************************************************************************)
(* handle and the coroutine it awaits                                      *)
(***************************************************************************)

\* handle --daemon -> run_in_loop: read current_page, open the session and
\* start the catch_up of the active pages.
RunInLoop ==
    /\ daemon /\ main = "start"
    /\ main' = "check"
    /\ run_page' = now
    /\ mpages' = ActivePages(now)
    /\ crossed' = FALSE
    /\ UNCHANGED <<daemon, now, enabled, toggles, epoch, tpc, tpages, complete, errors, gather_exc>>

\* handle without --daemon -> run_once: one catch_up from cutoff_page on.
RunOnce ==
    /\ ~daemon /\ main = "start"
    /\ main' = "check"
    /\ run_page' = now
    /\ mpages' = OncePages(now)
    /\ UNCHANGED <<daemon, now, enabled, toggles, epoch, tpc, tpages, complete, crossed, errors, gather_exc>>

\* Top of catch_up's for loop: _throw_if_disabled.  The exception leaves the
\* session; the daemon's handle sleeps, run_once's handle fails.
MainCheck ==
    /\ main = "check" /\ mpages # <<>>
    /\ main' = IF ~enabled THEN (IF daemon THEN "sleep" ELSE "failed")
               ELSE "transfer"
    /\ UNCHANGED <<daemon, now, enabled, toggles, run_page, mpages, epoch, tpc, tpages,
                   complete, crossed, errors, gather_exc>>

(* One page of catch_up: its miners() and its transfer.  An error of      *)
(* those awaits leaves run_in_loop or run_once; handle catches only        *)
(* TransferIsDisabled, so it ends the command.                             *)
MainTransfer ==
    /\ main = "transfer"
    /\ \/ /\ Pull(<<Head(mpages)>>, TRUE)
          /\ mpages' = Tail(mpages)
          /\ main' = "check"
          /\ UNCHANGED errors
       \/ /\ AwaitMayRaise
          /\ errors' = errors + 1
          /\ main' = IF daemon THEN "crashed" ELSE "failed"
          /\ UNCHANGED <<mpages, complete>>
    /\ UNCHANGED <<daemon, now, enabled, toggles, run_page, epoch, tpc, tpages, crossed, gather_exc>>

\* run_once's catch_up ran out of pages: the session closes, handle returns.
RunOnceReturns ==
    /\ ~daemon /\ main = "check" /\ mpages = <<>>
    /\ main' = "done"
    /\ UNCHANGED <<daemon, now, enabled, toggles, run_page, mpages, epoch, tpc, tpages,
                   complete, crossed, errors, gather_exc>>

\* run_in_loop's first catch_up returned: asyncio.gather(catch_up(cold pages),
\* keep_up()) schedules both on the loop.
Gather ==
    /\ daemon /\ main = "check" /\ mpages = <<>>
    /\ main' = "gather"
    /\ epoch' = epoch + 1
    /\ tpc' = [tpc EXCEPT ![<<"catch_up", epoch + 1>>] = "check",
                          ![<<"keep_up", epoch + 1>>] = "check"]
    /\ tpages' = [tpages EXCEPT ![<<"catch_up", epoch + 1>>] = ColdPages(run_page)]
    /\ gather_exc' = "none"
    /\ UNCHANGED <<daemon, now, enabled, toggles, run_page, mpages, complete, crossed, errors>>

(* A child raised: gather raises the first exception without cancelling  *)
(* the other child, `async with` closes the session, and handle catches   *)
(* TransferIsDisabled and sleeps; any other exception ends the command.    *)
GatherRaises ==
    /\ main = "gather"
    /\ gather_exc # "none"
    /\ main' = IF gather_exc = "disabled" THEN "sleep" ELSE "crashed"
    /\ UNCHANGED <<daemon, now, enabled, toggles, run_page, mpages, epoch, tpc, tpages,
                   complete, crossed, errors, gather_exc>>

\* await asyncio.sleep(60), then run_in_loop again with the same cutoff.
SleepDisabled ==
    /\ main = "sleep"
    /\ main' = "start"
    /\ UNCHANGED <<daemon, now, enabled, toggles, run_page, mpages, epoch, tpc, tpages,
                   complete, crossed, errors, gather_exc>>

(***************************************************************************)
(* The gathered tasks                                                      *)
(***************************************************************************)

CatchUpCheck(t) ==
    /\ t[1] = "catch_up" /\ tpc[t] = "check"
    /\ LET to == IF tpages[t] = <<>> THEN "returned"
                 ELSE IF ~enabled THEN "raised"
                 ELSE "transfer"
       IN /\ tpc' = [tpc EXCEPT ![t] = to]
          /\ IF to = "raised" THEN FirstException(t, "disabled") ELSE UNCHANGED gather_exc
    /\ UNCHANGED <<daemon, now, enabled, toggles, main, run_page, mpages, epoch, tpages,
                   complete, crossed, errors>>

\* The awaits of a loop iteration may raise an error of their own.
TaskError(t) ==
    /\ AwaitMayRaise
    /\ errors' = errors + 1
    /\ tpc' = [tpc EXCEPT ![t] = "errored"]
    /\ FirstException(t, "error")

CatchUpTransfer(t) ==
    /\ t[1] = "catch_up" /\ tpc[t] = "transfer"
    /\ \/ /\ Pull(<<Head(tpages[t])>>, SessionOpen(t))
          /\ tpages' = [tpages EXCEPT ![t] = Tail(@)]
          /\ tpc' = [tpc EXCEPT ![t] = "check"]
          /\ UNCHANGED <<errors, gather_exc>>
       \/ /\ TaskError(t)
          /\ UNCHANGED <<tpages, complete>>
    /\ UNCHANGED <<daemon, now, enabled, toggles, main, run_page, mpages, epoch, crossed>>

KeepUpCheck(t) ==
    /\ t[1] = "keep_up" /\ tpc[t] = "check"
    /\ tpc' = [tpc EXCEPT ![t] = IF enabled THEN "transfer" ELSE "raised"]
    /\ IF enabled THEN UNCHANGED gather_exc ELSE FirstException(t, "disabled")
    /\ UNCHANGED <<daemon, now, enabled, toggles, main, run_page, mpages, epoch, tpages,
                   complete, crossed, errors>>

\* Read the interval and current_page, and transfer the active pages.
KeepUpTransfer(t) ==
    /\ t[1] = "keep_up" /\ tpc[t] = "transfer"
    /\ \/ /\ Pull(ActivePages(now), SessionOpen(t))
          /\ crossed' = (crossed /\ ~SessionOpen(t))
          /\ tpc' = [tpc EXCEPT ![t] = "sleep"]
          /\ UNCHANGED <<errors, gather_exc>>
       \/ /\ TaskError(t)
          /\ UNCHANGED <<complete, crossed>>
    /\ UNCHANGED <<daemon, now, enabled, toggles, main, run_page, mpages, epoch, tpages>>

\* time.sleep(interval - elapsed): blocks the event loop; time may pass.
KeepUpSleep(t) ==
    /\ t[1] = "keep_up" /\ tpc[t] = "sleep"
    /\ \E d \in {0, 1} :
          /\ d = 1 => (now < MaxPage /\ CanCross)
          /\ now' = now + d
          /\ crossed' = (crossed \/ d = 1)
    /\ tpc' = [tpc EXCEPT ![t] = "check"]
    /\ UNCHANGED <<daemon, enabled, toggles, main, run_page, mpages, epoch, tpages, complete, errors, gather_exc>>

(***************************************************************************)
(* Environment                                                             *)
(***************************************************************************)

Tick ==
    /\ now < MaxPage /\ CanCross
    /\ now' = now + 1
    /\ crossed' = TRUE
    /\ UNCHANGED <<daemon, enabled, toggles, main, run_page, mpages, epoch, tpc, tpages,
                   complete, errors, gather_exc>>

\* An operator flips DYNAMIC_RECEIPT_TRANSFER_ENABLED.
Toggle ==
    /\ toggles < MaxToggles
    /\ enabled' = ~enabled
    /\ toggles' = toggles + 1
    /\ UNCHANGED <<daemon, now, main, run_page, mpages, epoch, tpc, tpages, complete, crossed, errors, gather_exc>>

MainStep ==
    RunInLoop \/ RunOnce \/ MainCheck \/ MainTransfer \/ RunOnceReturns
    \/ Gather \/ GatherRaises \/ SleepDisabled

\* Once handle has raised, async_to_sync returns and no task runs again.
TaskStep(t) ==
    /\ main # "crashed"
    /\ \/ CatchUpCheck(t) \/ CatchUpTransfer(t)
       \/ KeepUpCheck(t) \/ KeepUpTransfer(t) \/ KeepUpSleep(t)

Next == MainStep \/ (\E t \in Tasks : TaskStep(t)) \/ Tick \/ Toggle

\* The event loop runs every ready coroutine in turn.
Fairness == WF_vars(MainStep) /\ \A t \in Tasks : WF_vars(TaskStep(t))

Spec == Init /\ [][Next]_vars /\ Fairness

(***************************************************************************)
(* Properties                                                              *)
(***************************************************************************)

TypeOK ==
    /\ daemon \in BOOLEAN
    /\ now \in InitPage..MaxPage
    /\ enabled \in BOOLEAN
    /\ toggles \in 0..MaxToggles
    /\ main \in MainPcs
    /\ run_page \in InitPage..MaxPage
    /\ mpages \in Seq(Pages)
    /\ epoch \in 0..MaxEpoch
    /\ tpc \in [Tasks -> TaskPcs]
    /\ tpages \in [Tasks -> Seq(Pages)]
    /\ complete \subseteq Pages
    /\ crossed \in BOOLEAN
    /\ errors \in 0..MaxErrors
    /\ gather_exc \in {"none", "disabled", "error"}

\* A page the live run will still pull whole: it waits in main's catch_up,
\* in the cold range that gather will hand over or that the catch_up task
\* has left, or in the active window keep_up polls next.
Pending(p) ==
    \/ main \in {"check", "transfer"}
       /\ p \in Range(mpages) \cup Range(ColdPages(run_page))
    \/ main = "gather" /\ p \in Range(tpages[Current("catch_up")])
    \/ crossed /\ p \in Range(ActivePages(now))

\* Daemon: while a run is alive, every page from the cutoff that has ended
\* is either complete or still to be pulled by this run.  It fails if the
\* initial sweep, the cold range and keep_up's window of run_in_loop and
\* keep_up leave a gap between them, or a poll misses a page's last part.
NoPageLeftBehind ==
    daemon /\ RunLive =>
        \A p \in CutoffPage..(now - 1) : p \in complete \/ Pending(p)

\* Daemon: once the kill switch stays on, every page from the cutoff that
\* ends is eventually pulled whole, across restarts of run_in_loop, as
\* long as the command runs.
PagesEventuallyComplete ==
    daemon /\ <>[]enabled /\ [](main # "crashed") =>
        \A p \in Pages : (p < now) ~> (p \in complete)

\* A loop that passes _throw_if_disabled goes on to transfer on the session
\* of a live run_in_loop; spec 4.6 runs exactly two loops after the sweep.
TransfersOnOpenSession ==
    [][\A t \in Tasks : (tpc[t] = "check" /\ tpc'[t] = "transfer")
                        => SessionOpen(t)]_vars

(* Daemon: spec 4.6 runs the two loops indefinitely, and spec 7 has a      *)
(* fatal error audited while the loop sleeps and retries; with --daemon,   *)
(* handle never ends, whatever an await of its loops raises.               *)
DaemonRunsOn == daemon => [](main # "crashed")

=============================================================================
