-------------------------- MODULE MCOrganicJobDriver --------------------------
(***************************************************************************)
(* The worlds the driver runs are checked in.                              *)
(***************************************************************************)
EXTENDS OrganicJobDriver

\* A library that writes the receipt before the miner answers and reports a
\* late VolumesReady as STREAMING_JOB_READY_TIMED_OUT, on a database that
\* works: the one world in which the driver has a branch for every outcome.
ReceiptFirstWorld ==
    [receipt_at_initial_request |-> TRUE,
     volume_stage_timeouts |-> {"STREAMING_JOB_READY_TIMED_OUT"},
     store_failures |-> FALSE]

\* The library as spec 4.5 and the tests describe it, on a database and a
\* channel whose awaits may raise.
SpecOrderWorld ==
    [receipt_at_initial_request |-> FALSE,
     volume_stage_timeouts |-> {"STREAMING_JOB_READY_TIMED_OUT", "VOLUMES_TIMED_OUT"},
     store_failures |-> TRUE]

\* The spec's library, on a database that works.
SpecLibraryWorld ==
    [receipt_at_initial_request |-> FALSE,
     volume_stage_timeouts |-> {"VOLUMES_TIMED_OUT"},
     store_failures |-> FALSE]

MCWorlds == {ReceiptFirstWorld, SpecOrderWorld}
MCSpecLibraryWorlds == {SpecLibraryWorld}

=============================================================================
