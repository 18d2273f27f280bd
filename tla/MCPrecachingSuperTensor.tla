---------------------- MODULE MCPrecachingSuperTensor ----------------------
(* Model-checking instance of PrecachingSuperTensor: two worker threads   *)
(* and a look-ahead of one block.  MCKinds keeps the neuron and validator *)
(* kinds (a validators fallback read also stores neurons); the timestamp  *)
(* kind, whose fallback read stores nothing, has a run of its own.  The   *)
(* producer-process runs, where only the counters and the tasks matter,   *)
(* use one kind and two consumer threads; the fallback-read runs use one  *)
(* consumer thread and two kinds.                                          *)
EXTENDS PrecachingSuperTensor, TLC

CONSTANTS w1, w2, c1, c2

MCWorkers == {w1, w2}
MCConsumers == {c1, c2}
MCOneConsumer == {c1}
MCKinds == {"NEURONS", "VALIDATORS"}
MCOneKind == {"NEURONS"}
MCTimestampKinds == {"NEURONS", "BLOCK_TIMESTAMP"}
=============================================================================
