--------------------------- MODULE MCOutputUploader ---------------------------
(***************************************************************************)
(* Model values for the upload() calls running on one event loop.          *)
(***************************************************************************)
EXTENDS OutputUploader

CONSTANTS z1, z2, m1

MCZipCallers == {z1, z2}
MCOneZipCaller == {z1}
MCMultiCallers == {m1}

=============================================================================
