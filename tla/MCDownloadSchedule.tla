------------------------- MODULE MCDownloadSchedule -------------------------
(* DownloadSchedule on a small instance: one document cannot be parsed.     *)
EXTENDS DownloadSchedule

CONSTANTS w1, w2, op, doc1, doc2

=============================================================================
