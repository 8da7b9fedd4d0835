------------------------- MODULE MCEbicsTransaction -------------------------
(* EbicsTransaction on small instances: its constants are in the .cfg.      *)
EXTENDS EbicsTransaction

=============================================================================
