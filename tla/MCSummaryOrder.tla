--------------------------- MODULE MCSummaryOrder ---------------------------
(* Every call graph of a few functions, self calls included.               *)
EXTENDS SummaryOrder
=============================================================================
