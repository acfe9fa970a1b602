--------------------------- MODULE MCAuditJournal ---------------------------
(* The audit journal with two kernel contexts that open one path.           *)
EXTENDS AuditJournal
=============================================================================
