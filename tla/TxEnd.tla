------------------------------- MODULE TxEnd -------------------------------
(***************************************************************************)
(* How the knob db-tx-end and the header Prefer: tx= decide the end of one *)
(* request unit (internal/config/txend.go).                                *)
(***************************************************************************)

\* The values of the knob, and of Prefer: tx= after parsing ("" when absent).
TxEndModes == {"commit", "commit-allow-override",
               "rollback", "rollback-allow-override"}
TxPrefers == {"", "commit", "rollback"}

OverrideModes == {"commit-allow-override", "rollback-allow-override"}

\* config.DecideTxEnd, first result: the unit ends with COMMIT.
DecideCommit(mode, prefer) ==
    CASE mode = "rollback"                -> FALSE
      [] mode = "commit-allow-override"   -> prefer # "rollback"
      [] mode = "rollback-allow-override" -> prefer = "commit"
      [] OTHER                            -> TRUE

\* config.DecideTxEnd, second result: Prefer: tx= chose the end, so the
\* response may carry it in Preference-Applied.
DecideApplied(mode, prefer) ==
    mode \in OverrideModes /\ prefer \in {"commit", "rollback"}
=============================================================================
