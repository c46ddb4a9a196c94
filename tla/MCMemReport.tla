---------------------------- MODULE MCMemReport ----------------------------
(* The TLC instance of MemReport: a chain c1 -> c2 -> null_context, a      *)
(* context c3 allocated while null tracking was off (parent NULL), and     *)
(* the null context itself.                                                *)
EXTENDS MemReportProofs, TLC

CONSTANTS c1, c2, c3, nullctx

MCCtxs == {c1, c2, c3, nullctx}

MCParent == (c1 :> c2 @@ c2 :> nullctx @@ c3 :> NULL @@ nullctx :> NULL)
=============================================================================
