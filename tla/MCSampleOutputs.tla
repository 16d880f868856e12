--------------------------- MODULE MCSampleOutputs ---------------------------
(***************************************************************************)
(* An instance of SampleOutputs: one output of each kind, all of them      *)
(* receiving the raw samples.                                              *)
(***************************************************************************)
EXTENDS SampleOutputs, TLC

CONSTANTS cl, mc, sv, raw

Kinds == (cl :> "client") @@ (mc :> "mcrequest") @@ (sv :> "server")
Sources == (cl :> raw) @@ (mc :> raw) @@ (sv :> raw)
=============================================================================
