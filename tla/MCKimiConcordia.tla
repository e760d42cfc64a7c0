---------------------------- MODULE MCKimiConcordia ----------------------------
(***************************************************************************)
(* KimiConcordia with two buffers, one of them used by kernels of two      *)
(* kinds.                                                                  *)
(***************************************************************************)
EXTENDS KimiConcordia, TLC

CONSTANTS b1, b2

MCKernelsOf == (b1 :> {"kv"}) @@ (b2 :> {"kv", "lora"})
=============================================================================
