----------------------------- MODULE MCSifiveJobs -----------------------------
(***************************************************************************)
(* SifiveJobs with two host threads.  Both submit GEMM and MMVF jobs.      *)
(***************************************************************************)
EXTENDS SifiveJobs, TLC

CONSTANTS t1, t2

MCCalls == (t1 :> {<<"gemm", "cached">>, <<"mmvf", "mmvf">>})
           @@ (t2 :> {<<"gemm", "plain">>, <<"mmvf", "mmvf">>})
=============================================================================
