---------------------------- MODULE MCHashTrace ----------------------------
(***************************************************************************)
(* Accesses for TLC: address 16 with 4 and with 8 bytes, in the buckets 0  *)
(* and 1.                                                                 *)
(***************************************************************************)
EXTENDS HashTraceProps

Accs == {<<16, 4>>, <<16, 8>>}
=============================================================================
