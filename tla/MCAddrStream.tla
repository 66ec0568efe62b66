---------------------------- MODULE MCAddrStream ----------------------------
(***************************************************************************)
(* AddrStream with three buffers of one header and two accesses.           *)
(***************************************************************************)
EXTENDS AddrStreamProps

CONSTANTS a, b

MCAccesses == {a, b}

\* A buffer that looks like one an earlier run has cancelled with
MCGarbage == {[flag |-> Cancel, iter |-> 7, end |-> 3, items |-> <<b, b>>]}

=============================================================================
