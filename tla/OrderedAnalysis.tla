--------------------------- MODULE OrderedAnalysis ---------------------------
(***************************************************************************)
(* What the pipeline promises: the iterations come in any order, each is   *)
(* analysed once, after it has come and after all before it, and the       *)
(* signal that the work is finished is given after all have come, and      *)
(* after the analysis of those that cannot be waiting for one of another   *)
(* process.                                                                *)
(***************************************************************************)
EXTENDS Naturals

CONSTANT N          \* iterations

VARIABLES
  ownFirst,         \* the iterations of the master before any of another process
  sent,             \* the iterations that have come
  done,             \* how many are analysed
  finished

Init ==
  /\ ownFirst \in {1 .. n : n \in 0 .. N}
  /\ sent = {} /\ done = 0 /\ finished = FALSE

Send ==
  /\ \E i \in (1 .. N) \ sent : sent' = sent \cup {i}
  /\ UNCHANGED <<ownFirst, done, finished>>

Analyse ==
  /\ done + 1 \in sent
  /\ done' = done + 1
  /\ UNCHANGED <<ownFirst, sent, finished>>

Finish ==
  /\ sent = 1 .. N /\ ownFirst \subseteq 1 .. done
  /\ finished' = TRUE
  /\ UNCHANGED <<ownFirst, sent, done>>

Next == Send \/ Analyse \/ Finish

Spec == Init /\ [][Next]_<<ownFirst, sent, done, finished>>
=============================================================================
