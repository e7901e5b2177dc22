----------------------------- MODULE MCLiveScan -----------------------------
(***************************************************************************)
(* Instance of LiveScan for TLC: two groups; the bounds are in the cfg.    *)
(***************************************************************************)
EXTENDS LiveScan

CONSTANTS g1, g2

\* The groups differ only by their names: the first one is selected at first.
MCInit == Init /\ group = g1
MCSpec == MCInit /\ [][Next]_vars /\ Fairness
=============================================================================
