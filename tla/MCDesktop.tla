------------------------------ MODULE MCDesktop ------------------------------
EXTENDS Desktop

CONSTANTS g1, g2, m1, m2, m3

\* All members are of one group, but for the third.
MCHome == [m \in Members |-> IF m = m3 THEN g2 ELSE g1]

\* Dialogs that are open at the start are of the first group.
MCInit == Init /\ (form.open \/ ~Uncovered \/ page.group # None => groups = Groups /\ current = g1)

MCSpec == MCInit /\ [][Next]_desktopVars

MCSymmetry == Permutations({m1, m2})

================================================================================
