--------------------------- MODULE MCStateMonitor ---------------------------
(* Model checking of StateMonitor on small instances.                      *)
EXTENDS StateMonitor
CONSTANTS s1, s2, c1, c2

OneSid == {s1}
TwoSids == {s1, s2}
OneContext == {c1}
TwoContexts == {c1, c2}
FromZero == {0}
FromZeroOrOne == {0, 1}

\* Bound: log changes. States with one change more are checked but not followed.
FewLogChanges == \A c \in Contexts : log[c].guid + log[c].len <= 2
=============================================================================
