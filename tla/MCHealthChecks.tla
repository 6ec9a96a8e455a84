--------------------------- MODULE MCHealthChecks ---------------------------
EXTENDS HealthChecks

CONSTANTS p1, p2, db, custom

\* Two probes at a time; the database's checker passes its context on, one that a
\* service has written does not look at it.
MCProbes == {p1, p2}
MCChecks == {db, custom}
MCObedient == {db}
=============================================================================
