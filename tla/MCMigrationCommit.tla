------------------------- MODULE MCMigrationCommit -------------------------
EXTENDS MigrationCommit

\* Five faults: enough for late requests to commit behind failed
\* attempts, followed by 5xx answers and lost answers.
MCMaxFaults == 5

=============================================================================
