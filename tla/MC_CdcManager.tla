--------------------------- MODULE MC_CdcManager ---------------------------
\* CdcManager on small instances: three tables, two callers.
EXTENDS CdcManager, TLC

CONSTANTS users, orders, loaded,    \* tables
          pipeline, operator        \* goroutines

Pipeline  == {pipeline}
AllTables == {users, orders, loaded}
TwoTables == {orders, loaded}
Both      == {pipeline, operator}
CallerSymmetry == Permutations(Both)
=============================================================================
