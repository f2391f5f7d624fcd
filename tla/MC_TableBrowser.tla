-------------------------- MODULE MC_TableBrowser --------------------------
\* TableBrowser on a small instance: a table of one page and a table of three.
EXTENDS TableBrowser

CONSTANTS short, long

TwoTables == {short, long}
PageCount == [t \in TwoTables |-> IF t = short THEN 1 ELSE 3]
=============================================================================
