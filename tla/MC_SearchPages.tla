--------------------------- MODULE MC_SearchPages ---------------------------
\* SearchPages on a small instance: one table, two tables whose ids collide, and the id
\* of a table that the registry does not know.
EXTENDS SearchPages

CONSTANTS orders, items, notes

ThreeTables == {orders, items, notes}
SomeHomes   == <<{orders}, {orders}, {orders}, {items, notes}, {}>>
=============================================================================
