--------------------------- MODULE MC_KeysetPages ---------------------------
\* KeysetPages on a small instance: a key of one column, and a composite one whose first
\* column is the same in the first two rows.
EXTENDS KeysetPages

KeyColumns == {<<1, 2, 3, 4>>, <<1, 1, 2, 3>>}
=============================================================================
