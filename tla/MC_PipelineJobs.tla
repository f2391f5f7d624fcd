-------------------------- MODULE MC_PipelineJobs --------------------------
\* PipelineJobs on a small instance: two workbooks of the same name in different folders,
\* one with two sheets, the other with one of them, so that tables and error files may
\* clash; one job over both folders, and one over the second.
EXTENDS PipelineJobs

CONSTANTS j1, j2, a, b, book

TwoJobs   == {j1, j2}
Folders   == (j1 :> {1, 2}) @@ (j2 :> {2})
Workbooks == <<<<a, b>>, <<a>>>>
Inserts   == (a :> 1) @@ (b :> 2)
FirstFile == {1}
BaseNames == <<book, book>>
=============================================================================
