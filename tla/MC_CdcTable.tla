---------------------------- MODULE MC_CdcTable ----------------------------
\* CdcTable on small instances: two goroutines at most, three or four keys.
EXTENDS CdcTable

CONSTANTS loop, pipeline    \* goroutines

OnePipeline == {pipeline}
NoPipeline  == {}
=============================================================================
