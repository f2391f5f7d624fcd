--------------------------- MODULE TableSchedule ---------------------------
(***************************************************************************)
(* What the CDC loop and main owe every table: after a start one chunked   *)
(* pass per table, all of them over before the first incremental pass; then*)
(* incremental passes one table at a time; and ClickHouse stays open under *)
(* the loop until it has left.  CdcManager implements this for all its     *)
(* tables, and CdcTable assumes no more than this of its one table.        *)
(***************************************************************************)

CONSTANT Tables

VARIABLES proc,   \* "down", "running", "stopping", "closed"
          pass    \* per table: "none", "chunk", "wait", "incr"

schedVars == <<proc, pass>>

All(p) == \A t \in Tables : pass[t] = p

SchedInit == proc = "down" /\ All("none")

\* A start runs the loop over all tables, or not at all.
Launch == /\ proc = "down" /\ proc' = "running"
          /\ \/ pass' \in [Tables -> {"chunk", "wait"}]
             \/ UNCHANGED pass

EndChunks == \E S \in SUBSET Tables :
  /\ \A t \in S : pass[t] = "chunk"
  /\ pass' = [t \in Tables |-> IF t \in S THEN "wait" ELSE pass[t]]
  /\ UNCHANGED proc

BeginIncremental == All("wait") /\ UNCHANGED proc
                    /\ \E t \in Tables : pass' = [pass EXCEPT ![t] = "incr"]

EndIncremental == \E t \in Tables : pass[t] = "incr" /\ pass' = [pass EXCEPT ![t] = "wait"]
                                    /\ UNCHANGED proc

Leave == proc = "stopping" /\ All("wait") /\ pass' = [t \in Tables |-> "none"] /\ UNCHANGED proc

Halt  == proc = "running" /\ proc' = "stopping" /\ UNCHANGED pass
Close == proc = "stopping" /\ All("none") /\ proc' = "closed" /\ UNCHANGED pass
Die   == proc' = "down" /\ pass' = [t \in Tables |-> "none"]

SchedNext == Launch \/ EndChunks \/ BeginIncremental \/ EndIncremental \/ Leave
             \/ Halt \/ Close \/ Die

SchedSpec == SchedInit /\ [][SchedNext]_schedVars
=============================================================================
