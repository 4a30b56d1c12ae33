----------------------------- MODULE MCAnalytics -----------------------------
\* Rows for the packet log and one for the training data, written by the engine and counted
\* by the web process.  An hourly bucket is two units wide and a week has two days.
EXTENDS Analytics, TLC

CONSTANTS r1, r2, r3

MCTableOf  == [r \in Rows |-> IF r = r3 THEN "training_data" ELSE "packet_logs"]
MCActor    == [r \in Rows |-> "source"]
MCRank     == ("payload" :> 0) @@ ("anomaly" :> 1) @@ ("reputation_ip_safe" :> 4)
MCReasons  == [r \in Rows |-> IF r = r1 THEN <<"reputation_ip_safe", "anomaly", "payload">>
                                      ELSE <<"anomaly">>]
MCWidth    == [hourly |-> 2, daily |-> 4, weekly |-> 8]
MCLookback == [hourly |-> 3, daily |-> 6, weekly |-> 8]
MCKeep     == [hourly |-> 5, daily |-> 7, weekly |-> 9]

\* One row over a time long enough for every retention when anything fails, and with
\* runs out of turn; two rows that nothing happens to; three rows at one moment.
MCBounds ==
  {[rows |-> {r1}, until |-> 8, late |-> 0, extra |-> 0, faults |-> TRUE],
   [rows |-> {r1}, until |-> 8, late |-> 1, extra |-> 1, faults |-> FALSE],
   [rows |-> {r1, r2}, until |-> 9, late |-> 0, extra |-> 0, faults |-> FALSE],
   [rows |-> {r1, r2, r3}, until |-> 0, late |-> 0, extra |-> 0, faults |-> TRUE]}
=============================================================================
