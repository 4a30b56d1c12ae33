---------------------------- MODULE MCTelemetry -----------------------------
\* Telemetry on small instances; the cfg files give the constants.
EXTENDS Telemetry
=============================================================================
