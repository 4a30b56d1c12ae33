\* One capture or worker thread beside the watchdog, the main thread and a
\* request; one event of each kind, a post overtaken by the next, a restart.
SPECIFICATION Spec
CONSTANTS
  Recorders = {c1}
  Requests = {q1}
  Watchdog = dog
  Main = main
  MaxEvents = 1
  MaxMail = 2
  MaxRestarts = 1
INVARIANTS
  NeverOvercounts
