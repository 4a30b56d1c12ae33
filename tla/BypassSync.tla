----------------------------- MODULE BypassSync -----------------------------
(***************************************************************************)
(* ssl_inspect/bypass.py: the SNI bypass rules of the database are brought *)
(* into the NAT chain by sync_iptables, which the interceptor's loop calls *)
(* every SSL_BYPASS_SYNC_SEC and the web server after each change of a     *)
(* rule.  The two are different processes: each has its own cache of the   *)
(* rules and its own _sync_lock; the chain and the database are shared.    *)
(***************************************************************************)
EXTENDS Naturals, FiniteSets

CONSTANTS
  Rules,        \* patterns an administrator may add
  Needles,      \* byte sequences the chain matches
  NeedleOf,     \* pattern -> needle: "*.a.com" and "a.com" have the same
  Processes,
  Web, Ssl,     \* the two of them
  Callers,      \* threads that call sync_iptables
  Home,         \* caller -> process
  MaxChanges,   \* bound of the model: changes of the rules
  MaxFailures   \* bound of the model: failed loads, queries, adds; restarts

ASSUME BypassAssumption ==
  /\ NeedleOf \in [Rules -> Needles]
  /\ Home \in [Callers -> Processes]
  /\ {Web, Ssl} \subseteq Processes
  /\ IsFiniteSet(Processes)
  /\ {MaxChanges, MaxFailures} \subseteq Nat

VARIABLES
  db,        \* enabled SNI rules
  cache,     \* _rules of each process
  fresh,     \* processes whose _last_refresh is younger than _REFRESH_INTERVAL
  chain,     \* copies of the RETURN rule of each needle
  holder,    \* _sync_lock of each process: the callers inside it
  at,        \* program counter of a caller
  toAdd, toDelete,  \* wanted - installed, installed - wanted: what is left of them
  changes, failures, misreads  \* counts; misreads are failed queries of the chain

cacheVars == <<cache, fresh>>
callVars  == <<holder, at, toAdd, toDelete>>
counts    == <<changes, failures, misreads>>
vars      == <<db, cacheVars, chain, callVars, counts>>

-----------------------------------------------------------------------------
NeedlesOf(rules) == {NeedleOf[r] : r \in rules}
Installed == {n \in Needles : chain[n] > 0}
Inside == {"query", "add", "delete"}

TypeOK ==
  /\ db \in SUBSET Rules
  /\ cache \in [Processes -> SUBSET Rules]
  /\ fresh \in SUBSET Processes
  /\ chain \in [Needles -> Nat]
  /\ holder \in [Processes -> SUBSET Callers]
  /\ at \in [Callers -> {"idle", "sync"} \cup Inside]
  /\ toAdd \in [Callers -> SUBSET Needles]
  /\ toDelete \in [Callers -> SUBSET Needles]
  /\ changes \in 0 .. MaxChanges
  /\ failures \in 0 .. MaxFailures
  /\ misreads \in 0 .. failures

Init ==
  /\ db = {}
  /\ cache = [p \in Processes |-> {}] /\ fresh = {}
  /\ chain = [n \in Needles |-> 0]
  /\ holder = [p \in Processes |-> {}]
  /\ at = [c \in Callers |-> "idle"]
  /\ toAdd = [c \in Callers |-> {}] /\ toDelete = [c \in Callers |-> {}]
  /\ changes = 0 /\ failures = 0 /\ misreads = 0

Fail == failures < MaxFailures /\ failures' = failures + 1

-----------------------------------------------------------------------------
\* The web requests: commit the change, then synchronize.

ChangeRule(c, r) ==
  /\ Home[c] = Web /\ at[c] = "idle" /\ changes < MaxChanges
  /\ db' = IF r \in db THEN db \ {r} ELSE db \cup {r}
  /\ changes' = changes + 1
  /\ at' = [at EXCEPT ![c] = "sync"]
  /\ UNCHANGED <<cacheVars, chain, holder, toAdd, toDelete, failures, misreads>>

\* _iptables_sync_loop
LoopPass(c) ==
  /\ Home[c] = Ssl /\ at[c] = "idle"
  /\ at' = [at EXCEPT ![c] = "sync"]
  /\ UNCHANGED <<db, cacheVars, chain, holder, toAdd, toDelete, counts>>

\* Mutant: once loaded, the rules are never loaded again.
RefreshOnce(p) ==
  \/ /\ cache[p] # {} /\ UNCHANGED <<cacheVars, failures>>
  \/ /\ cache[p] = {}
     /\ fresh' = fresh \cup {p}
     /\ cache' = [cache EXCEPT ![p] = db] /\ UNCHANGED failures

\* refresh: the rules are loaded again when the cache is old; _load_rules turns
\* a database error into no rules at all.
Refresh(p) ==
  \/ p \in fresh /\ UNCHANGED <<cacheVars, failures>>
  \/ /\ p \notin fresh
     /\ fresh' = fresh \cup {p}
     /\ \/ cache' = [cache EXCEPT ![p] = db] /\ UNCHANGED failures
        \/ cache' = [cache EXCEPT ![p] = {}] /\ Fail

\* iptables_status, the read-only page, shares the cache of the web server.
StatusPage ==
  /\ Refresh(Web)
  /\ UNCHANGED <<db, chain, callVars, changes, misreads>>

CacheAges(p) ==
  /\ p \in fresh
  /\ fresh' = fresh \ {p}
  /\ UNCHANGED <<db, cache, chain, callVars, counts>>

-----------------------------------------------------------------------------
\* sync_iptables

\* Mutant: no lock.
EnterUnlocked(c) ==
  /\ at[c] = "sync"
  /\ holder' = [holder EXCEPT ![Home[c]] = @ \cup {c}]
  /\ Refresh(Home[c])
  /\ toAdd' = [toAdd EXCEPT ![c] = NeedlesOf(cache'[Home[c]])]
  /\ at' = [at EXCEPT ![c] = "query"]
  /\ UNCHANGED <<db, chain, toDelete, changes, misreads>>

\* _sync_lock is taken and wanted computed.
Enter(c) ==
  /\ at[c] = "sync" /\ holder[Home[c]] = {}
  /\ holder' = [holder EXCEPT ![Home[c]] = {c}]
  /\ Refresh(Home[c])
  /\ toAdd' = [toAdd EXCEPT ![c] = NeedlesOf(cache'[Home[c]])]
  /\ at' = [at EXCEPT ![c] = "query"]
  /\ UNCHANGED <<db, chain, toDelete, changes, misreads>>

\* _installed_needles: the set of needles in the chain, or nothing on an error.
Query(c) ==
  /\ at[c] = "query"
  /\ \/ /\ toAdd' = [toAdd EXCEPT ![c] = @ \ Installed]
        /\ toDelete' = [toDelete EXCEPT ![c] = Installed \ toAdd[c]]
        /\ UNCHANGED <<failures, misreads>>
     \/ /\ Fail /\ misreads' = misreads + 1
        /\ UNCHANGED <<toAdd, toDelete>>
  /\ at' = [at EXCEPT ![c] = "add"]
  /\ UNCHANGED <<db, cacheVars, chain, holder, changes>>

\* _iptables_add inserts a copy whatever the chain holds; an error is logged.
Add(c, n) ==
  /\ at[c] = "add" /\ n \in toAdd[c]
  /\ toAdd' = [toAdd EXCEPT ![c] = @ \ {n}]
  /\ \/ chain' = [chain EXCEPT ![n] = @ + 1] /\ UNCHANGED failures
     \/ Fail /\ UNCHANGED chain
  /\ UNCHANGED <<db, cacheVars, holder, at, toDelete, changes, misreads>>

AddsDone(c) ==
  /\ at[c] = "add" /\ toAdd[c] = {}
  /\ at' = [at EXCEPT ![c] = "delete"]
  /\ UNCHANGED <<db, cacheVars, chain, holder, toAdd, toDelete, counts>>

\* _iptables_delete removes one copy; there may be none any more, or the call fails
\* (check=False), and nobody sees it.
Delete(c, n) ==
  /\ at[c] = "delete" /\ n \in toDelete[c]
  /\ toDelete' = [toDelete EXCEPT ![c] = @ \ {n}]
  /\ \/ chain' = [chain EXCEPT ![n] = IF @ > 0 THEN @ - 1 ELSE 0] /\ UNCHANGED failures
     \/ Fail /\ UNCHANGED chain
  /\ UNCHANGED <<db, cacheVars, holder, at, toAdd, changes, misreads>>

Leave(c) ==
  /\ at[c] = "delete" /\ toDelete[c] = {}
  /\ at' = [at EXCEPT ![c] = "idle"]
  /\ holder' = [holder EXCEPT ![Home[c]] = @ \ {c}]
  /\ UNCHANGED <<db, cacheVars, chain, toAdd, toDelete, counts>>

\* A process is killed and started again; the chain stays as it is.
Restart(p) ==
  /\ Fail
  /\ cache' = [cache EXCEPT ![p] = {}] /\ fresh' = fresh \ {p}
  /\ holder' = [holder EXCEPT ![p] = {}]
  /\ at' = [c \in Callers |-> IF Home[c] = p THEN "idle" ELSE at[c]]
  /\ toAdd' = [c \in Callers |-> IF Home[c] = p THEN {} ELSE toAdd[c]]
  /\ toDelete' = [c \in Callers |-> IF Home[c] = p THEN {} ELSE toDelete[c]]
  /\ UNCHANGED <<db, chain, changes, misreads>>

-----------------------------------------------------------------------------
SyncStep(c) == \/ Enter(c) \/ Query(c) \/ AddsDone(c) \/ Leave(c)
               \/ \E n \in Needles : Add(c, n) \/ Delete(c, n)

Next ==
  \/ \E c \in Callers : SyncStep(c) \/ LoopPass(c) \/ \E r \in Rules : ChangeRule(c, r)
  \/ \E p \in Processes : CacheAges(p) \/ Restart(p)
  \/ StatusPage

\* Threads are scheduled and a lock that is free again and again is obtained;
\* the loop of the interceptor wakes up; time passes.
Fairness ==
  /\ \A c \in Callers : SF_vars(SyncStep(c)) /\ WF_vars(LoopPass(c))
  /\ \A p \in Processes : WF_vars(CacheAges(p))

Spec     == Init /\ [][Next]_vars
FairSpec == Spec /\ Fairness

-----------------------------------------------------------------------------
\* Properties

\* The lock of each process keeps its threads from inserting a needle twice:
\* there are never more copies than processes, one more for each failed query.
DuplicatesBounded ==
  \A n \in Needles : chain[n] <= Cardinality(Processes) + misreads

\* Reconciliation converges: when the rules change no more and the calls stop
\* failing, the chain ends up with the needles of the database and no other,
\* whatever interleaving, stale cache or restart came before.
Converges == <>[](Installed = NeedlesOf(db))

\* "Without it, two callers could both observe a needle as missing and both insert
\* a RETURN rule, leaving a permanent duplicate in the chain" (ssl_inspect/bypass.py
\* :316): with the lock, no duplicate as long as no query fails.
\* This is not so: the lock is of one process, and TLC finds two processes that both add.
NoDuplicate == misreads = 0 => \A n \in Needles : chain[n] <= 1
=============================================================================
