------------------------------ MODULE AuditFeed ------------------------------
(***************************************************************************)
(* The audit trail and its way to the browser: storage/audit.py writes a   *)
(* row and broadcasts it (ids/websocket_updates.py), ids_sensor_update     *)
(* broadcasts counters on the same listeners, sse_stream delivers them,    *)
(* and static/js/audit.js shows a page of rows, loads the next one with a  *)
(* cursor and puts the rows that arrive live on top of the first page.     *)
(* The log search of static/js/dashboard.js pages by time alone.  Nothing  *)
(* keeps the user from a second click while a page loads: the answers may  *)
(* come in any order, or not at all.                                       *)
(***************************************************************************)
EXTENDS Naturals, Sequences, FiniteSets, SequencesExt

CONSTANTS
  Writers,  \* requests that write an audit row; a row is named by its writer
  Posts,    \* telemetry requests, which broadcast counters
  Pages,    \* browser pages: "audit" pages follow the stream, "logs" pages do not
  KindOf,   \* which of the two each page is
  QueueCap, \* maxsize of a listener's queue
  PageSize,
  Bounds    \* bounds of a behaviour: its senders and pages, the clock, the streams opened,
            \* the loads under way at once and the length of the cursor stack

ASSUME FeedAssumption ==
  /\ {PageSize, QueueCap} \subseteq Nat \ {0} /\ IsFiniteSet(Writers)
  /\ Bounds \subseteq [senders : SUBSET (Writers \cup Posts), pages : SUBSET Pages,
                     until : Nat, streams : Nat, flight : Nat, depth : Nat]
  /\ KindOf \in [Pages -> {"audit", "logs"}]
  /\ Writers \cap Posts = {}

Senders == Writers \cup Posts

VARIABLES
  now,
  step,    \* what each sender is about to do
  ts, id,  \* of each row
  copied,  \* the listeners a sender copied (history)
  todo,    \* those of them still to be served
  dead,    \* listeners a sender found full
  listed,  \* _listeners: the page and its how-manyeth stream
  queue,   \* of the newest listener of each page
  stream,  \* how often each page opened or closed its stream
  got,     \* what the stream of a page delivered (history)
  missed,  \* what its queue had no room for (history)
  table,   \* lastRows of each page
  stack,   \* cursorStack up to cursorIndex; a cursor is the one row it points to, or none
           \* for the first page
  loads,   \* requests of each page under way, numbered; one that was answered has its
           \* rows and, as history, all that were committed
  page,    \* what each page last rendered: the cursor (history) and the rows, whose last
           \* is the cursor of the Next button, and whether Previous was enabled; `ok` is
           \* FALSE when there is none or a failure emptied it
  base,    \* rows committed when the first page was last read by itself (history)
  shown,   \* rows that were rendered since (history)
  bound    \* the bounds of this behaviour

server == <<bound, now, step, ts, id, copied, todo, dead>>
feed   == <<listed, queue, stream, got, missed>>
client == <<table, stack, loads, page, base, shown>>
feedVars == <<server, feed, client>>

Committed   == {r \in Writers : step[r] \in {"copy", "put", "done"}}
Open(p)     == stream[p] % 2 = 1
Listener(p) == <<p, stream[p]>>
Asked(n, c) == [n |-> n, cursor |-> c, rows |-> {}, had |-> {}, answered |-> FALSE]
NoPage(b)   == [cursor |-> {}, rows |-> {}, back |-> b, ok |-> FALSE]

FeedInit ==
  /\ now = 0 /\ bound \in Bounds
  /\ step = [s \in Senders |-> IF s \in Posts THEN "copy" ELSE "begin"]
  /\ ts = [r \in Writers |-> 0] /\ id = [r \in Writers |-> 0]
  /\ copied = [s \in Senders |-> {}]
  /\ todo = copied /\ dead = [s \in Senders |-> {}]
  /\ listed = {} /\ queue = [p \in Pages |-> <<>>] /\ stream = [p \in Pages |-> 0]
  /\ got = [p \in Pages |-> {}] /\ missed = [p \in Pages |-> {}]
  /\ table = [p \in Pages |-> {}] /\ stack = [p \in Pages |-> <<{}>>]
  /\ loads = [p \in Pages |-> IF KindOf[p] = "audit" THEN {Asked(1, {})} ELSE {}]
  /\ page = [p \in Pages |-> NoPage(FALSE)]
  /\ base = [p \in Pages |-> {}] /\ shown = [p \in Pages |-> {}]

Tick == now < bound.until /\ now' = now + 1
        /\ UNCHANGED <<bound, step, ts, id, copied, todo, dead, feed, client>>

-----------------------------------------------------------------------------
\* audit: the time is taken, the row is inserted, then committed or given up.

Begin(r) ==
  /\ step[r] = "begin" /\ step' = [step EXCEPT ![r] = "insert"]
  /\ ts' = [ts EXCEPT ![r] = now]
  /\ UNCHANGED <<bound, now, id, copied, todo, dead, feed, client>>

Insert(r) ==
  /\ step[r] = "insert" /\ step' = [step EXCEPT ![r] = "commit"]
  /\ id' = [id EXCEPT ![r] = 1 + Cardinality({q \in Writers : id[q] > 0})]
  /\ UNCHANGED <<bound, now, ts, copied, todo, dead, feed, client>>

Commit(r) ==
  /\ step[r] = "commit" /\ step' = [step EXCEPT ![r] = "copy"]
  /\ UNCHANGED <<bound, now, ts, id, copied, todo, dead, feed, client>>

\* An error of the database is logged, and nothing is broadcast.
Fail(r) ==
  /\ step[r] \in {"insert", "commit"} /\ step' = [step EXCEPT ![r] = "failed"]
  /\ UNCHANGED <<bound, now, ts, id, copied, todo, dead, feed, client>>

-----------------------------------------------------------------------------
\* broadcast: a copy of the list, one put after the other, then the full ones are removed.

Copy(s) ==
  /\ step[s] = "copy" /\ step' = [step EXCEPT ![s] = "put"]
  /\ copied' = [copied EXCEPT ![s] = listed] /\ todo' = [todo EXCEPT ![s] = listed]
  /\ UNCHANGED <<bound, now, ts, id, dead, feed, client>>

\* Mutant: a full queue gives up its oldest message.
PutShift(s, l) ==
  /\ step[s] = "put" /\ l \in todo[s]
  /\ todo' = [todo EXCEPT ![s] = @ \ {l}]
  /\ IF l # Listener(l[1]) THEN UNCHANGED queue
     ELSE queue' = [queue EXCEPT ![l[1]] = IF Len(@) < QueueCap THEN Append(@, s)
                                                                ELSE Append(Tail(@), s)]
  /\ UNCHANGED <<bound, now, step, ts, id, copied, dead, listed, stream, got, missed, client>>

\* put_nowait on the queue of a listener, whose stream may have ended meanwhile.
Put(s, l) ==
  /\ step[s] = "put" /\ l \in todo[s]
  /\ todo' = [todo EXCEPT ![s] = @ \ {l}]
  /\ CASE l # Listener(l[1]) -> UNCHANGED <<queue, dead, missed>>
       [] l = Listener(l[1]) /\ Len(queue[l[1]]) < QueueCap ->
            queue' = [queue EXCEPT ![l[1]] = Append(@, s)] /\ UNCHANGED <<dead, missed>>
       [] OTHER -> /\ dead' = [dead EXCEPT ![s] = @ \cup {l}]
                   /\ missed' = [missed EXCEPT ![l[1]] = @ \cup {s}]
                   /\ UNCHANGED queue
  /\ UNCHANGED <<bound, now, step, ts, id, copied, listed, stream, got, client>>

Finish(s) ==
  /\ step[s] = "put" /\ todo[s] = {}
  /\ step' = [step EXCEPT ![s] = "done"]
  /\ listed' = listed \ dead[s]
  /\ UNCHANGED <<bound, now, ts, id, copied, todo, dead, queue, stream, got, missed, client>>

-----------------------------------------------------------------------------
\* sse_stream and the EventSource of the page

\* startLiveFeed, after the first page is shown or another of the opening calls failed,
\* and the browser's reconnection.
OpenStream(p) ==
  /\ KindOf[p] = "audit" /\ ~Open(p) /\ stream[p] < 2 * bound.streams
  /\ stream' = [stream EXCEPT ![p] = @ + 1]
  /\ listed' = listed \cup {<<p, stream[p] + 1>>}
  /\ queue' = [queue EXCEPT ![p] = <<>>]
  /\ got' = [got EXCEPT ![p] = {}] /\ missed' = [missed EXCEPT ![p] = {}]
  /\ UNCHANGED <<server, client>>

CloseStream(p) ==
  /\ Open(p) /\ stream' = [stream EXCEPT ![p] = @ + 1]
  /\ UNCHANGED <<server, listed, queue, got, missed, client>>

\* The generator is closed some time after the connection.
Unsubscribe(l) ==
  /\ l \in listed /\ l # Listener(l[1])
  /\ listed' = listed \ {l}
  /\ UNCHANGED <<server, queue, stream, got, missed, client>>

\* A message is delivered; prependLiveRow puts a row on top of the first page unless the
\* table has it.
Get(p) ==
  LET m == Head(queue[p])
  IN /\ Open(p) /\ queue[p] # <<>>
     /\ queue' = [queue EXCEPT ![p] = Tail(@)]
     /\ got' = [got EXCEPT ![p] = @ \cup {m}]
     /\ table' = IF m \in Writers /\ Len(stack[p]) = 1
                 THEN [table EXCEPT ![p] = @ \cup {m}] ELSE table
     /\ UNCHANGED <<server, listed, stream, missed, stack, loads, page, base, shown>>

-----------------------------------------------------------------------------
\* query_audit and query_logs

Newer(q, r) == ts[q] > ts[r] \/ (ts[q] = ts[r] /\ id[q] > id[r])

\* Mutant: the audit trail pages by time alone, like the log search.
BehindTime(p, cursor, r) == ts[r] < ts[cursor]

\* The rows behind a cursor, the last row of the page before.
Behind(p, cursor, r) == IF KindOf[p] = "audit" THEN Newer(cursor, r) ELSE ts[r] < ts[cursor]

\* The newest of the rows behind the cursor, as many as fit on a page.
PageAt(p, cursor) ==
  LET all == {r \in Committed : \A c \in cursor : Behind(p, c, r)}
  IN {r \in all : Cardinality({q \in all : Newer(q, r)}) < PageSize}

\* next_cursor: the last row of a page.
Oldest(rows) == {r \in rows : \A q \in rows \ {r} : Newer(q, r)}

\* loadEntries and runSearch ask for the page at the end of the stack.
Ask(p, pages) ==
  \E n \in 1 .. bound.flight :
    /\ {l \in loads[p] : l.n = n} = {}
    /\ stack' = [stack EXCEPT ![p] = pages]
    /\ loads' = [loads EXCEPT ![p] = @ \cup {Asked(n, Last(pages))}]
    /\ UNCHANGED <<server, feed, table, page, base, shown>>

\* First page, Apply, Reset, a preset or a new search.
LoadFirst(p) == Ask(p, <<{}>>)

\* The Next button pushes the cursor of the page last rendered.
LoadNext(p) ==
  /\ page[p].rows # {} /\ Len(stack[p]) < bound.depth
  /\ Ask(p, Append(stack[p], Oldest(page[p].rows)))

LoadPrevious(p) ==
  /\ page[p].back /\ Len(stack[p]) > 1
  /\ Ask(p, Front(stack[p]))

\* The server reads the page.
Answer(p, l) ==
  /\ l \in loads[p] /\ ~l.answered
  /\ loads' = [loads EXCEPT ![p] =
                 (@ \ {l}) \cup {[l EXCEPT !.rows = PageAt(p, l.cursor), !.had = Committed,
                                          !.answered = TRUE]}]
  /\ UNCHANGED <<server, feed, table, stack, page, base, shown>>

\* renderTable and renderPager, of whichever answer comes
Render(p, l) ==
  /\ l \in loads[p] /\ l.answered
  /\ loads' = [loads EXCEPT ![p] = @ \ {l}]
  /\ table' = [table EXCEPT ![p] = l.rows]
  /\ page' = [page EXCEPT ![p] = [cursor |-> l.cursor, rows |-> l.rows,
                                  back |-> Len(stack[p]) # 1, ok |-> TRUE]]
  /\ IF Len(stack[p]) = 1 /\ l.cursor = {} /\ loads[p] = {l}
     THEN base' = [base EXCEPT ![p] = l.had] /\ shown' = [shown EXCEPT ![p] = l.rows]
     ELSE UNCHANGED base /\ shown' = [shown EXCEPT ![p] = @ \cup l.rows]
  /\ UNCHANGED <<server, feed, stack>>

\* A request fails: the stack stays as the click left it.  The audit page shows a message;
\* the log search empties its table and its pager.
FailLoad(p, l) ==
  /\ l \in loads[p]
  /\ loads' = [loads EXCEPT ![p] = @ \ {l}]
  /\ IF KindOf[p] = "audit" THEN UNCHANGED <<table, page>>
     ELSE /\ table' = [table EXCEPT ![p] = {}]
          /\ page' = [page EXCEPT ![p] = NoPage(Len(stack[p]) # 1)]
  /\ UNCHANGED <<server, feed, stack, base, shown>>

FeedNext ==
  \/ Tick
  \/ \E r \in Writers \cap bound.senders : Begin(r) \/ Insert(r) \/ Commit(r) \/ Fail(r)
  \/ \E s \in bound.senders : Copy(s) \/ Finish(s) \/ \E l \in todo[s] : Put(s, l)
  \/ \E l \in listed : Unsubscribe(l)
  \/ \E p \in bound.pages :
       \/ OpenStream(p) \/ CloseStream(p) \/ Get(p)
       \/ LoadFirst(p) \/ LoadNext(p) \/ LoadPrevious(p)
       \/ \E l \in loads[p] : Answer(p, l) \/ Render(p, l) \/ FailLoad(p, l)

FeedSpec == FeedInit /\ [][FeedNext]_feedVars

-----------------------------------------------------------------------------
\* Properties

\* An administrator who comes to an empty page has been shown every row that was there
\* when the first page was last read with no other load under way: whatever rows are
\* written or committed late meanwhile, however pages are clicked while others load, and
\* whatever loads fail or overtake each other.  The log search leaves out no rows but those
\* with the time of a row it showed.
WalkComplete ==
  \A p \in Pages : page[p].ok /\ page[p].rows = {} =>
    \A r \in base[p] \ shown[p] : KindOf[p] = "logs" /\ \E c \in shown[p] : ts[c] = ts[r]

\* "Prepends rows when the analyst is looking at page 1 ... otherwise the row would appear
\* on a page it doesn't belong to" (static/js/audit.js:408): a row in the table that the
\* page rendered there did not bring is on a first page.
LiveOnFirstPage ==
  \A p \in Pages : table[p] \ page[p].rows # {} => page[p].cursor = {}

\* What a sender put for an open stream is delivered or in its queue, unless the queue
\* had no room; and a stream is taken off the list only then.
NoSilentLoss ==
  \A p \in Pages : Open(p) =>
    /\ \A s \in Senders : Listener(p) \in copied[s] \ todo[s] =>
         s \in got[p] \cup ToSet(queue[p]) \cup missed[p]
    /\ Listener(p) \notin listed => missed[p] # {}
=============================================================================
