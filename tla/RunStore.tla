------------------------------ MODULE RunStore ------------------------------
(***************************************************************************)
(* The SQLite evidence store (storage.py) shared by the console, the batch *)
(* agent and the command line, each a process that opens the file, adds    *)
(* what an older file lacks, appends events and may die at any point.      *)
(*                                                                         *)
(* SQLite is the environment: a statement outside a transaction reads what *)
(* is committed, one writer at a time holds the write lock, a transaction  *)
(* is visible when it commits and gone when its process dies.  A lock that *)
(* is not had within the timeout raises.                                   *)
(***************************************************************************)
EXTENDS Integers, Sequences, FiniteSets

CONSTANTS
    Proc,           \* processes that use the file
    Poller,         \* pages that follow a run's events
    Run, Data,
    Followed,       \* the run the pollers follow
    Legacy,         \* runs the file may hold from before events had hashes
    PageSize,       \* events in one answer (limit)
    MaxEvents       \* bound: no event is appended to a run of this length

ASSUME RunAssumption == Legacy \subseteq Run /\ Followed \in Run
ASSUME PageAssumption == PageSize \in 1..1000
ASSUME MaxEventsAssumption == MaxEvents \in Nat

VARIABLES
    runs, rows,     \* the tables, as committed
    columns,        \* columns the events table has beyond the oldest ones
    lock,           \* the process that holds the write lock, if any
    pc,             \* where a process is
    known, todo,    \* opening: the columns it found, the runs it has still to go through,
    scan, at,       \*   the events it read of the present one, its place in them (0: at none),
    fill,           \*   the rows it has updated and not committed
    draft,          \* the event a process is appending
    acked,          \* history: what append has returned to its callers
    seen            \* what each poller has collected

table   == <<runs, rows, columns>>
opening == <<known, todo, scan, at, fill>>
vars    == <<table, lock, pc, opening, draft, acked, seen>>

-----------------------------------------------------------------------------
Columns == {"previous_hash", "event_hash"}
Null    == <<>>                 \* NULL, and Python's None

\* _event_hash: collision-free, over everything of the event and its predecessor's hash.
Digest(r, seq, data, previous) == <<r, seq, data, previous>>

Row(seq, data, previous, hash) ==
    [seq |-> seq, data |-> data, previous |-> previous, hash |-> hash]

NoDraft == [run |-> Followed, event |-> Row(0, CHOOSE d \in Data : TRUE, Null, Null)]

NoPlace == [run |-> Followed, i |-> 0, previous |-> Null]

Opened(p) == pc[p] \in {"ready", "insert", "commit"}

\* The file is new, or was written before events had hashes.
Init ==
    /\ \/ /\ runs = {} /\ columns = Columns
          /\ rows = [r \in Run |-> <<>>]
       \/ /\ runs = Legacy /\ columns = {}
          /\ \E len \in [Legacy -> 0..MaxEvents], d \in Data :
               rows = [r \in Run |-> IF r \in Legacy
                         THEN [i \in 1..len[r] |-> Row(i - 1, d, Null, Null)] ELSE <<>>]
    /\ lock = {}
    /\ pc = [p \in Proc |-> "closed"]
    /\ known = [p \in Proc |-> {}] /\ todo = [p \in Proc |-> {}]
    /\ scan = [p \in Proc |-> <<>>] /\ fill = [p \in Proc |-> {}]
    /\ at = [p \in Proc |-> NoPlace]
    /\ draft = [p \in Proc |-> NoDraft]
    /\ acked = {}
    /\ seen = [c \in Poller |-> <<>>]

-----------------------------------------------------------------------------
(* RunStore(path): __init__ and _migrate_and_backfill                      *)

Connect(p) ==
    /\ pc[p] = "closed"
    /\ known' = [known EXCEPT ![p] = columns]
    /\ pc' = [pc EXCEPT ![p] = "previous_hash"]
    /\ UNCHANGED <<table, lock, todo, scan, at, fill, draft, acked, seen>>

\* ALTER TABLE commits by itself and raises when the column has appeared meanwhile.
AddColumn(p, column, next) ==
    /\ pc[p] = column
    /\ IF column \in known[p] THEN UNCHANGED columns
       ELSE /\ lock = {} /\ column \notin columns
            /\ columns' = columns \cup {column}
    /\ pc' = [pc EXCEPT ![p] = next]
    /\ UNCHANGED <<runs, rows, lock, opening, draft, acked, seen>>

ListRuns(p) ==
    /\ pc[p] = "list"
    /\ todo' = [todo EXCEPT ![p] = runs]
    /\ pc' = [pc EXCEPT ![p] = "backfill"]
    /\ UNCHANGED <<table, lock, known, scan, at, fill, draft, acked, seen>>

\* The place after i in n events.
Following(i, n) == IF i < n THEN i + 1 ELSE 0

\* Faulty variant of ReadRun: the previous hash is not reset for each run.
ReadRunCarrying(p, r) ==
    /\ pc[p] = "backfill" /\ at[p].i = 0 /\ r \in todo[p]
    /\ todo' = [todo EXCEPT ![p] = @ \ {r}]
    /\ scan' = [scan EXCEPT ![p] = rows[r]]
    /\ at' = [at EXCEPT ![p] = [@ EXCEPT !.run = r, !.i = Following(0, Len(rows[r]))]]
    /\ UNCHANGED <<table, lock, pc, known, fill, draft, acked, seen>>

ReadRun(p, r) ==
    /\ pc[p] = "backfill" /\ at[p].i = 0 /\ r \in todo[p]
    /\ todo' = [todo EXCEPT ![p] = @ \ {r}]
    /\ scan' = [scan EXCEPT ![p] = rows[r]]
    /\ at' = [at EXCEPT ![p] = [run |-> r, i |-> Following(0, Len(rows[r])), previous |-> Null]]
    /\ UNCHANGED <<table, lock, pc, known, fill, draft, acked, seen>>

\* One event of the run.  The first UPDATE takes the write lock until the commit and,
\* as every later one, leaves a row alone that another process has filled meanwhile.
Backfill(p) ==
    LET here     == at[p]
        row      == scan[p][here.i]
        previous == IF row.previous # Null THEN row.previous ELSE here.previous
        hash     == IF row.hash # Null THEN row.hash
                    ELSE Digest(here.run, row.seq, row.data, previous)
    IN  /\ pc[p] = "backfill" /\ here.i # 0
        /\ IF row.hash # Null THEN UNCHANGED <<lock, fill>>
           ELSE /\ lock \subseteq {p} /\ lock' = {p}
                /\ fill' = IF rows[here.run][here.i].hash # Null THEN fill
                           ELSE [fill EXCEPT ![p] = @ \cup
                                    {[run |-> here.run, i |-> here.i,
                                      previous |-> previous, hash |-> hash]}]
        /\ at' = [at EXCEPT ![p] = [run |-> here.run, i |-> Following(here.i, Len(scan[p])),
                                   previous |-> hash]]
        /\ UNCHANGED <<table, pc, known, todo, scan, draft, acked, seen>>

\* A row of the table with the update of f, COALESCE(previous_hash, ?).
Updated(row, f) ==
    Row(row.seq, row.data, IF row.previous # Null THEN row.previous ELSE f.previous, f.hash)

\* The locals of an opening end with it.
Forget(p) ==
    /\ known' = [known EXCEPT ![p] = {}] /\ todo' = [todo EXCEPT ![p] = {}]
    /\ scan' = [scan EXCEPT ![p] = <<>>] /\ fill' = [fill EXCEPT ![p] = {}]
    /\ at' = [at EXCEPT ![p] = NoPlace]

\* Faulty variant of FinishOpening: the events read are written back as they were read.
FinishOpeningRewriting(p) ==
    /\ pc[p] = "backfill" /\ at[p].i = 0 /\ todo[p] = {}
    /\ rows' = [rows EXCEPT ![at[p].run] = scan[p]]
    /\ lock' = lock \ {p}
    /\ Forget(p)
    /\ pc' = [pc EXCEPT ![p] = "ready"]
    /\ UNCHANGED <<runs, columns, draft, acked, seen>>

\* Faulty variant of FinishOpening: the transaction is left open.
FinishOpeningUncommitted(p) ==
    /\ pc[p] = "backfill" /\ at[p].i = 0 /\ todo[p] = {}
    /\ Forget(p)
    /\ pc' = [pc EXCEPT ![p] = "ready"]
    /\ UNCHANGED <<table, lock, draft, acked, seen>>

FinishOpening(p) ==
    /\ pc[p] = "backfill" /\ at[p].i = 0 /\ todo[p] = {}
    /\ rows' = [r \in Run |-> [i \in 1..Len(rows[r]) |->
                   IF \E f \in fill[p] : f.run = r /\ f.i = i
                   THEN Updated(rows[r][i], CHOOSE f \in fill[p] : f.run = r /\ f.i = i)
                   ELSE rows[r][i]]]
    /\ lock' = lock \ {p}
    /\ Forget(p)
    /\ pc' = [pc EXCEPT ![p] = "ready"]
    /\ UNCHANGED <<runs, columns, draft, acked, seen>>

\* The process dies, or its opening raises (a column added by another, a lock not had):
\* whatever it has not committed is gone.
Stop(p) ==
    /\ pc[p] # "closed"
    /\ pc' = [pc EXCEPT ![p] = "closed"]
    /\ lock' = lock \ {p}
    /\ Forget(p)
    /\ draft' = [draft EXCEPT ![p] = NoDraft]
    /\ UNCHANGED <<table, acked, seen>>

-----------------------------------------------------------------------------
(* create_run and append                                                   *)

CreateRun(p, r) ==
    /\ pc[p] = "ready" /\ lock = {} /\ r \notin runs
    /\ runs' = runs \cup {r}
    /\ UNCHANGED <<rows, columns, lock, pc, opening, draft, acked, seen>>

\* BEGIN IMMEDIATE: the write lock before anything is read.
Begin(p, r, d) ==
    /\ pc[p] = "ready" /\ lock = {}
    /\ r \in runs /\ Len(rows[r]) < MaxEvents
    /\ lock' = {p}
    /\ draft' = [draft EXCEPT ![p] = [run |-> r, event |-> Row(0, d, Null, Null)]]
    /\ pc' = [pc EXCEPT ![p] = "insert"]
    /\ UNCHANGED <<table, opening, acked, seen>>

\* The last event gives the sequence and the previous hash of the next.
Insert(p) ==
    LET r == draft[p].run   n == Len(rows[r])   d == draft[p].event.data
        sequence == IF n = 0 THEN 0 ELSE rows[r][n].seq + 1
        previous == IF n = 0 THEN Null ELSE rows[r][n].hash
    IN  /\ pc[p] = "insert"
        /\ draft' = [draft EXCEPT ![p] =
               [run |-> r, event |-> Row(sequence, d, previous, Digest(r, sequence, d, previous))]]
        /\ pc' = [pc EXCEPT ![p] = "commit"]
        /\ UNCHANGED <<table, lock, opening, acked, seen>>

\* UNIQUE(run_id, sequence) refuses a sequence the run has; else append returns it.
Commit(p) ==
    LET r == draft[p].run   event == draft[p].event
    IN  /\ pc[p] = "commit"
        /\ \A i \in 1..Len(rows[r]) : rows[r][i].seq # event.seq
        /\ rows' = [rows EXCEPT ![r] = Append(@, event)]
        /\ acked' = acked \cup {[run |-> r, event |-> event]}
        /\ lock' = lock \ {p}
        /\ draft' = [draft EXCEPT ![p] = NoDraft]
        /\ pc' = [pc EXCEPT ![p] = "ready"]
        /\ UNCHANGED <<runs, columns, opening, seen>>

\* Faulty variant of Abandon: the caller is told the sequence all the same.
AbandonSilently(p) ==
    /\ pc[p] \in {"insert", "commit"}
    /\ lock' = lock \ {p}
    /\ acked' = acked \cup {draft[p]}
    /\ draft' = [draft EXCEPT ![p] = NoDraft]
    /\ pc' = [pc EXCEPT ![p] = "ready"]
    /\ UNCHANGED <<table, opening, seen>>

\* The append raises (disk, constraint): closing the connection rolls it back.
Abandon(p) ==
    /\ pc[p] \in {"insert", "commit"}
    /\ lock' = lock \ {p}
    /\ draft' = [draft EXCEPT ![p] = NoDraft]
    /\ pc' = [pc EXCEPT ![p] = "ready"]
    /\ UNCHANGED <<table, opening, acked, seen>>

-----------------------------------------------------------------------------
(* events_after, as the page follows a run with it through the console     *)

\* The page's cursor: next_after_sequence of the last answer.
Cursor(c) == IF seen[c] = <<>> THEN -1 ELSE seen[c][Len(seen[c])].seq

\* SELECT ... WHERE sequence > ? ORDER BY sequence LIMIT ?
After(r, sequence, limit) ==
    LET later == {i \in 1..Len(rows[r]) : rows[r][i].seq > sequence}
        Before(i) == {j \in later : rows[r][j].seq < rows[r][i].seq}
        found == Cardinality(later)
    IN  [k \in 1..(IF found < limit THEN found ELSE limit) |->
            rows[r][CHOOSE i \in later : Cardinality(Before(i)) = k - 1]]

Poll(c) ==
    /\ \E p \in Proc : Opened(p)
    /\ Followed \in runs
    /\ seen' = [seen EXCEPT ![c] = @ \o After(Followed, Cursor(c), PageSize)]
    /\ UNCHANGED <<table, lock, pc, opening, draft, acked>>

-----------------------------------------------------------------------------
Proceed(p) ==
    \/ AddColumn(p, "previous_hash", "event_hash") \/ AddColumn(p, "event_hash", "list")
    \/ ListRuns(p) \/ Backfill(p) \/ FinishOpening(p)
    \/ Insert(p) \/ Commit(p) \/ Abandon(p)
    \/ \E r \in Run : ReadRun(p, r)

Next ==
    \/ \E p \in Proc : Connect(p) \/ Proceed(p) \/ Stop(p)
    \/ \E p \in Proc, r \in Run : CreateRun(p, r) \/ \E d \in Data : Begin(p, r, d)
    \/ \E c \in Poller : Poll(c)

Spec == Init /\ [][Next]_vars

\* What a process has begun it carries on with; nobody has to begin anything.
FairSpec == Spec /\ \A p \in Proc : WF_vars(Proceed(p))

-----------------------------------------------------------------------------
(* Properties                                                              *)

TypeOK ==
    /\ runs \subseteq Run /\ columns \subseteq Columns /\ lock \subseteq Proc
    /\ \A r \in Run : \A i \in 1..Len(rows[r]) : rows[r][i].data \in Data
    /\ pc \in [Proc -> Columns \cup {"closed", "list", "backfill", "ready", "insert", "commit"}]
    /\ known \in [Proc -> SUBSET Columns] /\ todo \in [Proc -> SUBSET Run]
    /\ \A p \in Proc : at[p].run \in Run /\ at[p].i \in 0..Len(scan[p])

\* verify_chain: sequences without a gap, every event linked to the one before it.
VerifyChain(r) ==
    \A i \in 1..Len(rows[r]) :
        LET previous == IF i = 1 THEN Null ELSE rows[r][i - 1].hash
        IN  /\ rows[r][i].seq = i - 1
            /\ rows[r][i].previous = previous
            /\ rows[r][i].hash = Digest(r, i - 1, rows[r][i].data, previous)

\* From the read under the lock to the commit the drafted event stays the next one of its
\* run.
DraftIsNext ==
    \A p \in Proc : pc[p] = "commit" =>
        LET rowsThere == rows[draft[p].run]
        IN  /\ draft[p].event.seq = Len(rowsThere)
            /\ rowsThere # <<>> => draft[p].event.previous = rowsThere[Len(rowsThere)].hash

\* Who has the store open sees valid chains only, whoever else is opening, backfilling,
\* appending or dying at the same time, and no append is refused for a sequence that
\* another process took (storage.py:56 and 219).
ServedChainValid ==
    /\ TypeOK /\ DraftIsNext
    /\ (\E p \in Proc : Opened(p)) => \A r \in Run : VerifyChain(r)

\* Evidence stays as it was given out, after any crash or later backfill: an append that
\* returned is on record as it was returned, and a poller that pages with its cursor has
\* every event of the run up to there once, in order and in its final form (storage.py:96
\* and 142).
EvidenceKept ==
    /\ \A a \in acked : /\ a.event.seq < Len(rows[a.run])
                        /\ rows[a.run][a.event.seq + 1] = a.event
    /\ \A c \in Poller : /\ Len(seen[c]) <= Len(rows[Followed])
                         /\ seen[c] = SubSeq(rows[Followed], 1, Len(seen[c]))

\* The lock is not kept: an opening that fills rows, or an append, gets to its commit or
\* gives up without waiting for another process (storage.py:249).
LockFreed == \A p \in Proc : lock = {p} ~> lock # {p}

Log == INSTANCE RunLog WITH
    log <- [r \in Run |-> [i \in 1..Len(rows[r]) |-> rows[r][i].data]]

\* Whatever the processes do, the store is a log per run that grows at its end only.
ImplementsRunLog == Log!Spec
=============================================================================
