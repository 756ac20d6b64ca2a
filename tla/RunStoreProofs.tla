--------------------------- MODULE RunStoreProofs ---------------------------
(***************************************************************************)
(* The evidence file for any number of processes, runs and events.         *)
(*                                                                         *)
(* A valid chain is not inductive: while a file of before hashes is being  *)
(* opened there is none.  What is inductive is that the file is as it was  *)
(* found or filled completely (FileInv), because the first opening to      *)
(* commit has, under the lock it took with its first row, a consistent     *)
(* hash for every row there is (FillInv, CoverInv), whatever the others    *)
(* have read of the file before.  Of what was given out nothing more is    *)
(* needed than that the file was filled by then (KeptInv): its rows are    *)
(* final from there on.                                                    *)
(***************************************************************************)
EXTENDS RunStore, FiniteSetTheorems, SequenceTheorems, TLAPS

-----------------------------------------------------------------------------
IsLog(s) == s \in Seq({s[i] : i \in 1..Len(s)})

IsRow(x) == x = Row(x.seq, x.data, x.previous, x.hash)

Label == Columns \cup {"closed", "list", "backfill", "ready", "insert", "commit"}

\* The tables and the places of the processes.
Types ==
    /\ runs \in SUBSET Run /\ columns \in SUBSET Columns /\ lock \in SUBSET Proc
    /\ DOMAIN rows = Run
    /\ \A r \in Run : IsLog(rows[r])
    /\ pc \in [Proc -> Label] /\ known \in [Proc -> SUBSET Columns]
    /\ todo \in [Proc -> SUBSET Run]
    /\ DOMAIN scan = Proc /\ DOMAIN at = Proc /\ DOMAIN fill = Proc /\ DOMAIN draft = Proc
    /\ \A p \in Proc : IsLog(scan[p])
    /\ \A p \in Proc : at[p].run \in Run /\ at[p].i \in 0..Len(scan[p])

\* Every row has its sequence and its data, hashed or not.
RowInv ==
    \A r \in Run : \A i \in 1..Len(rows[r]) :
        IsRow(rows[r][i]) /\ rows[r][i].seq = i - 1 /\ rows[r][i].data \in Data

AllRaw    == \A r \in Run : \A i \in 1..Len(rows[r]) :
                 rows[r][i].previous = Null /\ rows[r][i].hash = Null
AllFilled == \A r \in Run : VerifyChain(r)

\* The file is as it was found or filled completely; who has it open has it filled.
FileInv ==
    /\ AllRaw \/ AllFilled
    /\ \A r \in Run : Len(rows[r]) > 0 => r \in runs
    /\ \A p \in Proc : Opened(p) => AllFilled

LockInv ==
    \A p \in Proc :
        /\ fill[p] # {} \/ pc[p] \in {"insert", "commit"} => lock = {p}
        /\ fill[p] # {} \/ at[p].i # 0 => pc[p] = "backfill"

\* The rows an opening has updated are unfilled in the file, and linked to each other.
FillInv(p) ==
    /\ \A f \in fill[p] :
         /\ f.run \in Run /\ f.i \in 1..Len(rows[f.run]) /\ f.run \notin todo[p]
         /\ rows[f.run][f.i].hash = Null
         /\ f.hash = Digest(f.run, f.i - 1, rows[f.run][f.i].data, f.previous)
         /\ f.i = 1 => f.previous = Null
         /\ f.i > 1 => \E g \in fill[p] : g.run = f.run /\ g.i = f.i - 1 /\ g.hash = f.previous
         /\ at[p].i # 0 /\ at[p].run = f.run => f.i < at[p].i
    /\ \A f, g \in fill[p] :
         f.run = g.run /\ f.i = g.i => f.hash = g.hash /\ f.previous = g.previous

\* The place of an opening, in what it has read of a run.
PlaceInv(p) ==
    at[p].i # 0 =>
        /\ at[p].run \notin todo[p]
        /\ Len(scan[p]) <= Len(rows[at[p].run])
        /\ AllRaw => /\ scan[p] = rows[at[p].run]
                     /\ at[p].i = 1 => at[p].previous = Null
                     /\ at[p].i > 1 => \E g \in fill[p] :
                          g.run = at[p].run /\ g.i = at[p].i - 1 /\ g.hash = at[p].previous

\* While the file is as it was found, an opening has every row behind or before it.
CoverInv(p) ==
    AllRaw /\ pc[p] = "backfill" =>
        \A r \in Run : \A i \in 1..Len(rows[r]) :
            \/ r \in todo[p]
            \/ at[p].i # 0 /\ at[p].run = r /\ at[p].i <= i
            \/ \E f \in fill[p] : f.run = r /\ f.i = i

OpenInv == \A p \in Proc : FillInv(p) /\ PlaceInv(p) /\ CoverInv(p)

\* The event a process is appending.
DraftInv ==
    \A p \in Proc :
        /\ pc[p] = "insert" => draft[p].run \in runs /\ draft[p].event.data \in Data
        /\ pc[p] = "commit" =>
             LET r == draft[p].run   e == draft[p].event   n == Len(rows[r])
             IN  /\ r \in runs /\ e.data \in Data
                 /\ e = Row(n, e.data, IF n = 0 THEN Null ELSE rows[r][n].hash,
                            Digest(r, n, e.data, IF n = 0 THEN Null ELSE rows[r][n].hash))

IInv == Types /\ RowInv /\ FileInv /\ LockInv /\ OpenInv /\ DraftInv

-----------------------------------------------------------------------------
(* Logs                                                                    *)

LEMMA LogFacts ==
    ASSUME NEW s, IsLog(s)
    PROVE  Len(s) \in Nat /\ s = [i \in 1..Len(s) |-> s[i]]
BY LenProperties DEF IsLog

LEMMA EmptyLog == IsLog(<<>>) /\ Len(<<>>) = 0
BY DEF IsLog

LEMMA AppendLog ==
    ASSUME NEW s, NEW e, IsLog(s)
    PROVE  /\ IsLog(Append(s, e)) /\ Len(Append(s, e)) = Len(s) + 1
           /\ \A i \in 1..Len(s) : Append(s, e)[i] = s[i]
           /\ Append(s, e)[Len(s) + 1] = e
<1> DEFINE S == {s[i] : i \in 1..Len(s)} \cup {e}
           t == Append(s, e)
<1>1. s \in Seq(S) /\ e \in S /\ Len(s) \in Nat
  <2>1. s \in Seq({s[i] : i \in 1..Len(s)})
    BY DEF IsLog
  <2>2. s \in Seq(S)
    BY <2>1, SeqMonotonic
  <2>3. QED
    BY <2>2, LenProperties
<1>2. /\ t \in Seq(S) /\ Len(t) = Len(s) + 1
      /\ \A i \in 1..Len(s) : t[i] = s[i]
      /\ t[Len(s) + 1] = e
  BY <1>1, AppendProperties
<1>3. t \in Seq({t[i] : i \in 1..Len(t)})
  <2>1. S \subseteq {t[i] : i \in 1..Len(t)}
    <3>1. ASSUME NEW i \in 1..Len(s) PROVE s[i] \in {t[j] : j \in 1..Len(t)}
      BY <1>1, <1>2
    <3>2. e \in {t[j] : j \in 1..Len(t)}
      BY <1>1, <1>2
    <3>3. QED
      BY <3>1, <3>2
  <2>2. QED
    BY <1>2, <2>1, SeqMonotonic
<1>4. QED
  BY <1>2, <1>3 DEF IsLog

\* A function on 1..n is a log.
LEMMA FunctionLog ==
    ASSUME NEW n \in Nat, NEW S, NEW s \in [1..n -> S]
    PROVE  IsLog(s) /\ Len(s) = n
<1>1. s \in Seq(S)
  BY SeqDef
<1>2. Len(s) = n
  BY <1>1, LenProperties
<1>3. s \in [1..n -> {s[i] : i \in 1..n}]
  OBVIOUS
<1>4. s \in Seq({s[i] : i \in 1..n})
  BY <1>3, SeqDef
<1>5. QED
  BY <1>2, <1>4 DEF IsLog

\* A row is filled or not.
LEMMA DigestNotNull ==
    ASSUME NEW r, NEW n, NEW d, NEW h
    PROVE  Digest(r, n, d, h) # Null
BY DEF Digest, Null

LEMMA FilledRows ==
    ASSUME AllFilled, NEW r \in Run, NEW i \in 1..Len(rows[r])
    PROVE  rows[r][i].hash # Null
BY DigestNotNull DEF AllFilled, VerifyChain

\* Who has updates pending found the file unfilled.
LEMMA NoFill ==
    ASSUME IInv, AllFilled, NEW p \in Proc
    PROVE  fill[p] = {}
BY FilledRows DEF IInv, OpenInv, FillInv

-----------------------------------------------------------------------------
LEMMA InitInv == Init => IInv
<1> SUFFICES ASSUME Init PROVE IInv
  OBVIOUS
<1>1. CASE runs = {} /\ columns = Columns /\ rows = [r \in Run |-> <<>>]
  <2>1. \A r \in Run : IsLog(rows[r]) /\ Len(rows[r]) = 0
    BY <1>1, EmptyLog
  <2>2. Types
    BY <1>1, <2>1, EmptyLog, RunAssumption DEF Init, Types, Label, Columns, NoPlace
  <2>3. RowInv /\ AllRaw /\ AllFilled
    BY <2>1 DEF RowInv, AllRaw, AllFilled, VerifyChain
  <2>4. FileInv /\ LockInv /\ DraftInv
    BY <2>1, <2>3 DEF Init, FileInv, LockInv, DraftInv, NoPlace
  <2>5. OpenInv
    BY <2>1 DEF Init, OpenInv, FillInv, PlaceInv, CoverInv, NoPlace
  <2>6. QED
    BY <2>2, <2>3, <2>4, <2>5 DEF IInv
<1>2. ASSUME NEW len \in [Legacy -> 0..MaxEvents], NEW d \in Data,
             runs = Legacy, columns = {},
             rows = [r \in Run |-> IF r \in Legacy
                       THEN [i \in 1..len[r] |-> Row(i - 1, d, Null, Null)] ELSE <<>>]
      PROVE  IInv
  <2>1. ASSUME NEW r \in Run
        PROVE  /\ IsLog(rows[r])
               /\ \A i \in 1..Len(rows[r]) : rows[r][i] = Row(i - 1, d, Null, Null)
               /\ Len(rows[r]) \in Nat /\ (r \notin Legacy => Len(rows[r]) = 0)
    <3>1. CASE r \in Legacy
      <4>1. len[r] \in Nat /\ rows[r] = [i \in 1..len[r] |-> Row(i - 1, d, Null, Null)]
        BY <1>2, <3>1, MaxEventsAssumption
      <4>2. rows[r] \in [1..len[r] -> {Row(i - 1, d, Null, Null) : i \in 1..len[r]}]
        BY <4>1
      <4>3. IsLog(rows[r]) /\ Len(rows[r]) = len[r]
        BY <4>1, <4>2, FunctionLog
      <4>4. QED
        BY <3>1, <4>1, <4>3
    <3>2. CASE r \notin Legacy
      BY <1>2, <3>2, EmptyLog
    <3>3. QED
      BY <3>1, <3>2
  <2>2. Types
    BY <1>2, <2>1, EmptyLog, RunAssumption DEF Init, Types, Label, Columns, NoPlace
  <2>3. RowInv /\ AllRaw
    BY <1>2, <2>1 DEF RowInv, IsRow, AllRaw, Row
  <2>4. FileInv /\ LockInv /\ DraftInv
    BY <1>2, <2>1, <2>3 DEF Init, FileInv, LockInv, DraftInv, NoPlace, Opened
  <2>5. OpenInv
    BY DEF Init, OpenInv, FillInv, PlaceInv, CoverInv, NoPlace
  <2>6. QED
    BY <2>2, <2>3, <2>4, <2>5 DEF IInv
<1>3. CASE runs = Legacy /\ columns = {}
           /\ \E len \in [Legacy -> 0..MaxEvents], d \in Data :
                rows = [r \in Run |-> IF r \in Legacy
                          THEN [i \in 1..len[r] |-> Row(i - 1, d, Null, Null)] ELSE <<>>]
  <2>1. PICK len \in [Legacy -> 0..MaxEvents], d \in Data :
          rows = [r \in Run |-> IF r \in Legacy
                    THEN [i \in 1..len[r] |-> Row(i - 1, d, Null, Null)] ELSE <<>>]
    BY <1>3
  <2>2. QED
    BY <1>2, <1>3, <2>1
<1>4. QED
  BY <1>1, <1>3 DEF Init

-----------------------------------------------------------------------------
(* Steps that leave the rows alone                                         *)

\* What is said of the rows alone goes on.
LEMMA RowsKept ==
    ASSUME IInv, UNCHANGED rows
    PROVE  RowInv' /\ (AllRaw' <=> AllRaw) /\ (AllFilled' <=> AllFilled)
BY DEF IInv, RowInv, AllRaw, AllFilled, VerifyChain

\* And what is said of the openings, when their locals do and none begins.
LEMMA OpeningsKept ==
    ASSUME IInv, UNCHANGED <<rows, todo, scan, at, fill>>,
           \A q \in Proc : pc'[q] = "backfill" => pc[q] = "backfill"
    PROVE  OpenInv'
<1>1. AllRaw' <=> AllRaw
  BY RowsKept
<1>2. SUFFICES ASSUME NEW q \in Proc PROVE FillInv(q)' /\ PlaceInv(q)' /\ CoverInv(q)'
  BY DEF OpenInv
<1>3. FillInv(q)'
  BY DEF IInv, OpenInv, FillInv
<1>4. PlaceInv(q)'
  BY <1>1 DEF IInv, OpenInv, PlaceInv
<1>5. CoverInv(q)'
  BY <1>1 DEF IInv, OpenInv, CoverInv
<1>6. QED
  BY <1>3, <1>4, <1>5

LEMMA ConnectInv ==
    ASSUME IInv, NEW p \in Proc, Connect(p)
    PROVE  IInv'
<1>1. /\ UNCHANGED <<runs, rows, columns, lock, todo, scan, at, fill, draft>>
      /\ pc[p] = "closed" /\ pc' = [pc EXCEPT ![p] = "previous_hash"]
      /\ known' = [known EXCEPT ![p] = columns]
  BY DEF Connect, table
<1>2. Types'
  BY <1>1 DEF IInv, Types, Label, Columns
<1>3. LockInv' /\ DraftInv' /\ FileInv'
  BY <1>1, RowsKept DEF IInv, Types, LockInv, DraftInv, FileInv, Opened
<1>4. OpenInv'
  BY <1>1, RowsKept DEF IInv, Types, OpenInv, FillInv, PlaceInv, CoverInv
<1>5. QED
  BY <1>1, <1>2, <1>3, <1>4, RowsKept DEF IInv

LEMMA AddColumnInv ==
    ASSUME IInv, NEW p \in Proc, NEW column \in Columns, NEW next \in {"event_hash", "list"},
           AddColumn(p, column, next)
    PROVE  IInv'
<1>1. /\ UNCHANGED <<runs, rows, lock, known, todo, scan, at, fill, draft>>
      /\ pc[p] = column /\ pc' = [pc EXCEPT ![p] = next] /\ columns' \in SUBSET Columns
  BY DEF AddColumn, opening, IInv, Types
<1>2. Types'
  BY <1>1 DEF IInv, Types, Label, Columns
<1>3. OpenInv' /\ LockInv' /\ DraftInv' /\ FileInv'
  BY <1>1, RowsKept DEF IInv, Types, OpenInv, FillInv, PlaceInv, CoverInv, LockInv, DraftInv,
     FileInv, Opened, Columns
<1>4. QED
  BY <1>1, <1>2, <1>3, RowsKept DEF IInv

LEMMA ListRunsInv ==
    ASSUME IInv, NEW p \in Proc, ListRuns(p)
    PROVE  IInv'
<1>1. /\ UNCHANGED <<runs, rows, columns, lock, known, scan, at, fill, draft>>
      /\ pc[p] = "list" /\ pc' = [pc EXCEPT ![p] = "backfill"]
      /\ todo' = [todo EXCEPT ![p] = runs]
  BY DEF ListRuns, table
<1>2. Types'
  BY <1>1 DEF IInv, Types, Label
<1>3. fill[p] = {} /\ at[p].i = 0
  BY <1>1 DEF IInv, LockInv
<1>4. LockInv' /\ DraftInv' /\ FileInv'
  BY <1>1, RowsKept DEF IInv, Types, LockInv, DraftInv, FileInv, Opened
<1>5. ASSUME NEW q \in Proc PROVE FillInv(q)' /\ PlaceInv(q)' /\ CoverInv(q)'
  <2>1. CASE q = p
    <3>1. FillInv(p)' /\ PlaceInv(p)'
      BY <1>1, <1>3 DEF FillInv, PlaceInv
    <3>2. \A r \in Run : \A i \in 1..Len(rows[r]) : r \in todo'[p]
      BY <1>1, LogFacts DEF IInv, Types, FileInv
    <3>3. CoverInv(p)'
      BY <1>1, <3>2 DEF CoverInv
    <3>4. QED
      BY <2>1, <3>1, <3>3
  <2>2. CASE q # p
    BY <1>1, <2>2, RowsKept DEF IInv, Types, OpenInv, FillInv, PlaceInv, CoverInv
  <2>3. QED
    BY <2>1, <2>2
<1>6. QED
  BY <1>1, <1>2, <1>4, <1>5, RowsKept DEF IInv, OpenInv

LEMMA FollowingFacts ==
    ASSUME NEW i \in Nat, NEW n \in Nat
    PROVE  /\ Following(i, n) \in 0..n
           /\ Following(i, n) = IF i < n THEN i + 1 ELSE 0
BY DEF Following

LEMMA ReadRunInv ==
    ASSUME IInv, NEW p \in Proc, NEW r \in Run, ReadRun(p, r)
    PROVE  IInv'
<1>1. /\ UNCHANGED <<runs, rows, columns, lock, pc, known, fill, draft>>
      /\ pc[p] = "backfill" /\ at[p].i = 0 /\ r \in todo[p]
      /\ todo' = [todo EXCEPT ![p] = @ \ {r}]
      /\ scan' = [scan EXCEPT ![p] = rows[r]]
      /\ at' = [at EXCEPT ![p] = [run |-> r, i |-> Following(0, Len(rows[r])), previous |-> Null]]
  BY DEF ReadRun, table
<1>2. IsLog(rows[r]) /\ Len(rows[r]) \in Nat
  BY LogFacts DEF IInv, Types
<1>3. Following(0, Len(rows[r])) = IF Len(rows[r]) = 0 THEN 0 ELSE 1
  BY <1>2 DEF Following
<1>4. Types'
  BY <1>1, <1>2, <1>3 DEF IInv, Types
<1>5. LockInv' /\ DraftInv' /\ FileInv'
  BY <1>1, RowsKept DEF IInv, Types, LockInv, DraftInv, FileInv, Opened
<1>6. ASSUME NEW q \in Proc PROVE FillInv(q)' /\ PlaceInv(q)' /\ CoverInv(q)'
  <2>1. CASE q = p
    <3>1. /\ at'[p].run = r /\ at'[p].i = IF Len(rows[r]) = 0 THEN 0 ELSE 1
          /\ at'[p].previous = Null /\ scan'[p] = rows[r] /\ todo'[p] = todo[p] \ {r}
      BY <1>1, <1>3 DEF IInv, Types
    <3>2. FillInv(p)'
      <4>1. \A f \in fill[p] : f.run # r
        BY <1>1 DEF IInv, OpenInv, FillInv
      <4>2. QED
        BY <1>1, <3>1, <4>1 DEF IInv, OpenInv, FillInv
    <3>3. PlaceInv(p)'
      BY <1>1, <1>2, <3>1 DEF PlaceInv
    <3>4. CoverInv(p)'
      <4>1. SUFFICES ASSUME AllRaw, NEW t \in Run, NEW i \in 1..Len(rows[t])
                     PROVE  \/ t \in todo'[p]
                            \/ at'[p].i # 0 /\ at'[p].run = t /\ at'[p].i <= i
                            \/ \E f \in fill[p] : f.run = t /\ f.i = i
        BY <1>1, RowsKept DEF CoverInv
      <4>2. t \in todo[p] \/ \E f \in fill[p] : f.run = t /\ f.i = i
        BY <1>1, <4>1 DEF IInv, OpenInv, CoverInv
      <4>3. CASE t = r
        BY <1>2, <3>1, <4>1, <4>3
      <4>4. CASE t # r
        BY <3>1, <4>2, <4>4
      <4>5. QED
        BY <4>3, <4>4
    <3>5. QED
      BY <2>1, <3>2, <3>3, <3>4
  <2>2. CASE q # p
    BY <1>1, <2>2, RowsKept DEF IInv, Types, OpenInv, FillInv, PlaceInv, CoverInv
  <2>3. QED
    BY <2>1, <2>2
<1>7. QED
  BY <1>1, <1>4, <1>5, <1>6, RowsKept DEF IInv, OpenInv

-----------------------------------------------------------------------------
(* Backfill                                                                *)

\* What one event of the loop does to the locals.
BackRow(p)      == scan[p][at[p].i]
BackPrevious(p) == IF BackRow(p).previous # Null THEN BackRow(p).previous ELSE at[p].previous
BackHash(p)     == IF BackRow(p).hash # Null THEN BackRow(p).hash
                   ELSE Digest(at[p].run, BackRow(p).seq, BackRow(p).data, BackPrevious(p))

LEMMA BackfillFacts ==
    ASSUME IInv, NEW p \in Proc, Backfill(p)
    PROVE  /\ UNCHANGED <<runs, rows, columns, pc, known, todo, scan, draft>>
           /\ pc[p] = "backfill" /\ at[p].i # 0 /\ at[p].i \in 1..Len(scan[p])
           /\ at[p].run \in Run /\ at[p].i \in 1..Len(rows[at[p].run])
           /\ Len(scan[p]) \in Nat /\ Len(rows[at[p].run]) \in Nat
           /\ at' = [at EXCEPT ![p] = [run |-> at[p].run,
                                       i |-> Following(at[p].i, Len(scan[p])),
                                       previous |-> BackHash(p)]]
           /\ IF BackRow(p).hash # Null THEN UNCHANGED <<lock, fill>>
              ELSE /\ lock \subseteq {p} /\ lock' = {p}
                   /\ fill' = IF rows[at[p].run][at[p].i].hash # Null THEN fill
                              ELSE [fill EXCEPT ![p] = @ \cup
                                {[run |-> at[p].run, i |-> at[p].i,
                                  previous |-> BackPrevious(p), hash |-> BackHash(p)]}]
<1>1. /\ UNCHANGED <<runs, rows, columns, pc, known, todo, scan, draft>>
      /\ pc[p] = "backfill" /\ at[p].i # 0
  BY DEF Backfill, table
<1>2. /\ at[p].run \in Run /\ at[p].i \in 1..Len(scan[p])
      /\ Len(scan[p]) \in Nat /\ Len(rows[at[p].run]) \in Nat
  BY <1>1, LogFacts DEF IInv, Types
<1>3. at[p].i \in 1..Len(rows[at[p].run])
  BY <1>1, <1>2 DEF IInv, OpenInv, PlaceInv
<1>4. QED
  BY <1>1, <1>2, <1>3 DEF Backfill, BackRow, BackPrevious, BackHash

LEMMA BackfillInv ==
    ASSUME IInv, NEW p \in Proc, Backfill(p)
    PROVE  IInv'
<1> DEFINE r == at[p].run
           k == at[p].i
<1>1. /\ UNCHANGED <<runs, rows, columns, pc, known, todo, scan, draft>>
      /\ pc[p] = "backfill" /\ k # 0 /\ k \in 1..Len(scan[p])
      /\ r \in Run /\ k \in 1..Len(rows[r])
      /\ Len(scan[p]) \in Nat /\ Len(rows[r]) \in Nat
      /\ at' = [at EXCEPT ![p] = [run |-> r, i |-> Following(k, Len(scan[p])),
                                  previous |-> BackHash(p)]]
  BY BackfillFacts
<1>2. /\ at'[p].run = r /\ at'[p].previous = BackHash(p)
      /\ at'[p].i = IF k < Len(scan[p]) THEN k + 1 ELSE 0
      /\ \A q \in Proc : q # p => at'[q] = at[q]
  BY <1>1, FollowingFacts DEF IInv, Types
<1>3. /\ \A q \in Proc : q # p => fill'[q] = fill[q]
      /\ DOMAIN fill' = Proc
      /\ lock' \in SUBSET Proc
      /\ (fill' # fill \/ lock' # lock) => lock \subseteq {p} /\ lock' = {p}
  BY BackfillFacts DEF IInv, Types
<1>4. Types'
  BY <1>1, <1>2, <1>3 DEF IInv, Types
<1>5. FileInv' /\ DraftInv'
  BY <1>1, RowsKept DEF IInv, FileInv, DraftInv, Opened
<1>6. LockInv'
  <2>1. CASE fill' = fill /\ lock' = lock
    BY <1>1, <1>2, <2>1 DEF IInv, LockInv
  <2>2. CASE fill' # fill \/ lock' # lock
    <3>1. \A q \in Proc : q # p => fill[q] = {} /\ pc[q] \notin {"insert", "commit"}
      BY <1>3, <2>2 DEF IInv, LockInv
    <3>2. QED
      BY <1>1, <1>2, <1>3, <2>2, <3>1 DEF IInv, LockInv
  <2>3. QED
    BY <2>1, <2>2
<1>7. ASSUME NEW q \in Proc, q # p PROVE FillInv(q)' /\ PlaceInv(q)' /\ CoverInv(q)'
  BY <1>1, <1>2, <1>3, <1>7, RowsKept DEF IInv, OpenInv, FillInv, PlaceInv, CoverInv
<1>8. CASE AllRaw
  <2>1. scan[p] = rows[r] /\ rows[r][k].hash = Null /\ rows[r][k].previous = Null
    BY <1>1, <1>8 DEF IInv, OpenInv, PlaceInv, AllRaw
  <2>2. rows[r][k].seq = k - 1 /\ rows[r][k].data \in Data
    BY <1>1 DEF IInv, RowInv
  <2> DEFINE h == Digest(r, k - 1, rows[r][k].data, at[p].previous)
             new == [run |-> r, i |-> k, previous |-> at[p].previous, hash |-> h]
  <2>3. BackHash(p) = h /\ BackPrevious(p) = at[p].previous
    BY <2>1, <2>2 DEF BackHash, BackPrevious, BackRow
  <2>4. fill' = [fill EXCEPT ![p] = @ \cup {new}]
    BY <2>1, <2>3, BackfillFacts DEF BackRow
  <2>5. /\ new.run = r /\ new.i = k /\ new.previous = at[p].previous /\ new.hash = h
        /\ fill'[p] = fill[p] \cup {new}
    BY <2>4 DEF IInv, Types
  <2> HIDE DEF new, h
  <2>6. h = Digest(r, k - 1, rows[r][k].data, at[p].previous)
    BY DEF h
  <2>7. /\ k = 1 => at[p].previous = Null
        /\ k > 1 => \E g \in fill[p] : g.run = r /\ g.i = k - 1 /\ g.hash = at[p].previous
        /\ r \notin todo[p]
    BY <1>1, <1>8 DEF IInv, OpenInv, PlaceInv
  <2>8. \A f \in fill[p] : f.run = r => f.i < k
    BY <1>1 DEF IInv, OpenInv, FillInv
  <2>9. FillInv(p)'
    <3>1. ASSUME NEW f \in fill[p]
          PROVE  /\ f.run \in Run /\ f.i \in 1..Len(rows'[f.run]) /\ f.run \notin todo'[p]
                 /\ rows'[f.run][f.i].hash = Null
                 /\ f.hash = Digest(f.run, f.i - 1, rows'[f.run][f.i].data, f.previous)
                 /\ f.i = 1 => f.previous = Null
                 /\ f.i > 1 => \E g \in fill'[p] : g.run = f.run /\ g.i = f.i - 1 /\ g.hash = f.previous
                 /\ at'[p].i # 0 /\ at'[p].run = f.run => f.i < at'[p].i
      BY <1>1, <1>2, <2>5, <2>8 DEF IInv, OpenInv, FillInv
    <3>2. /\ new.run \in Run /\ new.i \in 1..Len(rows'[new.run]) /\ new.run \notin todo'[p]
          /\ rows'[new.run][new.i].hash = Null
          /\ new.hash = Digest(new.run, new.i - 1, rows'[new.run][new.i].data, new.previous)
          /\ new.i = 1 => new.previous = Null
          /\ new.i > 1 => \E g \in fill'[p] : g.run = new.run /\ g.i = new.i - 1 /\ g.hash = new.previous
          /\ at'[p].i # 0 /\ at'[p].run = new.run => new.i < at'[p].i
      BY <1>1, <1>2, <2>1, <2>5, <2>6, <2>7
    <3>3. \A f, g \in fill'[p] :
            f.run = g.run /\ f.i = g.i => f.hash = g.hash /\ f.previous = g.previous
      BY <1>1, <2>5, <2>8 DEF IInv, OpenInv, FillInv
    <3>4. QED
      BY <2>5, <3>1, <3>2, <3>3 DEF FillInv
  <2>10. PlaceInv(p)'
    BY <1>1, <1>2, <1>8, <2>1, <2>3, <2>5, <2>7, RowsKept DEF IInv, OpenInv, PlaceInv
  <2>11. CoverInv(p)'
    <3>1. SUFFICES ASSUME NEW t \in Run, NEW i \in 1..Len(rows[t])
                   PROVE  \/ t \in todo[p]
                          \/ at'[p].i # 0 /\ at'[p].run = t /\ at'[p].i <= i
                          \/ \E f \in fill'[p] : f.run = t /\ f.i = i
      BY <1>1 DEF CoverInv
    <3>2. \/ t \in todo[p]
          \/ r = t /\ k <= i
          \/ \E f \in fill[p] : f.run = t /\ f.i = i
      BY <1>1, <1>8, <3>1 DEF IInv, OpenInv, CoverInv
    <3>3. CASE r = t /\ k <= i
      BY <1>1, <1>2, <2>1, <2>5, <3>1, <3>3
    <3>4. QED
      BY <2>5, <3>2, <3>3
  <2>12. QED
    BY <1>1, <1>4, <1>5, <1>6, <1>7, <2>9, <2>10, <2>11, RowsKept DEF IInv, OpenInv
<1>9. CASE ~AllRaw
  <2>1. AllFilled /\ fill[p] = {}
    BY <1>9, NoFill DEF IInv, FileInv
  <2>2. fill' = fill
    BY <1>1, <2>1, FilledRows, BackfillFacts
  <2>3. FillInv(p)' /\ CoverInv(p)'
    BY <1>1, <1>9, <2>1, <2>2, RowsKept DEF FillInv, CoverInv
  <2>4. PlaceInv(p)'
    BY <1>1, <1>2, <1>9, RowsKept DEF IInv, OpenInv, PlaceInv
  <2>5. QED
    BY <1>1, <1>4, <1>5, <1>6, <1>7, <2>3, <2>4, RowsKept DEF IInv, OpenInv
<1>10. QED
  BY <1>8, <1>9

-----------------------------------------------------------------------------
(* Steps that write rows                                                   *)

\* The rows after the commit of an opening.
LEMMA FinishRows ==
    ASSUME IInv, NEW p \in Proc, FinishOpening(p)
    PROVE  /\ DOMAIN rows' = Run
           /\ \A r \in Run :
                /\ IsLog(rows'[r]) /\ Len(rows'[r]) = Len(rows[r]) /\ Len(rows[r]) \in Nat
                /\ \A i \in 1..Len(rows[r]) : rows'[r][i] =
                     IF \E f \in fill[p] : f.run = r /\ f.i = i
                     THEN Updated(rows[r][i], CHOOSE f \in fill[p] : f.run = r /\ f.i = i)
                     ELSE rows[r][i]
<1> DEFINE New(r, i) == IF \E f \in fill[p] : f.run = r /\ f.i = i
                        THEN Updated(rows[r][i], CHOOSE f \in fill[p] : f.run = r /\ f.i = i)
                        ELSE rows[r][i]
<1>1. rows' = [r \in Run |-> [i \in 1..Len(rows[r]) |-> New(r, i)]]
  BY DEF FinishOpening
<1> HIDE DEF New
<1>2. ASSUME NEW r \in Run
      PROVE  /\ IsLog(rows'[r]) /\ Len(rows'[r]) = Len(rows[r]) /\ Len(rows[r]) \in Nat
             /\ \A i \in 1..Len(rows[r]) : rows'[r][i] = New(r, i)
  <2>1. Len(rows[r]) \in Nat
    BY LogFacts DEF IInv, Types
  <2>2. rows'[r] = [i \in 1..Len(rows[r]) |-> New(r, i)]
    BY <1>1
  <2>3. rows'[r] \in [1..Len(rows[r]) -> {New(r, i) : i \in 1..Len(rows[r])}]
    BY <2>2
  <2>4. IsLog(rows'[r]) /\ Len(rows'[r]) = Len(rows[r])
    BY <2>1, <2>3, FunctionLog
  <2>5. QED
    BY <2>1, <2>2, <2>4
<1>3. QED
  BY <1>1, <1>2 DEF New

LEMMA UpdatedFacts ==
    ASSUME NEW row, NEW f, IsRow(row), row.previous = Null
    PROVE  /\ IsRow(Updated(row, f))
           /\ Updated(row, f).seq = row.seq /\ Updated(row, f).data = row.data
           /\ Updated(row, f).previous = f.previous /\ Updated(row, f).hash = f.hash
BY DEF Updated, IsRow, Row

\* Committed under the lock, with the file as it was found, the opening fills it.
LEMMA FinishFills ==
    ASSUME IInv, NEW p \in Proc, FinishOpening(p), AllRaw
    PROVE  RowInv' /\ AllFilled' /\ \A r \in Run : \A i \in 1..Len(rows[r]) :
                                        rows'[r][i].data = rows[r][i].data
<1> DEFINE F(r, i) == CHOOSE f \in fill[p] : f.run = r /\ f.i = i
<1>1. pc[p] = "backfill" /\ at[p].i = 0 /\ todo[p] = {}
  BY DEF FinishOpening
<1>2. ASSUME NEW r \in Run, NEW i \in 1..Len(rows[r])
      PROVE  /\ F(r, i) \in fill[p] /\ F(r, i).run = r /\ F(r, i).i = i
             /\ IsRow(rows'[r][i]) /\ rows'[r][i].seq = i - 1
             /\ rows'[r][i].data = rows[r][i].data /\ rows'[r][i].data \in Data
             /\ rows'[r][i].previous = F(r, i).previous /\ rows'[r][i].hash = F(r, i).hash
  <2>1. \E f \in fill[p] : f.run = r /\ f.i = i
    BY <1>1 DEF IInv, OpenInv, CoverInv
  <2>2. F(r, i) \in fill[p] /\ F(r, i).run = r /\ F(r, i).i = i
    BY <2>1
  <2>3. rows'[r][i] = Updated(rows[r][i], F(r, i))
    BY <2>1, FinishRows
  <2>4. /\ IsRow(rows[r][i]) /\ rows[r][i].previous = Null
        /\ rows[r][i].seq = i - 1 /\ rows[r][i].data \in Data
    BY DEF IInv, RowInv, AllRaw
  <2> HIDE DEF F
  <2>5. QED
    BY <2>2, <2>3, <2>4, UpdatedFacts
<1> HIDE DEF F
<1>3. \A r \in Run : Len(rows'[r]) = Len(rows[r]) /\ Len(rows[r]) \in Nat
  BY FinishRows
<1>4. RowInv'
  BY <1>2, <1>3 DEF RowInv
<1>5. ASSUME NEW r \in Run, NEW i \in 1..Len(rows[r])
      PROVE  LET previous == IF i = 1 THEN Null ELSE rows'[r][i - 1].hash
             IN  /\ rows'[r][i].seq = i - 1
                 /\ rows'[r][i].previous = previous
                 /\ rows'[r][i].hash = Digest(r, i - 1, rows'[r][i].data, previous)
  <2>1. /\ F(r, i) \in fill[p] /\ F(r, i).run = r /\ F(r, i).i = i
        /\ rows'[r][i].seq = i - 1 /\ rows'[r][i].data = rows[r][i].data
        /\ rows'[r][i].previous = F(r, i).previous /\ rows'[r][i].hash = F(r, i).hash
    BY <1>2
  <2>2. /\ F(r, i).hash = Digest(r, i - 1, rows[r][i].data, F(r, i).previous)
        /\ i = 1 => F(r, i).previous = Null
        /\ i > 1 => \E g \in fill[p] : g.run = r /\ g.i = i - 1 /\ g.hash = F(r, i).previous
    BY <2>1 DEF IInv, OpenInv, FillInv
  <2>3. CASE i = 1
    BY <2>1, <2>2, <2>3
  <2>4. CASE i # 1
    <3>1. i - 1 \in 1..Len(rows[r]) /\ i > 1
      BY <1>3, <2>4
    <3>2. PICK g \in fill[p] : g.run = r /\ g.i = i - 1 /\ g.hash = F(r, i).previous
      BY <2>2, <3>1
    <3>3. /\ F(r, i - 1) \in fill[p] /\ F(r, i - 1).run = r /\ F(r, i - 1).i = i - 1
          /\ rows'[r][i - 1].hash = F(r, i - 1).hash
      BY <1>2, <3>1
    <3>4. F(r, i - 1).hash = g.hash
      BY <3>2, <3>3 DEF IInv, OpenInv, FillInv
    <3>5. QED
      BY <2>1, <2>2, <2>4, <3>2, <3>3, <3>4
  <2>5. QED
    BY <2>3, <2>4
<1>6. AllFilled'
  BY <1>3, <1>5 DEF AllFilled, VerifyChain
<1>7. QED
  BY <1>2, <1>4, <1>6

\* Later openings change nothing.
LEMMA FinishKeeps ==
    ASSUME IInv, NEW p \in Proc, FinishOpening(p), AllFilled
    PROVE  \A r \in Run : \A i \in 1..Len(rows[r]) : rows'[r][i] = rows[r][i]
BY NoFill, FinishRows

LEMMA FilledKept ==
    ASSUME AllFilled, RowInv, \A r \in Run : Len(rows'[r]) = Len(rows[r]),
           \A r \in Run : Len(rows[r]) \in Nat,
           \A r \in Run : \A i \in 1..Len(rows[r]) : rows'[r][i] = rows[r][i]
    PROVE  AllFilled' /\ RowInv'
<1>1. RowInv'
  BY DEF RowInv
<1>2. AllFilled'
  <2>1. SUFFICES ASSUME NEW r \in Run, NEW i \in 1..Len(rows[r])
                 PROVE  LET previous == IF i = 1 THEN Null ELSE rows'[r][i - 1].hash
                        IN  /\ rows'[r][i].seq = i - 1
                            /\ rows'[r][i].previous = previous
                            /\ rows'[r][i].hash = Digest(r, i - 1, rows'[r][i].data, previous)
    BY DEF AllFilled, VerifyChain
  <2>2. i # 1 => i - 1 \in 1..Len(rows[r])
    BY <2>1
  <2>3. rows'[r][i] = rows[r][i] /\ (i # 1 => rows'[r][i - 1] = rows[r][i - 1])
    BY <2>1, <2>2
  <2>4. QED
    BY <2>3 DEF AllFilled, VerifyChain
<1>3. QED
  BY <1>1, <1>2

\* With nothing pending and every row filled, an opening has only its place to keep.
LEMMA OpeningsGrow ==
    ASSUME IInv, AllFilled', \A q \in Proc : fill'[q] = {},
           \A q \in Proc : at'[q].i # 0 =>
               at'[q] = at[q] /\ scan'[q] = scan[q] /\ todo'[q] = todo[q],
           \A r \in Run : Len(rows[r]) <= Len(rows'[r])
                           /\ Len(rows[r]) \in Nat /\ Len(rows'[r]) \in Nat
    PROVE  OpenInv'
<1> SUFFICES ASSUME NEW q \in Proc PROVE FillInv(q)' /\ PlaceInv(q)' /\ CoverInv(q)'
  BY DEF OpenInv
<1>1. AllRaw' => \A r \in Run : \A i \in 1..Len(rows'[r]) : FALSE
  BY DigestNotNull DEF AllRaw, AllFilled, VerifyChain
<1>2. at'[q].i # 0 =>
        /\ at'[q] = at[q] /\ scan'[q] = scan[q] /\ todo'[q] = todo[q]
        /\ at[q].run \in Run /\ Len(scan[q]) >= 1 /\ Len(scan[q]) \in Nat
        /\ Len(scan[q]) <= Len(rows[at[q].run]) /\ at[q].run \notin todo[q]
  BY LogFacts DEF IInv, Types, OpenInv, PlaceInv
<1>3. AllRaw' => at'[q].i = 0
  <2>1. SUFFICES ASSUME AllRaw', at'[q].i # 0 PROVE FALSE
    OBVIOUS
  <2>2. at[q].run \in Run /\ 1 \in 1..Len(rows'[at[q].run])
    BY <1>2, <2>1
  <2>3. QED
    BY <1>1, <2>1, <2>2
<1>4. FillInv(q)'
  BY DEF FillInv
<1>5. PlaceInv(q)'
  BY <1>2, <1>3 DEF PlaceInv
<1>6. CoverInv(q)'
  BY <1>1 DEF CoverInv
<1>7. QED
  BY <1>4, <1>5, <1>6

LEMMA FinishInv ==
    ASSUME IInv, NEW p \in Proc, FinishOpening(p)
    PROVE  IInv'
<1>1. /\ pc[p] = "backfill" /\ at[p].i = 0 /\ todo[p] = {}
      /\ lock' = lock \ {p} /\ pc' = [pc EXCEPT ![p] = "ready"]
      /\ known' = [known EXCEPT ![p] = {}] /\ todo' = [todo EXCEPT ![p] = {}]
      /\ scan' = [scan EXCEPT ![p] = <<>>] /\ fill' = [fill EXCEPT ![p] = {}]
      /\ at' = [at EXCEPT ![p] = NoPlace]
      /\ UNCHANGED <<runs, columns, draft>>
  BY DEF FinishOpening, Forget
<1>2. /\ DOMAIN rows' = Run
      /\ \A r \in Run : IsLog(rows'[r]) /\ Len(rows'[r]) = Len(rows[r]) /\ Len(rows[r]) \in Nat
  BY FinishRows
<1>3. AllFilled' /\ RowInv'
  <2>1. CASE AllRaw
    BY <2>1, FinishFills
  <2>2. CASE AllFilled
    <3>1. \A r \in Run : \A i \in 1..Len(rows[r]) : rows'[r][i] = rows[r][i]
      BY <2>2, FinishKeeps
    <3>2. QED
      BY <1>2, <2>2, <3>1, FilledKept DEF IInv
  <2>3. QED
    BY <2>1, <2>2 DEF IInv, FileInv
<1>4. ASSUME NEW q \in Proc PROVE fill'[q] = {}
  <2>1. CASE q = p
    BY <1>1, <2>1 DEF IInv, Types
  <2>2. CASE q # p /\ fill[p] # {}
    <3>1. lock = {p}
      BY <2>2 DEF IInv, LockInv
    <3>2. lock # {q}
      BY <2>2, <3>1
    <3>3. fill[q] = {}
      BY <3>2 DEF IInv, LockInv
    <3>4. QED
      BY <1>1, <2>2, <3>3 DEF IInv, Types
  <2>3. CASE q # p /\ fill[p] = {}
    <3>1. AllRaw => \A r \in Run : \A i \in 1..Len(rows[r]) : FALSE
      BY <1>1, <2>3 DEF IInv, OpenInv, CoverInv
    <3>2. AllRaw => fill[q] = {}
      BY <3>1 DEF IInv, OpenInv, FillInv
    <3>3. AllFilled => fill[q] = {}
      BY NoFill
    <3>4. QED
      BY <1>1, <2>3, <3>2, <3>3 DEF IInv, Types, FileInv
  <2>4. QED
    BY <2>1, <2>2, <2>3
<1>5. \A q \in Proc : at'[q].i # 0 => at'[q] = at[q] /\ scan'[q] = scan[q] /\ todo'[q] = todo[q]
  BY <1>1 DEF IInv, Types, NoPlace
<1>6. OpenInv'
  BY <1>2, <1>3, <1>4, <1>5, OpeningsGrow
<1>7. Types'
  BY <1>1, <1>2, EmptyLog, RunAssumption DEF IInv, Types, Label, NoPlace
<1>8. FileInv'
  BY <1>1, <1>2, <1>3 DEF IInv, FileInv
<1>9. LockInv'
  BY <1>1, <1>4 DEF IInv, Types, LockInv, NoPlace
<1>10. DraftInv'
  <2>1. SUFFICES ASSUME NEW q \in Proc
                 PROVE  /\ pc'[q] = "insert" =>
                              draft'[q].run \in runs' /\ draft'[q].event.data \in Data
                        /\ pc'[q] = "commit" =>
                             LET r == draft'[q].run   e == draft'[q].event   n == Len(rows'[r])
                             IN  /\ r \in runs' /\ e.data \in Data
                                 /\ e = Row(n, e.data, IF n = 0 THEN Null ELSE rows'[r][n].hash,
                                       Digest(r, n, e.data, IF n = 0 THEN Null ELSE rows'[r][n].hash))
    BY DEF DraftInv
  <2>2. CASE pc'[q] # "commit"
    BY <1>1, <2>2 DEF IInv, Types, DraftInv
  <2>3. CASE pc'[q] = "commit"
    <3>1. pc[q] = "commit"
      BY <1>1, <2>3 DEF IInv, Types
    <3>2. AllFilled
      BY <3>1 DEF IInv, FileInv, Opened
    <3>3. draft[q].run \in Run
      BY <3>1 DEF IInv, Types, DraftInv
    <3>4. \A i \in 1..Len(rows[draft[q].run]) : rows'[draft[q].run][i] = rows[draft[q].run][i]
      BY <3>2, <3>3, FinishKeeps
    <3> DEFINE m == Len(rows[draft[q].run])
    <3>5. m \in Nat /\ Len(rows'[draft[q].run]) = m
      BY <1>2, <3>3
    <3>6. m # 0 => rows'[draft[q].run][m] = rows[draft[q].run][m]
      BY <3>4, <3>5
    <3>7. QED
      BY <1>1, <2>3, <3>1, <3>5, <3>6 DEF IInv, DraftInv
  <2>4. QED
    BY <2>2, <2>3
<1>11. QED
  BY <1>3, <1>6, <1>7, <1>8, <1>9, <1>10 DEF IInv

\* The commit of an append extends its run by the next event of a valid chain.
LEMMA CommitInv ==
    ASSUME IInv, NEW p \in Proc, Commit(p)
    PROVE  IInv'
<1> DEFINE r == draft[p].run
           e == draft[p].event
           n == Len(rows[r])
<1>1. /\ pc[p] = "commit" /\ pc' = [pc EXCEPT ![p] = "ready"]
      /\ rows' = [rows EXCEPT ![r] = Append(@, e)]
      /\ lock' = lock \ {p} /\ draft' = [draft EXCEPT ![p] = NoDraft]
      /\ UNCHANGED <<runs, columns, known, todo, scan, at, fill>>
  BY DEF Commit, opening
<1>2. /\ r \in runs /\ r \in Run /\ e.data \in Data
      /\ e = Row(n, e.data, IF n = 0 THEN Null ELSE rows[r][n].hash,
                 Digest(r, n, e.data, IF n = 0 THEN Null ELSE rows[r][n].hash))
  BY <1>1 DEF IInv, Types, DraftInv
<1>3. AllFilled /\ \A q \in Proc : fill[q] = {}
  BY <1>1, NoFill DEF IInv, FileInv, Opened
<1>4. IsLog(rows[r]) /\ n \in Nat
  BY <1>2, LogFacts DEF IInv, Types
<1>5. /\ rows'[r] = Append(rows[r], e) /\ DOMAIN rows' = Run
      /\ \A t \in Run : t # r => rows'[t] = rows[t]
  BY <1>1, <1>2 DEF IInv, Types
<1>6. /\ IsLog(rows'[r]) /\ Len(rows'[r]) = n + 1
      /\ \A i \in 1..n : rows'[r][i] = rows[r][i]
      /\ rows'[r][n + 1] = e
  BY <1>4, <1>5, AppendLog
<1> HIDE DEF e, r, n
<1>7. /\ IsRow(e) /\ e.seq = n
      /\ e.previous = IF n = 0 THEN Null ELSE rows[r][n].hash
      /\ e.hash = Digest(r, n, e.data, IF n = 0 THEN Null ELSE rows[r][n].hash)
  BY <1>2 DEF Row, IsRow
<1>8. RowInv'
  <2>1. ASSUME NEW t \in Run, NEW i \in 1..Len(rows'[t])
        PROVE  IsRow(rows'[t][i]) /\ rows'[t][i].seq = i - 1 /\ rows'[t][i].data \in Data
    <3>1. CASE t # r
      BY <1>5, <2>1, <3>1 DEF IInv, RowInv
    <3>2. CASE t = r /\ i = n + 1
      BY <1>2, <1>4, <1>6, <1>7, <3>2
    <3>3. CASE t = r /\ i # n + 1
      <4>1. i \in 1..n /\ rows'[t][i] = rows[r][i]
        BY <1>4, <1>6, <2>1, <3>3
      <4>2. QED
        BY <1>2, <4>1 DEF IInv, RowInv, n
    <3>4. QED
      BY <3>1, <3>2, <3>3
  <2>2. QED
    BY <2>1 DEF RowInv
<1>9. AllFilled'
  <2>1. ASSUME NEW t \in Run, NEW i \in 1..Len(rows'[t])
        PROVE  LET previous == IF i = 1 THEN Null ELSE rows'[t][i - 1].hash
               IN  /\ rows'[t][i].seq = i - 1
                   /\ rows'[t][i].previous = previous
                   /\ rows'[t][i].hash = Digest(t, i - 1, rows'[t][i].data, previous)
    <3>1. CASE t # r
      BY <1>3, <1>5, <2>1, <3>1 DEF AllFilled, VerifyChain
    <3>2. CASE t = r /\ i = n + 1
      <4>1. n # 0 => rows'[t][i - 1] = rows[r][n]
        <5>1. n # 0 => n \in 1..n /\ i - 1 = n
          BY <1>4, <3>2
        <5>2. QED
          BY <1>6, <3>2, <5>1
      <4>2. (i = 1 <=> n = 0) /\ i - 1 = n
        BY <1>4, <3>2
      <4>3. QED
        BY <1>6, <1>7, <3>2, <4>1, <4>2
    <3>3. CASE t = r /\ i # n + 1
      <4>1. i \in 1..n /\ (i # 1 => i - 1 \in 1..n)
        BY <1>4, <1>6, <2>1, <3>3
      <4>2. rows'[t][i] = rows[r][i] /\ (i # 1 => rows'[t][i - 1] = rows[r][i - 1])
        BY <1>6, <3>3, <4>1
      <4>3. QED
        BY <1>2, <1>3, <3>3, <4>1, <4>2 DEF AllFilled, VerifyChain, n
    <3>4. QED
      BY <3>1, <3>2, <3>3
  <2>2. QED
    BY <2>1 DEF AllFilled, VerifyChain
<1>10. \A t \in Run : Len(rows[t]) \in Nat /\ Len(rows'[t]) \in Nat /\ Len(rows[t]) <= Len(rows'[t])
  <2>1. \A t \in Run : Len(rows[t]) \in Nat
    BY LogFacts DEF IInv, Types
  <2>2. QED
    BY <1>4, <1>5, <1>6, <2>1 DEF n
<1>11. OpenInv'
  BY <1>1, <1>3, <1>9, <1>10, OpeningsGrow
<1>12. Types'
  BY <1>1, <1>5, <1>6 DEF IInv, Types, Label
<1>13. FileInv'
  BY <1>1, <1>2, <1>5, <1>9 DEF IInv, FileInv
<1>14. ASSUME NEW q \in Proc, q # p PROVE pc[q] \notin {"insert", "commit"}
  <2>1. lock = {p} /\ lock # {q}
    BY <1>1, <1>14 DEF IInv, LockInv
  <2>2. QED
    BY <2>1 DEF IInv, LockInv
<1>15. LockInv'
  BY <1>1, <1>3, <1>14 DEF IInv, Types, LockInv
<1>16. DraftInv'
  BY <1>1, <1>14 DEF IInv, Types, DraftInv
<1>17. QED
  BY <1>8, <1>11, <1>12, <1>13, <1>15, <1>16 DEF IInv

-----------------------------------------------------------------------------
(* The other steps                                                         *)

LEMMA StopInv ==
    ASSUME IInv, NEW p \in Proc, Stop(p)
    PROVE  IInv'
<1>1. /\ lock' = lock \ {p} /\ pc' = [pc EXCEPT ![p] = "closed"]
      /\ known' = [known EXCEPT ![p] = {}] /\ todo' = [todo EXCEPT ![p] = {}]
      /\ scan' = [scan EXCEPT ![p] = <<>>] /\ fill' = [fill EXCEPT ![p] = {}]
      /\ at' = [at EXCEPT ![p] = NoPlace]
      /\ draft' = [draft EXCEPT ![p] = NoDraft]
      /\ UNCHANGED <<runs, rows, columns>>
  BY DEF Stop, Forget, table
<1>2. Types'
  BY <1>1, EmptyLog, RunAssumption DEF IInv, Types, Label, NoPlace
<1>3. FileInv' /\ LockInv' /\ DraftInv'
  BY <1>1, RowsKept DEF IInv, Types, FileInv, LockInv, DraftInv, Opened, NoPlace
<1>4. ASSUME NEW q \in Proc PROVE FillInv(q)' /\ PlaceInv(q)' /\ CoverInv(q)'
  <2>1. CASE q = p
    BY <1>1, <2>1 DEF IInv, Types, FillInv, PlaceInv, CoverInv, NoPlace
  <2>2. CASE q # p
    BY <1>1, <2>2, RowsKept DEF IInv, Types, OpenInv, FillInv, PlaceInv, CoverInv
  <2>3. QED
    BY <2>1, <2>2
<1>5. QED
  BY <1>1, <1>2, <1>3, <1>4, RowsKept DEF IInv, OpenInv

LEMMA CreateRunInv ==
    ASSUME IInv, NEW p \in Proc, NEW r \in Run, CreateRun(p, r)
    PROVE  IInv'
<1>1. /\ runs' = runs \cup {r}
      /\ UNCHANGED <<rows, columns, lock, pc, opening, draft>>
  BY DEF CreateRun
<1>2. Types' /\ FileInv' /\ LockInv' /\ DraftInv'
  BY <1>1, RowsKept DEF IInv, Types, FileInv, LockInv, DraftInv, Opened, opening
<1>3. QED
  BY <1>1, <1>2, RowsKept, OpeningsKept DEF IInv, opening

LEMMA BeginInv ==
    ASSUME IInv, NEW p \in Proc, NEW r \in Run, NEW d \in Data, Begin(p, r, d)
    PROVE  IInv'
<1>1. /\ pc[p] = "ready" /\ lock = {} /\ r \in runs
      /\ lock' = {p} /\ pc' = [pc EXCEPT ![p] = "insert"]
      /\ draft' = [draft EXCEPT ![p] = [run |-> r, event |-> Row(0, d, Null, Null)]]
      /\ UNCHANGED <<runs, rows, columns, known, todo, scan, at, fill>>
  BY DEF Begin, table, opening
<1>2. Types'
  BY <1>1 DEF IInv, Types, Label
<1>3. \A q \in Proc : fill[q] = {} /\ pc[q] \notin {"insert", "commit"}
  BY <1>1 DEF IInv, LockInv
<1>4. FileInv' /\ LockInv'
  BY <1>1, <1>3, RowsKept DEF IInv, Types, FileInv, LockInv, Opened
<1>5. DraftInv'
  BY <1>1, <1>3 DEF IInv, Types, DraftInv, Row
<1>6. OpenInv'
  BY <1>1, OpeningsKept DEF IInv, Types
<1>7. QED
  BY <1>1, <1>2, <1>4, <1>5, <1>6, RowsKept DEF IInv

LEMMA InsertInv ==
    ASSUME IInv, NEW p \in Proc, Insert(p)
    PROVE  IInv'
<1> DEFINE r == draft[p].run
           n == Len(rows[r])
           d == draft[p].event.data
           sequence == IF n = 0 THEN 0 ELSE rows[r][n].seq + 1
           previous == IF n = 0 THEN Null ELSE rows[r][n].hash
<1>1. /\ pc[p] = "insert" /\ pc' = [pc EXCEPT ![p] = "commit"]
      /\ draft' = [draft EXCEPT ![p] =
            [run |-> r, event |-> Row(sequence, d, previous, Digest(r, sequence, d, previous))]]
      /\ UNCHANGED <<runs, rows, columns, lock, known, todo, scan, at, fill>>
  BY DEF Insert, table, opening
<1>2. r \in runs /\ r \in Run /\ d \in Data
  BY <1>1 DEF IInv, Types, DraftInv
<1>3. n \in Nat
  BY <1>2, LogFacts DEF IInv, Types
<1>4. sequence = n
  BY <1>2, <1>3 DEF IInv, RowInv
<1>5. Types'
  BY <1>1 DEF IInv, Types, Label
<1>6. FileInv' /\ LockInv'
  BY <1>1, RowsKept DEF IInv, Types, FileInv, LockInv, Opened
<1>7. OpenInv'
  BY <1>1, OpeningsKept DEF IInv, Types
<1>8. DraftInv'
  <2>1. draft'[p] = [run |-> r, event |-> Row(n, d, previous, Digest(r, n, d, previous))]
    BY <1>1, <1>4 DEF IInv, Types
  <2>2. \A q \in Proc : q # p => draft'[q] = draft[q] /\ pc'[q] = pc[q]
    BY <1>1 DEF IInv, Types
  <2>3. draft'[p].run = r /\ draft'[p].event = Row(n, d, previous, Digest(r, n, d, previous))
    BY <2>1
  <2>4. draft'[p].event.data = d
    BY <2>3 DEF Row
  <2> HIDE DEF r, d
  <2>5. QED
    BY <1>1, <1>2, <2>2, <2>3, <2>4 DEF IInv, Types, DraftInv
<1>9. QED
  BY <1>1, <1>5, <1>6, <1>7, <1>8, RowsKept DEF IInv

LEMMA AbandonInv ==
    ASSUME IInv, NEW p \in Proc, Abandon(p)
    PROVE  IInv'
<1>1. /\ pc[p] \in {"insert", "commit"} /\ pc' = [pc EXCEPT ![p] = "ready"]
      /\ lock' = lock \ {p} /\ draft' = [draft EXCEPT ![p] = NoDraft]
      /\ UNCHANGED <<runs, rows, columns, known, todo, scan, at, fill>>
  BY DEF Abandon, table, opening
<1>2. Types'
  BY <1>1 DEF IInv, Types, Label
<1>3. \A q \in Proc : q # p => fill[q] = {}
  <2>1. SUFFICES ASSUME NEW q \in Proc, q # p PROVE lock # {q}
    BY DEF IInv, LockInv
  <2>2. lock = {p}
    BY <1>1 DEF IInv, LockInv
  <2>3. QED
    BY <2>1, <2>2
<1>4. fill[p] = {}
  BY <1>1 DEF IInv, LockInv
<1>5. FileInv' /\ LockInv' /\ DraftInv'
  BY <1>1, <1>3, <1>4, RowsKept DEF IInv, Types, FileInv, LockInv, DraftInv, Opened
<1>6. OpenInv'
  BY <1>1, OpeningsKept DEF IInv, Types
<1>7. QED
  BY <1>1, <1>2, <1>5, <1>6, RowsKept DEF IInv

LEMMA UnchangedInv ==
    ASSUME IInv, UNCHANGED <<table, lock, pc, opening, draft>>
    PROVE  IInv'
<1>1. Types' /\ FileInv' /\ LockInv' /\ DraftInv'
  BY RowsKept DEF IInv, Types, FileInv, LockInv, DraftInv, Opened, opening, table
<1>2. QED
  BY <1>1, RowsKept, OpeningsKept DEF IInv, table, opening

LEMMA StepInv == IInv /\ [Next]_vars => IInv'
<1> SUFFICES ASSUME IInv, [Next]_vars PROVE IInv'
  OBVIOUS
<1>1. ASSUME NEW p \in Proc, Proceed(p) PROVE IInv'
  BY <1>1, AddColumnInv, ListRunsInv, BackfillInv, FinishInv, InsertInv, CommitInv, AbandonInv,
     ReadRunInv DEF Proceed, Columns
<1>2. ASSUME NEW p \in Proc, NEW r \in Run,
             CreateRun(p, r) \/ \E d \in Data : Begin(p, r, d)
      PROVE  IInv'
  BY <1>2, CreateRunInv, BeginInv
<1>3. ASSUME NEW c \in Poller, Poll(c) PROVE IInv'
  BY <1>3, UnchangedInv DEF Poll
<1>4. CASE UNCHANGED vars
  BY <1>4, UnchangedInv DEF vars
<1>5. QED
  BY <1>1, <1>2, <1>3, <1>4, ConnectInv, StopInv DEF Next

-----------------------------------------------------------------------------
(* Theorems                                                                *)

\* The invariant that makes the chain inductive holds of every run of the store.
THEOREM InvCorrect == Spec => []IInv
<1>1. QED
  BY InitInv, StepInv, PTL DEF Spec

LEMMA InvServes == IInv => ServedChainValid
<1> SUFFICES ASSUME IInv PROVE ServedChainValid
  OBVIOUS
<1>1. TypeOK
  BY DEF IInv, Types, RowInv, TypeOK, Label
<1>2. DraftIsNext
  <2>1. SUFFICES ASSUME NEW p \in Proc, pc[p] = "commit"
                 PROVE  LET rowsThere == rows[draft[p].run]
                        IN  /\ draft[p].event.seq = Len(rowsThere)
                            /\ rowsThere # <<>> =>
                                 draft[p].event.previous = rowsThere[Len(rowsThere)].hash
    BY DEF DraftIsNext
  <2> DEFINE r == draft[p].run
             n == Len(rows[r])
           e == draft[p].event
  <2>2. /\ r \in Run
        /\ e = Row(n, e.data, IF n = 0 THEN Null ELSE rows[r][n].hash,
                   Digest(r, n, e.data, IF n = 0 THEN Null ELSE rows[r][n].hash))
    BY <2>1 DEF IInv, Types, DraftInv
  <2>3. IsLog(rows[r])
    BY <2>2 DEF IInv, Types
  <2>4. rows[r] # <<>> => n # 0
    BY <2>3, EmptySeq, LenProperties DEF IsLog
  <2> HIDE DEF e
  <2>5. e.seq = n /\ e.previous = IF n = 0 THEN Null ELSE rows[r][n].hash
    BY <2>2 DEF Row
  <2>6. QED
    BY <2>2, <2>4, <2>5 DEF e
<1>3. (\E p \in Proc : Opened(p)) => \A r \in Run : VerifyChain(r)
  BY DEF IInv, FileInv, AllFilled
<1>4. QED
  BY <1>1, <1>2, <1>3 DEF ServedChainValid

\* Who has the store open sees valid chains only, and the event drafted under the lock is
\* the next one until it is committed: for any number of processes that open, fill, append
\* and die at any point (storage.py: append, _migrate_and_backfill, verify_chain).
THEOREM ChainCorrect == Spec => []ServedChainValid
<1>1. QED
  BY InvCorrect, InvServes, PTL

-----------------------------------------------------------------------------
(* The log that the rows stand for                                         *)

Logged == [r \in Run |-> [i \in 1..Len(rows[r]) |-> rows[r][i].data]]

LEMMA LoggedRun ==
    ASSUME IInv, NEW r \in Run
    PROVE  /\ Logged[r] = [i \in 1..Len(rows[r]) |-> rows[r][i].data]
           /\ Len(rows[r]) \in Nat
           /\ Logged[r] \in Seq(Data) /\ Len(Logged[r]) = Len(rows[r])
           /\ Len(rows[r]) = 0 => Logged[r] = <<>>
<1>1. Logged[r] = [i \in 1..Len(rows[r]) |-> rows[r][i].data] /\ Len(rows[r]) \in Nat
  BY LogFacts DEF IInv, Types, Logged
<1>2. Logged[r] \in [1..Len(rows[r]) -> Data]
  BY <1>1 DEF IInv, RowInv
<1>3. Logged[r] \in Seq(Data)
  BY <1>1, <1>2, SeqDef
<1>4. Len(Logged[r]) = Len(rows[r])
  BY <1>1, <1>2, <1>3, LenProperties
<1>5. QED
  BY <1>1, <1>3, <1>4, EmptySeq

LEMMA AppendFunction ==
    ASSUME NEW s \in Seq(Data), NEW d \in Data, NEW n \in Nat, Len(s) = n,
           NEW f \in [1..n + 1 -> Data], \A i \in 1..n : f[i] = s[i], f[n + 1] = d
    PROVE  Append(s, d) = f
<1> DEFINE t == Append(s, d)
<1>1. /\ t \in Seq(Data) /\ Len(t) = n + 1
      /\ \A i \in 1..n : t[i] = s[i]
      /\ t[n + 1] = d
  BY AppendProperties
<1> HIDE DEF t
<1>2. t \in [1..n + 1 -> Data]
  BY <1>1, LenProperties
<1>3. ASSUME NEW i \in 1..n + 1 PROVE t[i] = f[i]
  <2>1. i \in 1..n \/ i = n + 1
    OBVIOUS
  <2>2. QED
    BY <1>1, <2>1
<1>4. t = f
  BY <1>2, <1>3
<1>5. QED
  BY <1>4 DEF t

\* Every step that adds no event leaves the log alone.
LEMMA LoggedKept ==
    ASSUME \A r \in Run : Len(rows'[r]) = Len(rows[r]),
           \A r \in Run : \A i \in 1..Len(rows[r]) : rows'[r][i].data = rows[r][i].data
    PROVE  Logged' = Logged
BY DEF Logged

LEMMA LogStep == IInv /\ IInv' /\ [Next]_vars => [Log!Next]_(Log!logVars)
<1> SUFFICES ASSUME IInv, IInv', [Next]_vars PROVE [Log!Next]_(Log!logVars)
  OBVIOUS
<1>1. ASSUME runs' = runs, Logged' = Logged PROVE UNCHANGED Log!logVars
  BY <1>1 DEF Log!logVars, Logged
<1>2. ASSUME UNCHANGED table PROVE UNCHANGED Log!logVars
  BY <1>1, <1>2 DEF table, Logged
<1>3. ASSUME NEW p \in Proc, FinishOpening(p) PROVE UNCHANGED Log!logVars
  <2>1. runs' = runs
    BY <1>3 DEF FinishOpening
  <2>2. \A r \in Run : Len(rows'[r]) = Len(rows[r])
    BY <1>3, FinishRows
  <2>3. CASE AllRaw
    BY <1>1, <1>3, <2>1, <2>2, <2>3, FinishFills, LoggedKept
  <2>4. CASE AllFilled
    BY <1>1, <1>3, <2>1, <2>2, <2>4, FinishKeeps, LoggedKept
  <2>5. QED
    BY <2>3, <2>4 DEF IInv, FileInv
<1>4. ASSUME NEW p \in Proc, NEW column \in Columns, NEW next \in {"event_hash", "list"},
             AddColumn(p, column, next)
      PROVE  UNCHANGED Log!logVars
  BY <1>1, <1>4 DEF AddColumn, Logged
<1>5. ASSUME NEW p \in Proc, NEW r \in Run, CreateRun(p, r)
      PROVE  Log!Next
  <2>1. r \in Run \ runs /\ runs' = runs \cup {r} /\ Logged' = Logged
    BY <1>5 DEF CreateRun, Logged
  <2>2. Log!Create(r)
    BY <2>1 DEF Log!Create, Logged
  <2>3. QED
    BY <2>2 DEF Log!Next
<1>6. ASSUME NEW p \in Proc, Commit(p)
      PROVE  Log!Next
  <2> DEFINE r == draft[p].run
             e == draft[p].event
             n == Len(rows[r])
             extended == [Logged EXCEPT ![r] = Append(@, e.data)]
  <2>1. pc[p] = "commit" /\ rows' = [rows EXCEPT ![r] = Append(@, e)] /\ runs' = runs
    BY <1>6 DEF Commit
  <2>2. r \in runs /\ r \in Run /\ e.data \in Data
    BY <2>1 DEF IInv, Types, DraftInv
  <2>3. rows'[r] = Append(rows[r], e) /\ \A t \in Run : t # r => rows'[t] = rows[t]
    BY <2>1, <2>2 DEF IInv, Types
  <2>4. IsLog(rows[r]) /\ n \in Nat
    BY <2>2, LogFacts DEF IInv, Types
  <2> HIDE DEF r, e, n
  <2>5. /\ Len(rows'[r]) = n + 1 /\ rows'[r][n + 1] = e
        /\ \A i \in 1..n : rows'[r][i] = rows[r][i]
    BY <2>3, <2>4, AppendLog DEF n
  <2>6. /\ Logged[r] \in Seq(Data) /\ Len(Logged[r]) = n
        /\ Logged[r] = [i \in 1..n |-> rows[r][i].data]
    BY <2>2, LoggedRun DEF n
  <2>7. Logged'[r] = [i \in 1..n + 1 |-> rows'[r][i].data]
    BY <2>2, <2>5 DEF Logged
  <2>8. \A i \in 1..n : Logged'[r][i] = Logged[r][i]
    BY <2>4, <2>5, <2>6, <2>7
  <2>9. Append(Logged[r], e.data) = Logged'[r]
    <3>1. Logged'[r][n + 1] = e.data
      BY <2>4, <2>5, <2>7
    <3>2. Logged'[r] \in [1..n + 1 -> Data]
      <4>1. \A i \in 1..n + 1 : rows'[r][i].data \in Data
        BY <2>2, <2>5 DEF IInv, RowInv
      <4>2. QED
        BY <2>7, <4>1
    <3>3. QED
      BY <2>2, <2>4, <2>6, <2>8, <3>1, <3>2, AppendFunction
  <2>10. Logged' = extended
    <3>1. \A t \in Run : Logged'[t] = extended[t]
      BY <2>2, <2>3, <2>9 DEF Logged
    <3>2. QED
      BY <3>1 DEF Logged
  <2>11. Log!Extend(r, e.data)
    BY <2>1, <2>2, <2>10 DEF Log!Extend, Logged
  <2>12. QED
    BY <2>2, <2>11 DEF Log!Next, Log!Extend
<1>7. ASSUME NEW p \in Proc, Proceed(p) PROVE [Log!Next]_(Log!logVars)
  <2>1. CASE FinishOpening(p)
    BY <1>3, <2>1
  <2>2. CASE Commit(p)
    BY <1>6, <2>2
  <2>3. CASE AddColumn(p, "previous_hash", "event_hash") \/ AddColumn(p, "event_hash", "list")
    BY <1>4, <2>3 DEF Columns
  <2>4. CASE ListRuns(p) \/ Backfill(p) \/ Insert(p) \/ Abandon(p)
             \/ \E r \in Run : ReadRun(p, r)
    BY <1>2, <2>4 DEF ListRuns, Backfill, Insert, Abandon, ReadRun
  <2>5. QED
    BY <1>7, <2>1, <2>2, <2>3, <2>4 DEF Proceed
<1>8. ASSUME NEW p \in Proc, NEW r \in Run, NEW d \in Data, Begin(p, r, d)
      PROVE  UNCHANGED Log!logVars
  BY <1>2, <1>8 DEF Begin
<1>9. ASSUME NEW p \in Proc, Connect(p) \/ Stop(p) PROVE UNCHANGED Log!logVars
  BY <1>2, <1>9 DEF Connect, Stop
<1>10. ASSUME NEW c \in Poller, Poll(c) PROVE UNCHANGED Log!logVars
  BY <1>2, <1>10 DEF Poll
<1>11. CASE UNCHANGED vars
  BY <1>2, <1>11 DEF vars
<1>12. QED
  BY <1>5, <1>7, <1>8, <1>9, <1>10, <1>11 DEF Next

\* Whatever the processes do, the store is for its readers a set of runs with a log each
\* that grows at its end, one event at a time, and is never shortened or rewritten, by a
\* backfill, a crash or an append given up (storage.py: create_run, append,
\* _migrate_and_backfill).
THEOREM LogImplemented == Spec => ImplementsRunLog
<1>1. Init => Log!Init
  <2>1. SUFFICES ASSUME Init PROVE Log!Init
    OBVIOUS
  <2>2. IInv
    BY <2>1, InitInv
  <2>3. ASSUME NEW r \in Run, r \notin runs PROVE Logged[r] = <<>>
    <3>1. Len(rows[r]) = 0
      BY <2>2, <2>3, LogFacts DEF IInv, Types, FileInv
    <3>2. QED
      BY <2>2, <2>3, <3>1, LoggedRun
  <2>4. QED
    BY <2>2, <2>3 DEF Log!Init, Logged, IInv, Types
<1>2. QED
  BY <1>1, InvCorrect, LogStep, PTL DEF Spec, ImplementsRunLog, Log!Spec

-----------------------------------------------------------------------------
(* What has been given out                                                 *)

LEMMA IntervalSize ==
    ASSUME NEW a \in Int, NEW b \in Int, a <= b + 1
    PROVE  Cardinality(a..b) = b - a + 1
<1>1. Cardinality(a..b) = IF a > b THEN 0 ELSE b - a + 1
  BY FS_Interval
<1> QED BY <1>1

\* A page of events_after is the events that follow those before the cursor.
LEMMA PageFollows ==
    ASSUME IInv, NEW r \in Run, NEW m \in 0..Len(rows[r]), NEW limit \in Nat
    PROVE  \E n \in 0..Len(rows[r]) - m :
              After(r, m - 1, limit) = [k \in 1..n |-> rows[r][m + k]]
<1> DEFINE L == Len(rows[r])
           later == {i \in 1..L : rows[r][i].seq > m - 1}
           Before(i) == {j \in later : rows[r][j].seq < rows[r][i].seq}
           found == Cardinality(later)
           size == IF found < limit THEN found ELSE limit
<1>1. L \in Nat /\ m \in Nat /\ m <= L
  BY LogFacts DEF IInv, Types
<1>2. \A i \in 1..L : rows[r][i].seq = i - 1
  BY DEF IInv, RowInv
<1>3. later = (m + 1)..L
  BY <1>1, <1>2
<1>4. found = L - m
  <2>1. Cardinality((m + 1)..L) = L - (m + 1) + 1
    BY <1>1, IntervalSize
  <2> HIDE DEF later
  <2> QED BY <1>1, <1>3, <2>1
<1>5. ASSUME NEW i \in later PROVE Cardinality(Before(i)) = i - 1 - m
  <2>1. Before(i) = (m + 1)..(i - 1)
    BY <1>1, <1>2, <1>3
  <2>2. i \in Int /\ i >= m + 1
    BY <1>1, <1>3
  <2>3. Cardinality((m + 1)..(i - 1)) = i - 1 - (m + 1) + 1
    BY <1>1, <2>2, IntervalSize
  <2> HIDE DEF Before
  <2> QED BY <1>1, <2>1, <2>2, <2>3
<1>6. size \in 0..L - m
  BY <1>1, <1>4
<1>7. After(r, m - 1, limit) =
        [k \in 1..size |-> rows[r][CHOOSE i \in later : Cardinality(Before(i)) = k - 1]]
  BY DEF After
<1>8. ASSUME NEW k \in 1..size
      PROVE  (CHOOSE i \in later : Cardinality(Before(i)) = k - 1) = m + k
  <2>1. m + k \in later
    BY <1>1, <1>3, <1>6
  <2>2. \A i \in later : Cardinality(Before(i)) = k - 1 <=> i = m + k
    <3> SUFFICES ASSUME NEW i \in later PROVE Cardinality(Before(i)) = k - 1 <=> i = m + k
      OBVIOUS
    <3>1. Cardinality(Before(i)) = i - 1 - m /\ i \in Int
      BY <1>1, <1>3, <1>5
    <3> HIDE DEF Before, later
    <3> QED BY <1>1, <1>6, <3>1
  <2> HIDE DEF Before, later
  <2> QED BY <2>1, <2>2
<1>9. After(r, m - 1, limit) = [k \in 1..size |-> rows[r][m + k]]
  <2> HIDE DEF Before, later, size
  <2> QED BY <1>7, <1>8
<1> QED BY <1>6, <1>9

\* An answer is an initial part of the run.
IsPrefix(s, t) == IsLog(s) /\ Len(s) <= Len(t) /\ \A i \in 1..Len(s) : s[i] = t[i]

\* What append returned and what the pollers have is on record, and what is on record when
\* something has been given out is filled.
KeptInv ==
    /\ DOMAIN seen = Poller
    /\ \A a \in acked : /\ a.run \in Run
                        /\ a.event.seq + 1 \in 1..Len(rows[a.run])
                        /\ a.event.seq \in Nat
                        /\ rows[a.run][a.event.seq + 1] = a.event
    /\ \A c \in Poller : IsPrefix(seen[c], rows[Followed])
    /\ acked # {} => AllFilled
    /\ \A c \in Poller : seen[c] # <<>> => AllFilled

LEMMA KeptInit == Init => KeptInv
<1> SUFFICES ASSUME Init PROVE KeptInv
  OBVIOUS
<1>1. IInv
  BY InitInv
<1>2. Len(rows[Followed]) \in Nat
  BY <1>1, LogFacts, RunAssumption DEF IInv, Types
<1> QED BY <1>2, EmptyLog DEF Init, KeptInv, IsPrefix

\* A step that keeps every row, or finds the file unfilled, keeps what was given out.
LEMMA KeptGrows ==
    ASSUME IInv, IInv', KeptInv, UNCHANGED <<acked, seen>>,
           AllFilled => /\ AllFilled'
                        /\ \A r \in Run : /\ Len(rows[r]) <= Len(rows'[r])
                                          /\ \A i \in 1..Len(rows[r]) : rows'[r][i] = rows[r][i]
    PROVE  KeptInv'
<1>1. \A r \in Run : Len(rows[r]) \in Nat /\ Len(rows'[r]) \in Nat
  BY LogFacts DEF IInv, Types
<1>2. Followed \in Run
  BY RunAssumption
<1>3. ASSUME NEW a \in acked
      PROVE  /\ a.run \in Run /\ a.event.seq + 1 \in 1..Len(rows'[a.run])
             /\ a.event.seq \in Nat /\ rows'[a.run][a.event.seq + 1] = a.event
  <2>1. /\ AllFilled /\ a.run \in Run /\ a.event.seq + 1 \in 1..Len(rows[a.run])
        /\ a.event.seq \in Nat /\ rows[a.run][a.event.seq + 1] = a.event
    BY DEF KeptInv
  <2>2. /\ Len(rows[a.run]) <= Len(rows'[a.run])
        /\ rows'[a.run][a.event.seq + 1] = rows[a.run][a.event.seq + 1]
    BY <2>1
  <2> QED BY <1>1, <2>1, <2>2
<1>4. ASSUME NEW c \in Poller PROVE IsPrefix(seen[c], rows'[Followed])
  <2>1. IsPrefix(seen[c], rows[Followed]) /\ (seen[c] # <<>> => AllFilled)
    BY DEF KeptInv
  <2>2. CASE seen[c] = <<>>
    BY <1>1, <1>2, <2>2, EmptyLog DEF IsPrefix
  <2>3. CASE seen[c] # <<>>
    <3>1. /\ Len(rows[Followed]) <= Len(rows'[Followed])
          /\ \A i \in 1..Len(rows[Followed]) : rows'[Followed][i] = rows[Followed][i]
      BY <1>2, <2>1, <2>3
    <3>2. Len(seen[c]) \in Nat
      BY <2>1, LogFacts DEF IsPrefix
    <3> QED BY <1>1, <1>2, <2>1, <3>1, <3>2 DEF IsPrefix
  <2> QED BY <2>2, <2>3
<1> QED BY <1>3, <1>4 DEF KeptInv

\* A page is appended to what the poller has.
LEMMA PollKeeps ==
    ASSUME IInv, KeptInv, NEW c \in Poller, Poll(c)
    PROVE  KeptInv'
<1> DEFINE s == seen[c]
           m == Len(s)
           all == rows[Followed]
           page == After(Followed, Cursor(c), PageSize)
<1>1. /\ AllFilled /\ seen' = [seen EXCEPT ![c] = s \o page]
      /\ UNCHANGED <<rows, acked>> /\ (AllFilled' <=> AllFilled)
  BY DEF Poll, table, IInv, FileInv, AllFilled, VerifyChain
<1>2. /\ Followed \in Run /\ IsLog(all) /\ Len(all) \in Nat
      /\ IsPrefix(s, all) /\ m \in 0..Len(all) /\ IsLog(s) /\ DOMAIN seen = Poller
  BY LogFacts, RunAssumption DEF IInv, Types, KeptInv, IsPrefix
<1>3. Cursor(c) = m - 1
  <2>1. CASE s = <<>>
    BY <2>1, EmptyLog DEF Cursor
  <2>2. CASE s # <<>>
    <3>1. m # 0
      BY <1>2, <2>2, EmptySeq DEF IsLog
    <3>2. m \in 1..Len(all)
      BY <1>2, <3>1
    <3>3. s[m] = all[m]
      BY <1>2, <3>2 DEF IsPrefix
    <3>4. all[m].seq = m - 1
      BY <1>2, <3>2 DEF IInv, RowInv
    <3> QED BY <2>2, <3>3, <3>4 DEF Cursor
  <2> QED BY <2>1, <2>2
<1>4. PICK n \in 0..Len(all) - m : page = [k \in 1..n |-> all[m + k]]
  <2>1. PageSize \in Nat
    BY PageAssumption
  <2>2. \E n \in 0..Len(all) - m :
          After(Followed, m - 1, PageSize) = [k \in 1..n |-> all[m + k]]
    BY <1>2, <2>1, PageFollows
  <2> QED BY <1>3, <2>2
<1>5. IsPrefix(s \o page, all)
  <2> DEFINE S == {all[i] : i \in 1..Len(all)}
  <2>1. \A k \in 1..n : m + k \in 1..Len(all)
    BY <1>2, <1>4
  <2>2. page \in Seq(S) /\ Len(page) = n
    <3>1. page \in [1..n -> S]
      BY <1>4, <2>1
    <3>2. n \in Nat
      BY <1>2, <1>4
    <3>3. page \in Seq(S)
      BY <3>1, <3>2, SeqDef
    <3> HIDE DEF S, page
    <3> QED BY <3>1, <3>2, <3>3, LenProperties
  <2>3. s \in Seq(S)
    <3>1. {s[i] : i \in 1..m} \subseteq S
      BY <1>2 DEF IsPrefix
    <3>2. s \in Seq({s[i] : i \in 1..m})
      BY <1>2 DEF IsLog
    <3> HIDE DEF S
    <3> QED BY <3>1, <3>2, SeqMonotonic
  <2>4. \A k \in 1..n : page[k] = all[m + k]
    BY <1>4
  <2> DEFINE t == s \o page
  <2> HIDE DEF S, page
  <2>5. /\ t \in Seq(S) /\ Len(t) = m + n
        /\ \A i \in 1..m + n : t[i] = IF i <= m THEN s[i] ELSE page[i - m]
    BY <2>2, <2>3, ConcatProperties
  <2> HIDE DEF t
  <2>6. ASSUME NEW i \in 1..m + n PROVE t[i] = all[i]
    <3>1. CASE i <= m
      BY <1>2, <2>5, <3>1 DEF IsPrefix
    <3>2. CASE ~(i <= m)
      <4>1. i - m \in 1..n /\ m + (i - m) = i
        BY <1>2, <1>4, <3>2
      <4> QED BY <2>4, <2>5, <3>2, <4>1
    <3> QED BY <3>1, <3>2
  <2>7. IsLog(t)
    <3>1. t \in [1..m + n -> S] /\ m + n \in Nat
      BY <1>2, <1>4, <2>5, LenProperties
    <3> QED BY <3>1, FunctionLog
  <2>8. m + n <= Len(all)
    BY <1>2, <1>4
  <2> QED BY <2>5, <2>6, <2>7, <2>8 DEF IsPrefix, t
<1> HIDE DEF page
<1>6. ASSUME NEW q \in Poller PROVE IsPrefix(seen'[q], rows'[Followed])
  <2>1. CASE q = c
    BY <1>1, <1>2, <1>5, <2>1
  <2>2. CASE q # c
    BY <1>1, <1>2, <2>2 DEF KeptInv
  <2> QED BY <2>1, <2>2
<1> QED BY <1>1, <1>2, <1>6 DEF KeptInv

\* The event that append returns is the one it added.
LEMMA CommitKeeps ==
    ASSUME IInv, IInv', KeptInv, NEW p \in Proc, Commit(p)
    PROVE  KeptInv'
<1> DEFINE r == draft[p].run
           e == draft[p].event
           n == Len(rows[r])
           a == [run |-> r, event |-> e]
<1>1. /\ pc[p] = "commit" /\ rows' = [rows EXCEPT ![r] = Append(@, e)]
      /\ acked' = acked \cup {a} /\ UNCHANGED seen
  BY DEF Commit
<1>2. r \in Run /\ e.seq = n
  <2>1. /\ r \in runs /\ runs \subseteq Run
        /\ e = Row(n, e.data, IF n = 0 THEN Null ELSE rows[r][n].hash,
                   Digest(r, n, e.data, IF n = 0 THEN Null ELSE rows[r][n].hash))
    BY <1>1 DEF IInv, Types, DraftInv
  <2> HIDE DEF e
  <2> QED BY <2>1 DEF Row
<1>3. AllFilled /\ AllFilled'
  <2>1. AllFilled
    BY <1>1 DEF IInv, FileInv, Opened
  <2>2. Opened(p)'
    BY DEF Commit, Opened, IInv, Types
  <2> QED BY <2>1, <2>2 DEF IInv, FileInv
<1>4. /\ IsLog(rows[r]) /\ n \in Nat
      /\ rows'[r] = Append(rows[r], e) /\ \A t \in Run : t # r => rows'[t] = rows[t]
  BY <1>1, <1>2, LogFacts DEF IInv, Types
<1> HIDE DEF r, e, n
<1>5. /\ Len(rows'[r]) = n + 1 /\ rows'[r][n + 1] = e
      /\ \A i \in 1..n : rows'[r][i] = rows[r][i]
  BY <1>4, AppendLog DEF n
<1>6. \A t \in Run : /\ Len(rows[t]) <= Len(rows'[t])
                     /\ \A i \in 1..Len(rows[t]) : rows'[t][i] = rows[t][i]
  <2> SUFFICES ASSUME NEW t \in Run
               PROVE  /\ Len(rows[t]) <= Len(rows'[t])
                      /\ \A i \in 1..Len(rows[t]) : rows'[t][i] = rows[t][i]
    OBVIOUS
  <2>1. CASE t = r
    BY <1>4, <1>5, <2>1 DEF n
  <2>2. CASE t # r
    <3>1. Len(rows[t]) \in Nat /\ rows'[t] = rows[t]
      BY <1>4, <2>2, LogFacts DEF IInv, Types
    <3> QED BY <3>1
  <2> QED BY <2>1, <2>2
<1>7. ASSUME NEW b \in acked'
      PROVE  /\ b.run \in Run /\ b.event.seq + 1 \in 1..Len(rows'[b.run])
             /\ b.event.seq \in Nat /\ rows'[b.run][b.event.seq + 1] = b.event
  <2>1. CASE b = a
    <3>1. b.run = r /\ b.event = e
      BY <2>1
    <3> QED BY <1>2, <1>4, <1>5, <3>1
  <2>2. CASE b \in acked
    <3>1. /\ b.run \in Run /\ b.event.seq + 1 \in 1..Len(rows[b.run])
          /\ b.event.seq \in Nat /\ rows[b.run][b.event.seq + 1] = b.event
      BY <2>2 DEF KeptInv
    <3>2. /\ Len(rows[b.run]) <= Len(rows'[b.run])
          /\ rows'[b.run][b.event.seq + 1] = rows[b.run][b.event.seq + 1]
          /\ Len(rows[b.run]) \in Nat /\ Len(rows'[b.run]) \in Nat
      BY <1>6, <3>1, LogFacts DEF IInv, Types
    <3> QED BY <3>1, <3>2
  <2> QED BY <1>1, <2>1, <2>2
<1>8. ASSUME NEW c \in Poller PROVE IsPrefix(seen'[c], rows'[Followed])
  <2>1. IsPrefix(seen[c], rows[Followed]) /\ Followed \in Run
    BY RunAssumption DEF KeptInv
  <2>2. /\ Len(rows[Followed]) \in Nat /\ Len(rows'[Followed]) \in Nat
        /\ Len(seen[c]) \in Nat
    BY <2>1, LogFacts DEF IInv, Types, IsPrefix
  <2> QED BY <1>1, <1>6, <2>1, <2>2 DEF IsPrefix
<1> QED BY <1>1, <1>3, <1>7, <1>8 DEF KeptInv

LEMMA KeptStep == IInv /\ IInv' /\ KeptInv /\ [Next]_vars => KeptInv'
<1> SUFFICES ASSUME IInv, IInv', KeptInv, [Next]_vars PROVE KeptInv'
  OBVIOUS
<1>1. ASSUME UNCHANGED <<rows, acked, seen>> PROVE KeptInv'
  <2>1. AllFilled' <=> AllFilled
    BY <1>1, RowsKept
  <2>2. \A r \in Run : Len(rows[r]) \in Nat
    BY LogFacts DEF IInv, Types
  <2> QED BY <1>1, <2>1, <2>2, KeptGrows
<1>2. ASSUME NEW p \in Proc, FinishOpening(p) PROVE KeptInv'
  <2>1. UNCHANGED <<acked, seen>>
    BY <1>2 DEF FinishOpening
  <2>2. ASSUME AllFilled
        PROVE  /\ AllFilled'
               /\ \A r \in Run : /\ Len(rows[r]) <= Len(rows'[r])
                                 /\ \A i \in 1..Len(rows[r]) : rows'[r][i] = rows[r][i]
    BY <1>2, <2>2, FinishRows, FinishKeeps, FilledKept DEF IInv
  <2> QED BY <2>1, <2>2, KeptGrows
<1>3. ASSUME NEW p \in Proc, Proceed(p) PROVE KeptInv'
  <2>1. CASE FinishOpening(p) \/ Commit(p)
    BY <1>2, <2>1, CommitKeeps
  <2>2. CASE \/ AddColumn(p, "previous_hash", "event_hash") \/ AddColumn(p, "event_hash", "list")
             \/ ListRuns(p) \/ Backfill(p) \/ Insert(p) \/ Abandon(p)
             \/ \E r \in Run : ReadRun(p, r)
    BY <1>1, <2>2 DEF AddColumn, ListRuns, Backfill, Insert, Abandon, ReadRun, table
  <2> QED BY <1>3, <2>1, <2>2 DEF Proceed
<1>4. ASSUME NEW p \in Proc, Connect(p) \/ Stop(p) PROVE KeptInv'
  BY <1>1, <1>4 DEF Connect, Stop, table
<1>5. ASSUME NEW p \in Proc, NEW r \in Run,
             CreateRun(p, r) \/ \E d \in Data : Begin(p, r, d)
      PROVE  KeptInv'
  BY <1>1, <1>5 DEF CreateRun, Begin, table
<1>6. CASE UNCHANGED vars
  BY <1>1, <1>6 DEF vars, table
<1> QED BY <1>3, <1>4, <1>5, <1>6, PollKeeps DEF Next

\* An append that returned stays on record as it was returned, and a page that pages with
\* its cursor has every event of the run up to there once, in order and in its final form:
\* whatever opens, fills, appends or dies meanwhile (storage.py: append, events_after).
THEOREM EvidenceCorrect == Spec => []EvidenceKept
<1>1. ASSUME IInv, KeptInv PROVE EvidenceKept
  <2>1. \A r \in Run : Len(rows[r]) \in Nat
    BY <1>1, LogFacts DEF IInv, Types
  <2>2. \A a \in acked : /\ a.event.seq < Len(rows[a.run])
                         /\ rows[a.run][a.event.seq + 1] = a.event
    <3> SUFFICES ASSUME NEW a \in acked
                 PROVE  /\ a.event.seq < Len(rows[a.run])
                        /\ rows[a.run][a.event.seq + 1] = a.event
      OBVIOUS
    <3>1. /\ a.run \in Run /\ a.event.seq + 1 \in 1..Len(rows[a.run])
          /\ a.event.seq \in Nat /\ rows[a.run][a.event.seq + 1] = a.event
      BY <1>1 DEF KeptInv
    <3> QED BY <2>1, <3>1
  <2>3. ASSUME NEW c \in Poller
        PROVE  /\ Len(seen[c]) <= Len(rows[Followed])
               /\ seen[c] = SubSeq(rows[Followed], 1, Len(seen[c]))
    <3> DEFINE s == seen[c]
               all == rows[Followed]
               S == {all[i] : i \in 1..Len(all)}
               t == SubSeq(all, 1, Len(s))
    <3>1. /\ IsLog(s) /\ Len(s) <= Len(all) /\ \A i \in 1..Len(s) : s[i] = all[i]
      BY <1>1 DEF KeptInv, IsPrefix
    <3>2. Len(s) \in Nat /\ Len(all) \in Nat
      BY <2>1, <3>1, LogFacts, RunAssumption
    <3>3. \A i \in 1..Len(s) : all[i] \in S
      BY <3>1, <3>2
    <3>4. s \in Seq(S)
      <4>1. {s[i] : i \in 1..Len(s)} \subseteq S
        BY <3>1, <3>3
      <4> HIDE DEF S
      <4> QED BY <3>1, <4>1, SeqMonotonic DEF IsLog
    <3> HIDE DEF S, s, all
    <3>5. /\ t \in Seq(S) /\ Len(t) = IF 1 <= Len(s) THEN Len(s) - 1 + 1 ELSE 0
          /\ \A i \in 1..Len(s) - 1 + 1 : t[i] = all[1 + i - 1]
      BY <3>2, <3>3, SubSeqProperties
    <3> HIDE DEF t
    <3>6. Len(t) = Len(s) /\ \A i \in 1..Len(s) : s[i] = t[i]
      BY <3>1, <3>2, <3>5
    <3>7. s = t
      BY <3>4, <3>5, <3>6, SeqEqual
    <3> QED BY <3>1, <3>7 DEF s, all, t
  <2> QED BY <2>2, <2>3 DEF EvidenceKept
<1> QED BY <1>1, InvCorrect, KeptInit, KeptStep, PTL DEF Spec
=============================================================================
