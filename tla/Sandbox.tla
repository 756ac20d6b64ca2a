------------------------------ MODULE Sandbox -------------------------------
(***************************************************************************)
(* The process a generated program runs in (sandbox.py): requests are      *)
(* serialised by a lock, written as one line to a worker process, answered *)
(* by one line, and given up after a timeout.  The worker may compute for  *)
(* ever, answer at any time, also when nobody waits any more, or die.      *)
(*                                                                         *)
(* close() takes no lock.  It is called by the thread that makes the       *)
(* requests (interactive.py:539, planning/dsl.py:71), so between them.     *)
(***************************************************************************)
EXTENDS Integers, Sequences

CONSTANTS
    Caller,         \* threads that call the generated code
    Worker,         \* process slots; the slot of a reaped worker is used again
    MaxCalls        \* bound: requests made

VARIABLES
    process,        \* the worker GeneratedProcess holds, if any
    lock,           \* the caller inside _request, if any
    pc, asked,      \* where a caller is, the request it is making
    result,         \* what its last call came to
    calls,          \* requests made so far; each is named by its number
    alive, loaded,  \* of a worker: it runs, and it has compiled its source
    doing,          \* the requests it has read and not answered
    out             \* the lines in its output pipe

callers == <<lock, pc, asked, result, calls>>
workers == <<alive, loaded, doing, out>>
vars    == <<process, callers, workers>>

-----------------------------------------------------------------------------
Load   == 0                       \* the request that every worker gets first
Answer == [to : Nat, ok : BOOLEAN]
Failed == [to |-> Load, ok |-> FALSE]        \* SandboxError, SandboxTimeout

Init ==
    /\ process = {} /\ lock = {}
    /\ pc = [c \in Caller |-> "idle"]
    /\ asked = [c \in Caller |-> Load] /\ result = [c \in Caller |-> Failed]
    /\ calls = 0
    /\ alive = [w \in Worker |-> FALSE] /\ loaded = [w \in Worker |-> FALSE]
    /\ doing = [w \in Worker |-> {}] /\ out = [w \in Worker |-> <<>>]

-----------------------------------------------------------------------------
(* The calling side                                                        *)

Call(c) ==
    /\ pc[c] = "idle" /\ calls < MaxCalls
    /\ calls' = calls + 1
    /\ asked' = [asked EXCEPT ![c] = calls + 1]
    /\ pc' = [pc EXCEPT ![c] = "want"]
    /\ UNCHANGED <<process, lock, result, workers>>

\* _request under the lock, with a worker that runs.
Enter(c) ==
    /\ pc[c] = "want" /\ lock = {}
    /\ \E w \in process : alive[w]
    /\ lock' = {c}
    /\ pc' = [pc EXCEPT ![c] = "send"]
    /\ UNCHANGED <<process, asked, result, calls, workers>>

\* _start: a new worker in place of none or a dead one, and its source sent.
Start(c, w) ==
    /\ pc[c] = "want" /\ lock = {}
    /\ \A v \in process : ~alive[v]
    /\ ~alive[w]
    /\ lock' = {c}
    /\ process' = {w}
    /\ alive' = [alive EXCEPT ![w] = TRUE] /\ loaded' = [loaded EXCEPT ![w] = FALSE]
    /\ doing' = [doing EXCEPT ![w] = {Load}] /\ out' = [out EXCEPT ![w] = <<>>]
    /\ pc' = [pc EXCEPT ![c] = "loading"]
    /\ UNCHANGED <<asked, result, calls>>

\* _exchange, the write; a worker that is gone is noticed by reading.
Send(c, w) ==
    /\ pc[c] = "send" /\ w \in process
    /\ doing' = [doing EXCEPT ![w] = IF alive[w] THEN @ \cup {asked[c]} ELSE @]
    /\ pc' = [pc EXCEPT ![c] = "calling"]
    /\ UNCHANGED <<process, lock, asked, result, calls, alive, loaded, out>>

Waiting(c) == pc[c] \in {"loading", "calling"}

Return(c, answer) ==
    /\ result' = [result EXCEPT ![c] = answer]
    /\ pc' = [pc EXCEPT ![c] = "idle"]
    /\ lock' = {}
    /\ UNCHANGED <<asked, calls>>

\* One line is read.  An answer that is not ok is raised; the worker is kept.
Receive(c, w) ==
    /\ Waiting(c) /\ w \in process /\ out[w] # <<>>
    /\ out' = [out EXCEPT ![w] = Tail(@)]
    /\ IF pc[c] = "loading" /\ Head(out[w]).ok
       THEN /\ pc' = [pc EXCEPT ![c] = "send"]
            /\ UNCHANGED <<lock, asked, result, calls>>
       ELSE Return(c, IF pc[c] = "loading" THEN Failed ELSE Head(out[w]))
    /\ UNCHANGED <<process, alive, loaded, doing>>

\* select() finds nothing in time.
Expire(c, w) ==
    /\ Waiting(c) /\ w \in process /\ alive[w] /\ out[w] = <<>>
    /\ pc' = [pc EXCEPT ![c] = "expired"]
    /\ UNCHANGED <<process, lock, asked, result, calls, workers>>

\* close(): the handle is dropped and the worker terminated, or killed.
Drop(w) ==
    /\ process' = {}
    /\ alive' = [alive EXCEPT ![w] = FALSE]
    /\ doing' = [doing EXCEPT ![w] = {}]
    /\ UNCHANGED <<loaded, out>>

\* Faulty variant of Abort: the call fails and the worker is kept for the next.
AbortKeeping(c, w) ==
    /\ w \in process
    /\ \/ pc[c] = "expired"
       \/ Waiting(c) /\ ~alive[w]
    /\ Return(c, Failed)
    /\ UNCHANGED <<process, workers>>

\* Faulty variant of Abort: the handle is dropped and the worker left to itself.
AbortLeaving(c, w) ==
    /\ w \in process
    /\ \/ pc[c] = "expired"
       \/ Waiting(c) /\ ~alive[w]
    /\ Return(c, Failed)
    /\ process' = {}
    /\ UNCHANGED workers

\* Faulty variant of Abort: the failed exchange leaves without releasing the lock.
AbortLocked(c, w) ==
    /\ w \in process
    /\ \/ pc[c] = "expired"
       \/ Waiting(c) /\ ~alive[w]
    /\ Drop(w)
    /\ pc' = [pc EXCEPT ![c] = "idle"] /\ result' = [result EXCEPT ![c] = Failed]
    /\ UNCHANGED <<lock, asked, calls>>

\* The exchange fails: the time is over, or the output ended, whole or inside a line.
Abort(c, w) ==
    /\ w \in process
    /\ \/ pc[c] = "expired"
       \/ Waiting(c) /\ ~alive[w]
    /\ Return(c, Failed)
    /\ Drop(w)

Close(c, w) ==
    /\ pc[c] = "idle" /\ lock = {} /\ w \in process
    /\ Drop(w)
    /\ UNCHANGED callers

-----------------------------------------------------------------------------
(* The worker's loop                                                       *)

\* One line for one request: the load, or a call, which fails when nothing is loaded.
Respond(w, q) ==
    /\ alive[w] /\ q \in doing[w]
    /\ doing' = [doing EXCEPT ![w] = @ \ {q}]
    /\ \E ok \in BOOLEAN :
         /\ ok => q = Load \/ loaded[w]
         /\ out' = [out EXCEPT ![w] = Append(@, [to |-> q, ok |-> ok])]
         /\ loaded' = [loaded EXCEPT ![w] = @ \/ (q = Load /\ ok)]
    /\ UNCHANGED <<process, callers, alive>>

\* A limit of the process, or its own end.
Die(w) ==
    /\ alive[w]
    /\ alive' = [alive EXCEPT ![w] = FALSE]
    /\ doing' = [doing EXCEPT ![w] = {}]
    /\ UNCHANGED <<process, callers, loaded, out>>

-----------------------------------------------------------------------------
Work(c) ==
    \/ Enter(c)
    \/ \E w \in Worker : Start(c, w) \/ Send(c, w) \/ Receive(c, w) \/ Expire(c, w) \/ Abort(c, w)

Next ==
    \/ \E c \in Caller : Call(c) \/ Work(c) \/ \E w \in Worker : Close(c, w)
    \/ \E w \in Worker : Die(w) \/ \E q \in 0..MaxCalls : Respond(w, q)

Spec == Init /\ [][Next]_vars

\* A waiting call ends by an answer or by its timeout, and the lock is handed on; of
\* the worker nothing is assumed.
FairSpec == Spec /\ \A c \in Caller : WF_vars(Work(c))

-----------------------------------------------------------------------------
(* Properties                                                              *)

TypeOK ==
    /\ process \subseteq Worker /\ lock \subseteq Caller
    /\ pc \in [Caller -> {"idle", "want", "send", "loading", "calling", "expired"}]
    /\ asked \in [Caller -> Nat] /\ result \in [Caller -> Answer] /\ calls \in Nat
    /\ alive \in [Worker -> BOOLEAN] /\ loaded \in [Worker -> BOOLEAN]
    /\ doing \in [Worker -> SUBSET Nat] /\ out \in [Worker -> Seq(Answer)]

\* A value a call returns is the answer to that call, whatever was late, lost or killed
\* before it (sandbox.py:221).
OwnAnswer ==
    \A c \in Caller : pc[c] = "idle" /\ result[c].ok => result[c].to = asked[c]

\* A program never has a second worker running, or one that no close() can reach: after
\* a timeout, a death or a failed load the next call starts from one (sandbox.py:176).
OneWorker == \A w \in Worker : alive[w] => process = {w}

\* Every call returns or raises, also when the generated code never does and while other
\* threads keep calling (sandbox.py:188).
CallsReturn == \A c \in Caller : pc[c] # "idle" ~> pc[c] = "idle"
=============================================================================
