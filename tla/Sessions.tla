------------------------------ MODULE Sessions -----------------------------
(***************************************************************************)
(* The browser console's control of its tests: SessionRegistry with its    *)
(* single-worker executor, one controller per test, and the clients: pages *)
(* that poll, command phases with the snapshot they show, and may do so by *)
(* themselves (auto-run), or scripts that speak the same protocol.         *)
(*                                                                         *)
(* A controller changes as PhaseControl allows, which Episode implements.  *)
(* ManagedSession.snapshot reads the controller under one lock and the     *)
(* busy flag under another: two steps, so a snapshot may be torn.          *)
(* SessionRegistry.advance holds the session's lock from its first check   *)
(* to the submit, and is one step: while the session is not busy nothing   *)
(* else moves its controller, and a busy session is refused anyway.        *)
(*                                                                         *)
(* A client has a poll and a command on their way at the same time; both   *)
(* are answered with a snapshot, and the answer that arrives last wins,    *)
(* the older snapshot or not.                                              *)
(***************************************************************************)
EXTENDS PhaseSteps, Sequences, FiniteSets

CONSTANTS
    Session, Client,
    Official,       \* tests of a public game
    MaxWorkers,     \* threads of the executor; the console uses one
    MaxVersion      \* bound: no phase is commanded from this version of a test on

ASSUME OfficialAssumption == Official \subseteq Session
ASSUME MaxWorkersAssumption == MaxWorkers \in Nat \ {0}
ASSUME MaxVersionAssumption == MaxVersion \in [Session -> Nat]

VARIABLES
    ctl,            \* the controllers
    sessions,       \* tests in the registry
    busy,
    job,            \* where the future of a session is
    queue,          \* futures the executor has not started
    closed,         \* the application is shutting down
    selected,       \* the test a client shows, if any
    view,           \* the phase its snapshot of it offers to run, if any
    command,        \* its request for a phase on the way, if any
    reading,        \* by client and channel: a snapshot being read or on its way, if any
    autoRun,
    allowed,        \* the test for which automatic actions are ticked, if any
    grant           \* by session: the command it is busy with, if any

registry == <<sessions, busy>>
page     == <<selected, view, autoRun, allowed>>
clients  == <<page, command, reading>>
vars     == <<ctl, registry, job, queue, closed, clients, grant>>

-----------------------------------------------------------------------------
Job     == {"none", "queued", "begin", "phase", "caught", "release", "cancelled"}
Channel == {"poll", "step"}
Offer   == [version : Nat, phase : Working]
Snapshot == [session : Session, offer : SUBSET Offer, whole : BOOLEAN]
Command == [session : Session, offer : Offer, authorized : BOOLEAN,
            automatic : BOOLEAN,        \* it asks for a real action by itself,
            consent : SUBSET Session]   \* with this test ticked

\* What may be missing is a set of at most one element.
None == {}

\* What a snapshot offers as far as the controller goes: its can_advance.
Offered(s) ==
    IF CanBegin(ctl[s]) THEN {[version |-> ctl[s].version, phase |-> ctl[s].phase]} ELSE None

\* A snapshot whose second half is still to be read.
Half(s) == [session |-> s, offer |-> Offered(s), whole |-> FALSE]

Init ==
    /\ ctl = [s \in Session |-> Fresh]
    /\ sessions = {}
    /\ busy = [s \in Session |-> FALSE]
    /\ job = [s \in Session |-> "none"]
    /\ queue = <<>> /\ closed = FALSE
    /\ selected = [c \in Client |-> None] /\ view = [c \in Client |-> None]
    /\ command = [c \in Client |-> None]
    /\ reading = [x \in Client \X Channel |-> None]
    /\ autoRun = [c \in Client |-> FALSE] /\ allowed = [c \in Client |-> None]
    /\ grant = [s \in Session |-> None]

Running == {s \in Session : job[s] \in {"begin", "phase", "caught", "release"}}

-----------------------------------------------------------------------------
(* The page                                                                *)

\* A test that was made, or picked from the menu, is shown from its next snapshot on.
\* The menu turns auto-run off; a creation turned it off when it was asked for, and
\* the operator may have turned it on again since.
Select(c, s) ==
    /\ ~closed /\ s \in sessions /\ s \notin selected[c]
    /\ selected' = [selected EXCEPT ![c] = {s}]
    /\ view' = [view EXCEPT ![c] = None]
    /\ \E on \in {FALSE, autoRun[c]} : autoRun' = [autoRun EXCEPT ![c] = on]
    /\ UNCHANGED <<ctl, registry, job, queue, closed, command, reading, allowed, grant>>

\* The operator's buttons: auto-run, pause, and the tick that an official test has.
Operate(c) ==
    /\ ~closed
    /\ \/ /\ view[c] # None \/ autoRun[c]
          /\ autoRun' = [autoRun EXCEPT ![c] = ~@]
          /\ UNCHANGED allowed
       \/ /\ selected[c] # None /\ selected[c] \subseteq Official
          /\ allowed' = [allowed EXCEPT ![c] = IF @ = None THEN selected[c] ELSE None]
          /\ UNCHANGED autoRun
    /\ UNCHANGED <<ctl, registry, job, queue, closed, selected, view, command, reading, grant>>

\* requestStep: a click, or auto-run, which stops before a real action of an official
\* test that is not ticked.  A script may leave the authorization out.
Request(c) ==
    /\ ~closed /\ command[c] = None /\ reading[<<c, "step">>] = None
    /\ \E v \in view[c], s \in selected[c], authorize, automatic \in BOOLEAN :
         /\ v.version < MaxVersion[s]
         /\ authorize => v.phase = "execution"
         /\ automatic => autoRun[c] /\ authorize = (v.phase = "execution")
         /\ IF automatic /\ authorize /\ s \in Official /\ allowed[c] = None
            THEN /\ autoRun' = [autoRun EXCEPT ![c] = FALSE]
                 /\ UNCHANGED command
            ELSE /\ command' = [command EXCEPT ![c] =
                        {[session |-> s, offer |-> v, authorized |-> authorize,
                          automatic |-> automatic /\ authorize,
                          consent |-> IF automatic /\ authorize THEN allowed[c] ELSE None]}]
                 /\ UNCHANGED autoRun
    /\ UNCHANGED <<ctl, registry, job, queue, closed, selected, view, reading, allowed, grant>>

\* snapshot(), first half, for a poll: the controller's fields, under its lock.
Look(c, s) ==
    /\ ~closed /\ s \in selected[c] /\ reading[<<c, "poll">>] = None
    /\ reading' = [reading EXCEPT ![<<c, "poll">>] = {Half(s)}]
    /\ UNCHANGED <<ctl, registry, job, queue, closed, page, command, grant>>

\* Second half, under the session's lock: a busy session offers nothing.  The answer is
\* then on its way, and nothing it says changes any more.
Reply(c, channel) ==
    /\ ~closed
    /\ \E r \in reading[<<c, channel>>] :
         /\ ~r.whole
         /\ reading' = [reading EXCEPT ![<<c, channel>>] =
               {[session |-> r.session, whole |-> TRUE,
                 offer |-> IF busy[r.session] THEN None ELSE r.offer]}]
    /\ UNCHANGED <<ctl, registry, job, queue, closed, page, command, grant>>

\* Faulty variant of Answer: the tick outlives the test it was made for.
AnswerStillAllowed(c, channel) ==
    /\ ~closed
    /\ \E r \in reading[<<c, channel>>] :
         /\ r.whole
         /\ IF selected[c] = {r.session}
            THEN view' = [view EXCEPT ![c] = r.offer] /\ UNCHANGED allowed
            ELSE UNCHANGED <<view, allowed>>
    /\ reading' = [reading EXCEPT ![<<c, channel>>] = None]
    /\ UNCHANGED <<ctl, registry, job, queue, closed, selected, command, autoRun, grant>>

\* The answer is shown when its test still is (renderSession), whatever it overwrites; a
\* tick made for another test is cleared.
Answer(c, channel) ==
    /\ ~closed
    /\ \E r \in reading[<<c, channel>>] :
         /\ r.whole
         /\ IF selected[c] = {r.session}
            THEN /\ view' = [view EXCEPT ![c] = r.offer]
                 /\ allowed' = [allowed EXCEPT ![c] = @ \cap {r.session}]
            ELSE UNCHANGED <<view, allowed>>
    /\ reading' = [reading EXCEPT ![<<c, channel>>] = None]
    /\ UNCHANGED <<ctl, registry, job, queue, closed, selected, command, autoRun, grant>>

-----------------------------------------------------------------------------
(* The registry                                                            *)

\* A fresh test enters the registry.  Its event interactive_session_created follows,
\* which nothing here reads.
Create(s) ==
    /\ ~closed /\ s \notin sessions
    /\ sessions' = sessions \cup {s}
    /\ UNCHANGED <<ctl, busy, job, queue, closed, clients, grant>>

\* Faulty variant of Acceptable: the version the client saw is not compared.
AcceptableAnyVersion(s, version, authorize) ==
    /\ ~busy[s]
    /\ CanBegin(ctl[s])
    /\ ctl[s].phase = "execution" => authorize

\* Faulty variant of Acceptable: only the controller's own slot is checked.
AcceptableBusy(s, version, authorize) ==
    /\ version = ctl[s].version
    /\ CanBegin(ctl[s])
    /\ ctl[s].phase = "execution" => authorize

\* The checks of SessionRegistry.advance; failing one of them changes nothing.
Acceptable(s, version, authorize) ==
    /\ version = ctl[s].version
    /\ ~busy[s]
    /\ CanBegin(ctl[s])
    /\ ctl[s].phase = "execution" => authorize

\* The command arrives, as late as it may.  An accepted one is answered with a snapshot,
\* whose first half is read at once (read later, it shows what a poll shows); a refusal
\* stops auto-run.
Advance(c) ==
    /\ ~closed
    /\ command' = [command EXCEPT ![c] = None]
    /\ \E r \in command[c] :
         LET s == r.session
         IN  IF Acceptable(s, r.offer.version, r.authorized)
             THEN /\ busy' = [busy EXCEPT ![s] = TRUE]
                  /\ job' = [job EXCEPT ![s] = "queued"]
                  /\ queue' = Append(queue, s)
                  /\ grant' = [grant EXCEPT ![s] = {r}]
                  /\ reading' = [reading EXCEPT ![<<c, "step">>] = {Half(s)}]
                  /\ UNCHANGED autoRun
             ELSE /\ autoRun' = [autoRun EXCEPT ![c] = FALSE]
                  /\ UNCHANGED <<busy, job, queue, grant, reading>>
    /\ UNCHANGED <<ctl, sessions, closed, selected, view, allowed>>

\* Shutdown, after the last request is served: what has not started is cancelled and never clears its busy flag.
Close ==
    /\ ~closed
    /\ closed' = TRUE
    /\ job' = [s \in Session |-> IF job[s] = "queued" THEN "cancelled" ELSE job[s]]
    /\ queue' = <<>>
    /\ UNCHANGED <<ctl, registry, clients, grant>>

-----------------------------------------------------------------------------
(* The worker: _run_one                                                    *)

Pick(s) ==
    /\ queue # <<>> /\ s = Head(queue)
    /\ Cardinality(Running) < MaxWorkers
    /\ queue' = Tail(queue)
    /\ job' = [job EXCEPT ![s] = "begin"]
    /\ UNCHANGED <<ctl, registry, closed, clients, grant>>

\* controller.advance() takes the phase slot, or raises when it cannot.
Begin(s) ==
    /\ job[s] = "begin"
    /\ IF CanBegin(ctl[s])
       THEN /\ ctl' = [ctl EXCEPT ![s] = Begun(@)]
            /\ job' = [job EXCEPT ![s] = "phase"]
       ELSE /\ job' = [job EXCEPT ![s] = "caught"]
            /\ ctl' = ctl
    /\ UNCHANGED <<registry, queue, closed, clients, grant>>

Turn(s) ==
    /\ job[s] = "phase"
    /\ \E d \in Turns(ctl[s]) : ctl' = [ctl EXCEPT ![s] = d]
    /\ UNCHANGED <<registry, job, queue, closed, clients, grant>>

Settle(s) ==
    /\ job[s] = "phase"
    /\ \E d \in Settlings(ctl[s]) : ctl' = [ctl EXCEPT ![s] = d]
    /\ UNCHANGED <<registry, job, queue, closed, clients, grant>>

\* advance() returns, or raises: always from error, and also when one of its last
\* records fails.
End(s) ==
    /\ job[s] = "phase" /\ ctl[s].settled
    /\ ctl' = [ctl EXCEPT ![s] = Ended(@)]
    /\ \E how \in {"caught", "release"} :
         /\ ctl[s].phase = "error" => how = "caught"
         /\ job' = [job EXCEPT ![s] = how]
    /\ UNCHANGED <<registry, queue, closed, clients, grant>>

\* Faulty variant of Catch: the failed future ends without its finally clause.
CatchAndStop(s) ==
    /\ job[s] = "caught"
    /\ job' = [job EXCEPT ![s] = "none"]
    /\ UNCHANGED <<ctl, sessions, busy, queue, closed, clients, grant>>

Catch(s) ==
    /\ job[s] = "caught"
    /\ job' = [job EXCEPT ![s] = "release"]
    /\ UNCHANGED <<ctl, sessions, busy, queue, closed, clients, grant>>

Release(s) ==
    /\ job[s] = "release"
    /\ busy' = [busy EXCEPT ![s] = FALSE]
    /\ job' = [job EXCEPT ![s] = "none"]
    /\ grant' = [grant EXCEPT ![s] = None]
    /\ UNCHANGED <<ctl, sessions, queue, closed, clients>>

-----------------------------------------------------------------------------
Work(s) == Pick(s) \/ Begin(s) \/ Turn(s) \/ Settle(s) \/ End(s) \/ Catch(s) \/ Release(s)

Next ==
    \/ \E s \in Session : Create(s) \/ Work(s)
    \/ \E c \in Client :
         \/ Operate(c) \/ Request(c) \/ Advance(c)
         \/ \E s \in Session : Select(c, s) \/ Look(c, s)
         \/ \E k \in Channel : Reply(c, k) \/ Answer(c, k)
    \/ Close

Spec == Init /\ [][Next]_vars

\* The worker threads keep running, and every external call of a phase returns.
FairSpec == Spec /\ \A s \in Session : WF_vars(Work(s))

-----------------------------------------------------------------------------
(* Properties                                                              *)

TypeOK ==
    /\ ctl \in [Session -> Controller]
    /\ \A s \in Session : ctl[s].version <= MaxVersion[s]
    /\ sessions \in SUBSET Session
    /\ busy \in [Session -> BOOLEAN]
    /\ job \in [Session -> Job]
    /\ queue \in Seq(Session) /\ closed \in BOOLEAN
    /\ selected \in [Client -> SUBSET Session] /\ allowed \in [Client -> SUBSET Session]
    /\ view \in [Client -> SUBSET Offer] /\ command \in [Client -> SUBSET Command]
    /\ reading \in [Client \X Channel -> SUBSET Snapshot]
    /\ autoRun \in [Client -> BOOLEAN]
    /\ grant \in [Session -> SUBSET Command]

\* A session is busy exactly while one future of it exists, waiting futures are queued
\* once, the executor runs no more than it has threads, and a controller is inside a
\* phase only in the hands of one of them (sessions.py:275 and 317).
OneFuture ==
    /\ TypeOK
    /\ \A s \in Session : busy[s] <=> job[s] # "none"
    /\ \A s \in Session : job[s] = "queued" <=> \E i \in 1..Len(queue) : queue[i] = s
    /\ \A i, j \in 1..Len(queue) : queue[i] = queue[j] => i = j
    /\ Cardinality(Running) <= MaxWorkers
    /\ \A s \in Session : ctl[s].active # "none" <=> job[s] = "phase"

\* However old or torn, a snapshot that offers a command either names the phase its
\* version still stands for or carries a version that is over, whatever the order in
\* which the answers of polls and commands arrive (sessions.py:223, app.js:694).
ViewNamesPhase ==
    \A c \in Client : \A v \in view[c], s \in selected[c] :
        v.version = ctl[s].version =>
            v.phase = IF ctl[s].active = "none" THEN ctl[s].phase ELSE ctl[s].active

Begins(s) == ctl[s].active = "none" /\ ctl'[s].active # "none"

\* A phase runs only as the accepted command saw it, in version and in phase, with an
\* authorization for a real action, however long it was on its way or queued; and the
\* session is not free again for the version it was commanded with, so of several
\* clicks on one snapshot, at any delay, one is served (sessions.py:275 and 282).
GrantedPhaseRuns ==
    [][\A s \in Session :
         /\ Begins(s) =>
              \E g \in grant[s] :
                 /\ g.offer.version = ctl[s].version
                 /\ g.offer.phase = ctl'[s].active
                 /\ ctl'[s].active = "execution" => g.authorized
         /\ busy[s] /\ ~busy'[s] => \A g \in grant[s] : ctl[s].version > g.offer.version]_vars

\* Auto-run takes a real action of an official test only when automatic actions were
\* ticked for this very test, also when it was turned on, or ticked, before another
\* test was made or picked (running-experiments.md:48, app.js:552 and 594).
AutoRunAsks ==
    [][\A s \in Official : Begins(s) /\ ctl'[s].active = "execution" =>
         \A g \in grant[s] : g.automatic => g.consent = {s}]_vars

\* An accepted command ends and frees its session, whatever its phase does and
\* whatever is queued before it, unless the application is closed (sessions.py:317).
CommandEnds == \A s \in Session : busy[s] ~> (~busy[s] \/ closed)
=============================================================================
