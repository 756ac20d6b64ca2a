--------------------------- MODULE SessionsProofs --------------------------
(***************************************************************************)
(* The console for every set of tests and of clients, every number of      *)
(* workers and every number of phases.  Two histories meet in an accepted  *)
(* command: what the client saw, and what the controller did since.  The   *)
(* invariant keeps them together by the version alone.  An offer is never  *)
(* of a version to come, and one of the present version names the phase    *)
(* that the controller stands before or is in (Names); while a future      *)
(* waits nothing moves its controller, so its grant stays one of the       *)
(* present version (GrantInv); and the phase that runs counts one.         *)
(***************************************************************************)
EXTENDS Sessions, FiniteSetTheorems, SequenceTheorems, TLAPS

-----------------------------------------------------------------------------
\* The types in two parts, which seldom change together.
ServerTypes ==
    /\ ctl \in [Session -> Controller]
    /\ \A s \in Session : ctl[s].version <= MaxVersion[s]
    /\ sessions \in SUBSET Session
    /\ busy \in [Session -> BOOLEAN] /\ job \in [Session -> Job]
    /\ queue \in Seq(Session) /\ closed \in BOOLEAN
    /\ grant \in [Session -> SUBSET Command]

ClientTypes ==
    /\ selected \in [Client -> SUBSET Session] /\ allowed \in [Client -> SUBSET Session]
    /\ view \in [Client -> SUBSET Offer] /\ command \in [Client -> SUBSET Command]
    /\ reading \in [Client \X Channel -> SUBSET Snapshot]
    /\ autoRun \in [Client -> BOOLEAN]

\* What is in the queue, who runs and whose controller is busy follows from the jobs.
JobInv ==
    /\ \A s \in Session : busy[s] <=> job[s] # "none"
    /\ \A s \in Session : ctl[s].active # "none" <=> job[s] = "phase"
    /\ \A s \in Session : ctl[s].settled => ctl[s].active # "none"

QueueInv ==
    /\ \A s \in Session : job[s] = "queued" <=> \E i \in 1..Len(queue) : queue[i] = s
    /\ \A i, j \in 1..Len(queue) : queue[i] = queue[j] => i = j

WorkerInv == IsFiniteSet(Running) /\ Cardinality(Running) <= MaxWorkers

\* An offer is not of a version to come, and of the present one it names the phase.
Names(s, o) ==
    /\ o.version <= ctl[s].version
    /\ ctl[s].settled => o.version < ctl[s].version
    /\ o.version = ctl[s].version =>
         o.phase = IF ctl[s].active = "none" THEN ctl[s].phase ELSE ctl[s].active

OfferInv ==
    /\ \A c \in Client : \A v \in view[c], s \in selected[c] : Names(s, v)
    /\ \A x \in Client \X Channel : \A r \in reading[x] : \A o \in r.offer : Names(r.session, o)
    /\ \A c \in Client : \A r \in command[c] : Names(r.session, r.offer)
    /\ \A s \in Session : \A g \in grant[s] : Names(s, g.offer)

\* A command is below the bound, and asks for an official action by itself with consent.
Fits(r) ==
    /\ r.offer.version < MaxVersion[r.session]
    /\ r.automatic /\ r.session \in Official => r.consent = {r.session}

PageInv ==
    /\ \A c \in Client : selected[c] = None \/ \E s \in Session : selected[c] = {s}
    /\ \A c \in Client : view[c] # None => allowed[c] \subseteq selected[c]
    /\ \A c \in Client : \A r \in command[c] : Fits(r)

Waits(s) == job[s] \in {"queued", "begin", "cancelled"}
Over(s)  == job[s] \in {"caught", "release"} \/ (job[s] = "phase" /\ ctl[s].settled)

GrantInv ==
    /\ \A s \in Session : \A g \in grant[s] : g.session = s /\ Fits(g)
    /\ \A s \in Session : Waits(s) =>
         /\ CanBegin(ctl[s])
         /\ \E g \in grant[s] :
              /\ g.offer.version = ctl[s].version
              /\ ctl[s].phase = "execution" => g.authorized
    /\ \A s \in Session : job[s] = "phase" /\ ~ctl[s].settled =>
         \E g \in grant[s] : g.offer.version = ctl[s].version
    /\ \A s \in Session : Over(s) => \A g \in grant[s] : g.offer.version < ctl[s].version

IInv == ServerTypes /\ ClientTypes /\ JobInv /\ QueueInv /\ WorkerInv /\ OfferInv /\ PageInv /\ GrantInv

-----------------------------------------------------------------------------
(* What a phase may do to a controller                                     *)

LEMMA TurnFacts ==
    ASSUME NEW c \in Controller, NEW d \in Turns(c)
    PROVE  /\ d \in Controller
           /\ c.active # "none" /\ ~c.settled
           /\ d.active = c.active /\ d.version = c.version /\ d.settled = c.settled
<1>1. c.active # "none" /\ ~c.settled /\ c.phase = c.active
  BY DEF Turns
<1>2. PICK p \in Reaches[c.active] : d = [c EXCEPT !.phase = p]
  BY <1>1 DEF Turns
<1>3. p \in Working \cup Closed
  BY <1>1, <1>2 DEF Reaches, Controller, Working, Closed
<1>4. QED
  BY <1>1, <1>2, <1>3 DEF Controller

LEMMA SettleFacts ==
    ASSUME NEW c \in Controller, NEW d \in Settlings(c)
    PROVE  /\ d \in Controller
           /\ c.active # "none" /\ ~c.settled
           /\ d.active = c.active /\ d.version = c.version + 1 /\ d.settled
<1>1. PICK p \in Finals(c) : d = [c EXCEPT !.settled = TRUE, !.phase = p, !.version = @ + 1]
  BY DEF Settlings
<1>2. c.active # "none" /\ ~c.settled /\ p \in Working \cup Closed
  BY <1>1 DEF Finals, Controller, Closed
<1>3. c.version \in Nat /\ c.active \in Working \cup {"none"}
  BY DEF Controller
<1>4. d = [phase |-> p, active |-> c.active, version |-> c.version + 1, settled |-> TRUE]
  BY <1>1 DEF Controller
<1>5. QED
  BY <1>2, <1>3, <1>4 DEF Controller

LEMMA BegunFacts ==
    ASSUME NEW c \in Controller, CanBegin(c)
    PROVE  /\ Begun(c) \in Controller
           /\ Begun(c).active = c.phase /\ c.phase # "none"
           /\ Begun(c).version = c.version /\ Begun(c).settled = c.settled
           /\ Begun(c).phase = c.phase
BY DEF Begun, CanBegin, Controller, Working, Closed

LEMMA EndedFacts ==
    ASSUME NEW c \in Controller
    PROVE  /\ Ended(c) \in Controller
           /\ Ended(c).active = "none" /\ Ended(c).version = c.version
           /\ ~Ended(c).settled /\ Ended(c).phase = c.phase
BY DEF Ended, Controller

-----------------------------------------------------------------------------
LEMMA TypeParts == TypeOK <=> ServerTypes /\ ClientTypes
BY DEF TypeOK, ServerTypes, ClientTypes

LEMMA InitInv == Init => IInv
<1> SUFFICES ASSUME Init PROVE IInv
  OBVIOUS
<1>1. ServerTypes
  <2>1. Fresh \in Controller /\ Fresh.version = 0
    BY DEF Fresh, Controller, Working
  <2>2. ctl \in [Session -> Controller] /\ \A s \in Session : ctl[s].version <= MaxVersion[s]
    BY <2>1, MaxVersionAssumption DEF Init
  <2>3. sessions = {} /\ queue = <<>> /\ closed = FALSE
    BY DEF Init
  <2>4. busy \in [Session -> BOOLEAN] /\ job \in [Session -> Job]
    BY DEF Init, Job
  <2>5. grant \in [Session -> SUBSET Command]
    BY DEF Init, None
  <2>6. QED
    BY <2>2, <2>3, <2>4, <2>5, EmptySeq DEF ServerTypes
<1>8. ClientTypes
  BY DEF Init, ClientTypes, None
<1>2. JobInv
  BY DEF Init, JobInv, Fresh
<1>3. QueueInv
  BY DEF Init, QueueInv
<1>4. WorkerInv
  <2>1. Running = {}
    BY DEF Init, Running
  <2>2. QED
    BY <2>1, FS_EmptySet, MaxWorkersAssumption DEF WorkerInv
<1>5. OfferInv
  BY DEF Init, OfferInv, None
<1>6. PageInv /\ GrantInv
  BY DEF Init, PageInv, GrantInv, Waits, Over, None
<1>7. QED
  BY <1>1, <1>8, <1>2, <1>3, <1>4, <1>5, <1>6 DEF IInv

-----------------------------------------------------------------------------
(* What a step leaves alone keeps its part of the invariant                *)

server == <<ctl, sessions, busy, job, queue, closed, grant>>

LEMMA ServerKept ==
    ASSUME IInv, UNCHANGED server
    PROVE  ServerTypes' /\ JobInv' /\ QueueInv' /\ WorkerInv' /\ GrantInv'
<1>1. ServerTypes' /\ JobInv' /\ QueueInv'
  BY DEF IInv, server, ServerTypes, JobInv, QueueInv
<1>2. Running' = Running
  BY DEF server, Running
<1>3. WorkerInv'
  BY <1>2 DEF IInv, WorkerInv
<1>4. GrantInv'
  BY DEF IInv, server, GrantInv, Waits, Over, Fits, CanBegin
<1>5. QED
  BY <1>1, <1>3, <1>4

LEMMA ClientsKept ==
    ASSUME IInv, UNCHANGED clients
    PROVE  ClientTypes' /\ PageInv'
BY DEF IInv, clients, page, ClientTypes, PageInv, Fits

\* The offers in flight stay good when no controller's offers go bad.
LEMMA OffersKept ==
    ASSUME IInv, UNCHANGED <<clients, grant>>,
           \A s \in Session, o \in Offer : Names(s, o) => Names(s, o)'
    PROVE  OfferInv'
<1>1. \A c \in Client : \A v \in view'[c], s \in selected'[c] : Names(s, v)'
  BY DEF IInv, OfferInv, ClientTypes, clients, page
<1>2. \A x \in Client \X Channel : \A r \in reading'[x] : \A o \in r.offer : Names(r.session, o)'
  BY DEF IInv, OfferInv, ClientTypes, Snapshot, clients
<1>3. \A c \in Client : \A r \in command'[c] : Names(r.session, r.offer)'
  BY DEF IInv, OfferInv, ClientTypes, Command, clients
<1>4. \A s \in Session : \A g \in grant'[s] : Names(s, g.offer)'
  BY DEF IInv, OfferInv, ServerTypes, Command
<1>5. QED
  BY <1>1, <1>2, <1>3, <1>4 DEF OfferInv, Names

\* An offer made now is good.
LEMMA OfferedNames ==
    ASSUME IInv, NEW s \in Session, NEW o \in Offered(s)
    PROVE  o \in Offer /\ Names(s, o)
<1>1. CanBegin(ctl[s]) /\ o = [version |-> ctl[s].version, phase |-> ctl[s].phase]
  BY DEF Offered, None
<1>2. ctl[s] \in Controller /\ ~ctl[s].settled /\ ctl[s].active = "none"
  BY <1>1 DEF IInv, ServerTypes, JobInv, CanBegin
<1>3. QED
  BY <1>1, <1>2 DEF Names, Offer, Controller, CanBegin

LEMMA HalfType ==
    ASSUME IInv, NEW s \in Session
    PROVE  Half(s) \in Snapshot /\ \A o \in Half(s).offer : Names(Half(s).session, o)
BY OfferedNames DEF Half, Snapshot

-----------------------------------------------------------------------------
(* The page                                                                *)

LEMMA SelectInv ==
    ASSUME IInv, NEW c \in Client, NEW s \in Session, Select(c, s)
    PROVE  IInv'
<1>1. UNCHANGED server
  BY DEF Select, server, registry
<1>2. /\ selected' = [selected EXCEPT ![c] = {s}] /\ view' = [view EXCEPT ![c] = {}]
      /\ UNCHANGED <<command, reading, allowed>>
  BY DEF Select, None
<1>3. autoRun' \in [Client -> BOOLEAN]
  <2>1. PICK on \in {FALSE, autoRun[c]} : autoRun' = [autoRun EXCEPT ![c] = on]
    BY DEF Select
  <2>2. on \in BOOLEAN
    BY <2>1 DEF IInv, ClientTypes
  <2>3. QED
    BY <2>1, <2>2 DEF IInv, ClientTypes
<1>4. ClientTypes'
  BY <1>2, <1>3 DEF IInv, ClientTypes
<1>5. OfferInv'
  <2>1. \A d \in Client : \A v \in view'[d], t \in selected'[d] : Names(t, v)
    BY <1>2 DEF IInv, ClientTypes, OfferInv
  <2>2. QED
    BY <1>1, <1>2, <2>1 DEF IInv, OfferInv, Names, server
<1>6. PageInv'
  BY <1>2 DEF IInv, ClientTypes, PageInv, Fits, None
<1>7. QED
  BY <1>1, <1>4, <1>5, <1>6, ServerKept DEF IInv

LEMMA OperateInv ==
    ASSUME IInv, NEW c \in Client, Operate(c)
    PROVE  IInv'
<1>1. UNCHANGED <<server, selected, view, command, reading>>
  BY DEF Operate, server, registry
<1>2. ClientTypes' /\ PageInv'
  <2>1. CASE UNCHANGED allowed /\ autoRun' = [autoRun EXCEPT ![c] = ~@]
    BY <1>1, <2>1 DEF IInv, ClientTypes, PageInv, Fits
  <2>2. CASE /\ allowed' = [allowed EXCEPT ![c] = IF @ = None THEN selected[c] ELSE None]
             /\ UNCHANGED autoRun
    BY <1>1, <2>2 DEF IInv, ClientTypes, PageInv, Fits, None
  <2>3. QED
    BY <2>1, <2>2 DEF Operate
<1>3. OfferInv'
  BY <1>1 DEF IInv, OfferInv, Names, server
<1>4. QED
  BY <1>1, <1>2, <1>3, ServerKept DEF IInv

LEMMA RequestInv ==
    ASSUME IInv, NEW c \in Client, Request(c)
    PROVE  IInv'
<1>1. UNCHANGED <<server, selected, view, reading, allowed>>
  BY DEF Request, server, registry
<1>2. CASE UNCHANGED command /\ autoRun' = [autoRun EXCEPT ![c] = FALSE]
  <2>1. ClientTypes' /\ PageInv'
    BY <1>1, <1>2 DEF IInv, ClientTypes, PageInv, Fits
  <2>2. OfferInv'
    BY <1>1, <1>2 DEF IInv, OfferInv, Names, server
  <2>3. QED
    BY <1>1, <2>1, <2>2, ServerKept DEF IInv
<1>3. ASSUME NEW v \in view[c], NEW s \in selected[c], NEW a \in BOOLEAN, NEW auto \in BOOLEAN,
             v.version < MaxVersion[s],
             ~(auto /\ a /\ s \in Official /\ allowed[c] = None),
             command' = [command EXCEPT ![c] =
               {[session |-> s, offer |-> v, authorized |-> a, automatic |-> auto /\ a,
                 consent |-> IF auto /\ a THEN allowed[c] ELSE None]}],
             UNCHANGED autoRun
      PROVE  IInv'
  <2> DEFINE r == [session |-> s, offer |-> v, authorized |-> a, automatic |-> auto /\ a,
                   consent |-> IF auto /\ a THEN allowed[c] ELSE None]
  <2>1. /\ s \in Session /\ v \in Offer /\ Names(s, v)
        /\ selected[c] = {s} /\ allowed[c] \subseteq {s}
    BY <1>3 DEF IInv, ClientTypes, OfferInv, PageInv, None
  <2>2. r \in Command /\ Fits(r) /\ Names(r.session, r.offer)
    BY <1>3, <2>1 DEF Command, Fits, None
  <2>3. command' = [command EXCEPT ![c] = {r}]
    BY <1>3
  <2> HIDE DEF r
  <2>4. ClientTypes'
    BY <1>1, <1>3, <2>2, <2>3 DEF IInv, ClientTypes
  <2>5. OfferInv'
    BY <1>1, <2>2, <2>3 DEF IInv, OfferInv, Names, server
  <2>6. PageInv'
    BY <1>1, <2>2, <2>3 DEF IInv, PageInv, Fits
  <2>7. QED
    BY <1>1, <2>4, <2>5, <2>6, ServerKept DEF IInv
<1>4. PICK v \in view[c], s \in selected[c], a \in BOOLEAN, auto \in BOOLEAN :
        /\ v.version < MaxVersion[s]
        /\ IF auto /\ a /\ s \in Official /\ allowed[c] = None
           THEN autoRun' = [autoRun EXCEPT ![c] = FALSE] /\ UNCHANGED command
           ELSE /\ command' = [command EXCEPT ![c] =
                     {[session |-> s, offer |-> v, authorized |-> a, automatic |-> auto /\ a,
                       consent |-> IF auto /\ a THEN allowed[c] ELSE None]}]
                /\ UNCHANGED autoRun
  BY DEF Request
<1>5. QED
  BY <1>2, <1>3, <1>4

\* A channel gets another content, whose offers are good.
LEMMA ReadingInv ==
    ASSUME IInv, NEW x \in Client \X Channel, UNCHANGED <<ctl, page, command, grant>>,
           NEW R, reading' = [reading EXCEPT ![x] = R],
           \A r \in R : r \in Snapshot /\ \A o \in r.offer : Names(r.session, o)
    PROVE  ClientTypes' /\ OfferInv' /\ PageInv'
<1>1. \A y \in Client \X Channel : \A r \in reading'[y] :
        r \in Snapshot /\ \A o \in r.offer : Names(r.session, o)
  BY DEF IInv, ClientTypes, OfferInv
<1>2. ClientTypes' /\ PageInv'
  BY <1>1 DEF IInv, ClientTypes, PageInv, Fits, page
<1>3. OfferInv'
  BY <1>1 DEF IInv, OfferInv, Names, page
<1>4. QED
  BY <1>2, <1>3

LEMMA LookInv ==
    ASSUME IInv, NEW c \in Client, NEW s \in Session, Look(c, s)
    PROVE  IInv'
<1>1. UNCHANGED <<server, page, command>>
  BY DEF Look, server, registry
<1>2. ClientTypes' /\ OfferInv' /\ PageInv'
  <2>1. <<c, "poll">> \in Client \X Channel /\ reading' = [reading EXCEPT ![<<c, "poll">>] = {Half(s)}]
    BY DEF Look, Channel
  <2>2. QED
    BY <1>1, <2>1, HalfType, ReadingInv DEF server
<1>3. QED
  BY <1>1, <1>2, ServerKept DEF IInv

LEMMA ReplyInv ==
    ASSUME IInv, NEW c \in Client, NEW k \in Channel, Reply(c, k)
    PROVE  IInv'
<1>1. UNCHANGED <<server, page, command>>
  BY DEF Reply, server, registry
<1>2. PICK r \in reading[<<c, k>>] : reading' = [reading EXCEPT ![<<c, k>>] =
               {[session |-> r.session, whole |-> TRUE,
                 offer |-> IF busy[r.session] THEN None ELSE r.offer]}]
  BY DEF Reply
<1>3. r \in Snapshot /\ \A o \in r.offer : Names(r.session, o)
  BY <1>2 DEF IInv, ClientTypes, OfferInv
<1> DEFINE q == [session |-> r.session, whole |-> TRUE,
                 offer |-> IF busy[r.session] THEN None ELSE r.offer]
<1>4. q \in Snapshot /\ \A o \in q.offer : Names(q.session, o)
  BY <1>3 DEF Snapshot, None
<1>5. ClientTypes' /\ OfferInv' /\ PageInv'
  <2>1. reading' = [reading EXCEPT ![<<c, k>>] = {q}] /\ <<c, k>> \in Client \X Channel
    BY <1>2
  <2> HIDE DEF q
  <2>2. \A p \in {q} : p \in Snapshot /\ \A o \in p.offer : Names(p.session, o)
    BY <1>4
  <2>3. QED
    BY <1>1, <2>1, <2>2, ReadingInv DEF server
<1>6. QED
  BY <1>1, <1>5, ServerKept DEF IInv

LEMMA AnswerInv ==
    ASSUME IInv, NEW c \in Client, NEW k \in Channel, Answer(c, k)
    PROVE  IInv'
<1>1. UNCHANGED <<server, selected, command, autoRun>>
  BY DEF Answer, server, registry
<1>2. PICK r \in reading[<<c, k>>] :
        IF selected[c] = {r.session}
        THEN /\ view' = [view EXCEPT ![c] = r.offer]
             /\ allowed' = [allowed EXCEPT ![c] = @ \cap {r.session}]
        ELSE UNCHANGED <<view, allowed>>
  BY DEF Answer
<1>3. r \in Snapshot /\ \A o \in r.offer : Names(r.session, o)
  BY <1>2 DEF IInv, ClientTypes, OfferInv
<1>4. reading' = [reading EXCEPT ![<<c, k>>] = {}]
  BY DEF Answer, None
<1>5. /\ reading' \in [Client \X Channel -> SUBSET Snapshot]
      /\ \A y \in Client \X Channel : \A q \in reading'[y] :
           \A o \in q.offer : Names(q.session, o)
  BY <1>4 DEF IInv, ClientTypes, OfferInv
<1>6. CASE selected[c] = {r.session}
  <2>1. /\ view' = [view EXCEPT ![c] = r.offer]
        /\ allowed' = [allowed EXCEPT ![c] = @ \cap {r.session}]
    BY <1>2, <1>6
  <2>2. ClientTypes'
    BY <1>1, <1>3, <1>5, <2>1 DEF IInv, ClientTypes, Snapshot
  <2>3. OfferInv'
    BY <1>1, <1>3, <1>5, <1>6, <2>1 DEF IInv, OfferInv, Names, server
  <2>4. PageInv'
    BY <1>1, <1>6, <2>1 DEF IInv, ClientTypes, PageInv, Fits
  <2>5. QED
    BY <1>1, <2>2, <2>3, <2>4, ServerKept DEF IInv
<1>7. CASE UNCHANGED <<view, allowed>>
  <2>1. ClientTypes' /\ PageInv'
    BY <1>1, <1>5, <1>7 DEF IInv, ClientTypes, PageInv, Fits
  <2>2. OfferInv'
    BY <1>1, <1>5, <1>7 DEF IInv, OfferInv, Names, server
  <2>3. QED
    BY <1>1, <2>1, <2>2, ServerKept DEF IInv
<1>8. QED
  BY <1>2, <1>6, <1>7

-----------------------------------------------------------------------------
(* The registry                                                            *)

LEMMA CreateInv ==
    ASSUME IInv, NEW s \in Session, Create(s)
    PROVE  IInv'
<1>1. /\ UNCHANGED <<ctl, busy, job, queue, closed, clients, grant>>
      /\ sessions' \in SUBSET Session
  BY DEF Create, IInv, ServerTypes
<1>2. ServerTypes' /\ JobInv' /\ QueueInv'
  BY <1>1 DEF IInv, ServerTypes, JobInv, QueueInv
<1>3. Running' = Running
  BY <1>1 DEF Running
<1>4. WorkerInv'
  BY <1>3 DEF IInv, WorkerInv
<1>5. GrantInv'
  BY <1>1 DEF IInv, GrantInv, Waits, Over, Fits, CanBegin
<1>6. OfferInv'
  BY <1>1, OffersKept DEF Names
<1>7. QED
  BY <1>1, <1>2, <1>4, <1>5, <1>6, ClientsKept DEF IInv

LEMMA CloseInv ==
    ASSUME IInv, Close
    PROVE  IInv'
<1>1. /\ UNCHANGED <<ctl, sessions, busy, clients, grant>>
      /\ closed' = TRUE /\ queue' = <<>>
      /\ job' = [s \in Session |-> IF job[s] = "queued" THEN "cancelled" ELSE job[s]]
  BY DEF Close, registry
<1>2. ServerTypes'
  <2>1. job' \in [Session -> Job]
    BY <1>1 DEF IInv, ServerTypes, Job
  <2>2. QED
    BY <1>1, <2>1, EmptySeq DEF IInv, ServerTypes
<1>3. JobInv' /\ QueueInv'
  BY <1>1 DEF IInv, ServerTypes, JobInv, QueueInv
<1>4. Running' = Running
  BY <1>1 DEF Running, IInv, ServerTypes
<1>5. WorkerInv'
  BY <1>4 DEF IInv, WorkerInv
<1>6. GrantInv'
  BY <1>1 DEF IInv, ServerTypes, GrantInv, Waits, Over, Fits, CanBegin
<1>7. OfferInv'
  BY <1>1, OffersKept DEF Names
<1>8. QED
  BY <1>1, <1>2, <1>3, <1>5, <1>6, <1>7, ClientsKept DEF IInv

LEMMA AdvanceInv ==
    ASSUME IInv, NEW c \in Client, Advance(c)
    PROVE  IInv'
<1>1. UNCHANGED <<ctl, sessions, closed, selected, view, allowed>>
  BY DEF Advance
<1>2. command' = [command EXCEPT ![c] = {}]
  BY DEF Advance, None
<1>3. PICK r \in command[c] :
        IF Acceptable(r.session, r.offer.version, r.authorized)
        THEN /\ busy' = [busy EXCEPT ![r.session] = TRUE]
             /\ job' = [job EXCEPT ![r.session] = "queued"]
             /\ queue' = Append(queue, r.session)
             /\ grant' = [grant EXCEPT ![r.session] = {r}]
             /\ reading' = [reading EXCEPT ![<<c, "step">>] = {Half(r.session)}]
             /\ UNCHANGED autoRun
        ELSE /\ autoRun' = [autoRun EXCEPT ![c] = FALSE]
             /\ UNCHANGED <<busy, job, queue, grant, reading>>
  BY DEF Advance
<1>4. r \in Command /\ Names(r.session, r.offer) /\ Fits(r)
  BY <1>3 DEF IInv, ClientTypes, OfferInv, PageInv
<1>5. command' \in [Client -> SUBSET Command] /\ \A d \in Client : command'[d] \subseteq command[d]
  BY <1>2 DEF IInv, ClientTypes
<1>6. CASE ~Acceptable(r.session, r.offer.version, r.authorized)
  <2>1. UNCHANGED server /\ UNCHANGED reading /\ autoRun' = [autoRun EXCEPT ![c] = FALSE]
    BY <1>1, <1>3, <1>6 DEF server
  <2>2. ClientTypes' /\ PageInv'
    BY <1>1, <1>5, <2>1 DEF IInv, ClientTypes, PageInv, Fits
  <2>3. OfferInv'
    BY <1>1, <1>5, <2>1 DEF IInv, OfferInv, Names, server
  <2>4. QED
    BY <2>1, <2>2, <2>3, ServerKept DEF IInv
<1>7. CASE Acceptable(r.session, r.offer.version, r.authorized)
  <2> DEFINE s == r.session
  <2>1. /\ s \in Session /\ r.session = s /\ r.authorized \in BOOLEAN
        /\ r.offer \in Offer /\ r.offer.version \in Nat
    BY <1>4 DEF Command, Offer
  <2>2. /\ busy' = [busy EXCEPT ![s] = TRUE]
        /\ job' = [job EXCEPT ![s] = "queued"]
        /\ queue' = Append(queue, s)
        /\ grant' = [grant EXCEPT ![s] = {r}]
        /\ reading' = [reading EXCEPT ![<<c, "step">>] = {Half(s)}]
        /\ UNCHANGED autoRun
    BY <1>3, <1>7
  <2>3. /\ r.offer.version = ctl[s].version /\ ~busy[s] /\ CanBegin(ctl[s])
        /\ ctl[s].phase = "execution" => r.authorized
    BY <1>7 DEF Acceptable
  <2> HIDE DEF s
  <2>4. job[s] = "none"
    BY <2>1, <2>3 DEF IInv, JobInv
  <2>5. ServerTypes'
    <3>1. job' \in [Session -> Job] /\ busy' \in [Session -> BOOLEAN]
      BY <2>2 DEF IInv, ServerTypes, Job
    <3>2. queue' \in Seq(Session)
      BY <2>1, <2>2, AppendProperties DEF IInv, ServerTypes
    <3>3. grant' \in [Session -> SUBSET Command]
      BY <1>4, <2>2 DEF IInv, ServerTypes
    <3>4. QED
      BY <1>1, <3>1, <3>2, <3>3 DEF IInv, ServerTypes
  <2>6. JobInv'
    BY <1>1, <2>1, <2>2, <2>4 DEF IInv, ServerTypes, JobInv
  <2>7. QueueInv'
    <3>1. queue \in Seq(Session) /\ Len(queue) \in Nat /\ job \in [Session -> Job]
      BY DEF IInv, ServerTypes
    <3>2. /\ Len(queue') = Len(queue) + 1 /\ queue'[Len(queue) + 1] = s
          /\ \A i \in 1..Len(queue) : queue'[i] = queue[i]
      BY <2>1, <2>2, <3>1, AppendProperties
    <3>3. \A i \in 1..Len(queue) : queue[i] # s
      BY <2>1, <2>4, <3>1 DEF IInv, QueueInv
    <3>4. \A i \in 1..Len(queue') : i \in 1..Len(queue) \/ i = Len(queue) + 1
      BY <3>1, <3>2
    <3>5. Len(queue) + 1 \in 1..Len(queue') /\ 1..Len(queue) \subseteq 1..Len(queue')
      BY <3>1, <3>2
    <3>6. \A t \in Session : job'[t] = "queued" <=> \E i \in 1..Len(queue') : queue'[i] = t
      <4>1. \A t \in Session : t # s => job'[t] = job[t]
        BY <2>2, <3>1
      <4>2. job'[s] = "queued"
        BY <2>1, <2>2, <3>1
      <4>3. \A t \in Session : job[t] = "queued" <=> \E i \in 1..Len(queue) : queue[i] = t
        BY DEF IInv, QueueInv
      <4>4. QED
        BY <3>2, <3>4, <3>5, <4>1, <4>2, <4>3
    <3>7. \A i, j \in 1..Len(queue') : queue'[i] = queue'[j] => i = j
      BY <3>2, <3>3, <3>4 DEF IInv, QueueInv
    <3>8. QED
      BY <3>6, <3>7 DEF QueueInv
  <2>8. WorkerInv'
    <3>1. Running' = Running
      BY <2>1, <2>2, <2>4 DEF Running, IInv, ServerTypes
    <3>2. QED
      BY <3>1 DEF IInv, WorkerInv
  <2>9. GrantInv'
    BY <1>1, <1>4, <2>1, <2>2, <2>3, <2>4 DEF IInv, ServerTypes, GrantInv, Waits, Over, Fits, CanBegin
  <2>10. \A y \in Client \X Channel : \A q \in reading'[y] :
           q \in Snapshot /\ \A o \in q.offer : Names(q.session, o)
    <3>1. Half(s) \in Snapshot /\ \A o \in Half(s).offer : Names(Half(s).session, o)
      BY <2>1, HalfType
    <3>2. QED
      BY <2>2, <3>1 DEF IInv, ClientTypes, OfferInv
  <2>11. ClientTypes' /\ PageInv'
    <3>1. reading' \in [Client \X Channel -> SUBSET Snapshot]
      BY <2>2, <2>10 DEF IInv, ClientTypes
    <3>2. QED
      BY <1>1, <1>5, <2>2, <3>1 DEF IInv, ClientTypes, PageInv, Fits
  <2>12. OfferInv'
    <3>1. \A t \in Session : \A g \in grant'[t] : Names(t, g.offer)
      BY <1>4, <2>1, <2>2 DEF IInv, ServerTypes, OfferInv
    <3>2. QED
      BY <1>1, <1>5, <2>10, <3>1 DEF IInv, OfferInv, Names
  <2>13. QED
    BY <2>5, <2>6, <2>7, <2>8, <2>9, <2>11, <2>12 DEF IInv
<1>8. QED
  BY <1>6, <1>7

-----------------------------------------------------------------------------
(* The worker                                                              *)

LEMMA PickInv ==
    ASSUME IInv, NEW s \in Session, Pick(s)
    PROVE  IInv'
<1>1. /\ UNCHANGED <<ctl, sessions, busy, closed, clients, grant>>
      /\ queue # <<>> /\ s = Head(queue) /\ queue' = Tail(queue)
      /\ job' = [job EXCEPT ![s] = "begin"] /\ Cardinality(Running) < MaxWorkers
  BY DEF Pick, registry
<1>2. /\ queue \in Seq(Session) /\ Len(queue) \in Nat \ {0} /\ job \in [Session -> Job]
      /\ queue[1] = s /\ Tail(queue) \in Seq(Session) /\ Len(Tail(queue)) = Len(queue) - 1
      /\ \A i \in 1..Len(Tail(queue)) : Tail(queue)[i] = queue[i + 1]
  BY <1>1, HeadTailProperties, EmptySeq DEF IInv, ServerTypes
<1>3. job[s] = "queued"
  BY <1>2 DEF IInv, QueueInv
<1>4. ServerTypes' /\ JobInv'
  <2>1. job' \in [Session -> Job]
    BY <1>1, <1>2 DEF Job
  <2>2. QED
    BY <1>1, <1>2, <1>3, <2>1 DEF IInv, ServerTypes, JobInv
<1>5. QueueInv'
  <2>1. \A i, j \in 1..Len(queue') : queue'[i] = queue'[j] => i = j
    BY <1>1, <1>2 DEF IInv, QueueInv
  <2>2. ASSUME NEW t \in Session
        PROVE  job'[t] = "queued" <=> \E i \in 1..Len(queue') : queue'[i] = t
    <3>1. job[t] = "queued" <=> \E i \in 1..Len(queue) : queue[i] = t
      BY DEF IInv, QueueInv
    <3>2. CASE t = s
      <4>1. \A i \in 1..Len(queue') : queue'[i] # s
        BY <1>1, <1>2 DEF IInv, QueueInv
      <4>2. QED
        BY <1>1, <1>2, <3>2, <4>1
    <3>3. CASE t # s
      <4>1. ASSUME NEW i \in 1..Len(queue), queue[i] = t
            PROVE  i - 1 \in 1..Len(queue') /\ queue'[i - 1] = t
        BY <1>1, <1>2, <3>3, <4>1
      <4>2. ASSUME NEW i \in 1..Len(queue'), queue'[i] = t
            PROVE  i + 1 \in 1..Len(queue) /\ queue[i + 1] = t
        BY <1>1, <1>2, <4>2
      <4>3. QED
        BY <1>1, <1>2, <3>1, <3>3, <4>1, <4>2
    <3>4. QED
      BY <3>2, <3>3
  <2>3. QED
    BY <2>1, <2>2 DEF QueueInv
<1>6. WorkerInv'
  <2>1. Running' = Running \cup {s} /\ s \notin Running
    BY <1>1, <1>2, <1>3 DEF Running
  <2>2. IsFiniteSet(Running) /\ Cardinality(Running) \in Nat
    BY FS_CardinalityType DEF IInv, WorkerInv
  <2>3. IsFiniteSet(Running') /\ Cardinality(Running') = Cardinality(Running) + 1
    BY <2>1, <2>2, FS_AddElement
  <2>4. QED
    BY <1>1, <2>2, <2>3, MaxWorkersAssumption DEF WorkerInv
<1>7. GrantInv'
  BY <1>1, <1>2, <1>3 DEF IInv, GrantInv, Waits, Over, Fits, CanBegin
<1>8. OfferInv'
  BY <1>1, OffersKept DEF Names
<1>9. QED
  BY <1>1, <1>4, <1>5, <1>6, <1>7, <1>8, ClientsKept DEF IInv

\* A running future moves its controller to d and itself to j.
LEMMA RunInv ==
    ASSUME IInv, NEW s \in Session, NEW d \in Controller, NEW j \in {"phase", "caught", "release"},
           job[s] \in {"begin", "phase", "caught"},
           ctl' = [ctl EXCEPT ![s] = d], job' = [job EXCEPT ![s] = j],
           UNCHANGED <<sessions, busy, queue, closed, grant, clients>>,
           d.version <= MaxVersion[s], d.active # "none" <=> j = "phase",
           d.settled => d.active # "none",
           \A o \in Offer : Names(s, o) => Names(s, o)',
           j = "phase" /\ ~d.settled => \E g \in grant[s] : g.offer.version = d.version,
           j # "phase" \/ d.settled => \A g \in grant[s] : g.offer.version < d.version
    PROVE  IInv'
<1>1. ctl \in [Session -> Controller] /\ job \in [Session -> Job]
  BY DEF IInv, ServerTypes
<1>2. /\ ctl'[s] = d /\ job'[s] = j
      /\ \A t \in Session : t # s => ctl'[t] = ctl[t] /\ job'[t] = job[t]
  BY <1>1
<1>3. ServerTypes'
  <2>1. job' \in [Session -> Job]
    BY <1>1 DEF Job
  <2>2. QED
    BY <1>1, <1>2, <2>1 DEF IInv, ServerTypes
<1>4. JobInv'
  BY <1>2 DEF IInv, JobInv
<1>5. QueueInv'
  BY <1>2 DEF IInv, QueueInv
<1>6. WorkerInv'
  <2>1. Running' = Running
    BY <1>2 DEF Running
  <2>2. QED
    BY <2>1 DEF IInv, WorkerInv
<1>7. GrantInv'
  BY <1>2 DEF IInv, GrantInv, Waits, Over, Fits, CanBegin
<1>8. OfferInv'
  <2>1. \A t \in Session, o \in Offer : Names(t, o) => Names(t, o)'
    BY <1>2 DEF Names
  <2>2. QED
    BY <2>1, OffersKept
<1>9. QED
  BY <1>3, <1>4, <1>5, <1>6, <1>7, <1>8, ClientsKept DEF IInv

LEMMA BeginInv ==
    ASSUME IInv, NEW s \in Session, Begin(s)
    PROVE  IInv'
<1>1. job[s] = "begin" /\ CanBegin(ctl[s]) /\ ctl[s] \in Controller /\ ctl[s].active = "none"
  BY DEF Begin, IInv, GrantInv, Waits, ServerTypes, CanBegin
<1>2. /\ ctl' = [ctl EXCEPT ![s] = Begun(ctl[s])] /\ job' = [job EXCEPT ![s] = "phase"]
      /\ UNCHANGED <<sessions, busy, queue, closed, grant, clients>>
  BY <1>1 DEF Begin, registry
<1> DEFINE d == Begun(ctl[s])
<1>3. /\ d \in Controller /\ d.active = ctl[s].phase /\ d.active # "none" /\ d.phase = ctl[s].phase
      /\ d.version = ctl[s].version /\ d.settled = ctl[s].settled
  BY <1>1, BegunFacts
<1> HIDE DEF d
<1>4. ~d.settled /\ d.version <= MaxVersion[s]
  BY <1>1, <1>3 DEF IInv, JobInv, ServerTypes
<1>5. \E g \in grant[s] : g.offer.version = d.version
  BY <1>1, <1>3 DEF IInv, GrantInv, Waits
<1>6. \A o \in Offer : Names(s, o) => Names(s, o)'
  <2>1. ctl'[s] = d
    BY <1>2 DEF d, IInv, ServerTypes
  <2>2. QED
    BY <1>1, <1>3, <1>4, <2>1 DEF Names
<1>7. QED
  BY <1>1, <1>2, <1>3, <1>4, <1>5, <1>6, RunInv DEF d

LEMMA TurnInv ==
    ASSUME IInv, NEW s \in Session, Turn(s)
    PROVE  IInv'
<1>1. PICK d \in Turns(ctl[s]) : ctl' = [ctl EXCEPT ![s] = d]
  BY DEF Turn
<1>2. ctl[s] \in Controller /\ job \in [Session -> Job] /\ ctl[s].version <= MaxVersion[s]
  BY DEF IInv, ServerTypes
<1>3. /\ d \in Controller /\ ctl[s].active # "none" /\ ~ctl[s].settled
      /\ d.active = ctl[s].active /\ d.version = ctl[s].version /\ d.settled = ctl[s].settled
  BY <1>1, <1>2, TurnFacts
<1>4. /\ job[s] = "phase" /\ job' = [job EXCEPT ![s] = "phase"]
      /\ UNCHANGED <<sessions, busy, queue, closed, grant, clients>>
  BY <1>2 DEF Turn, registry
<1>5. \E g \in grant[s] : g.offer.version = d.version
  BY <1>3, <1>4 DEF IInv, GrantInv
<1>6. \A o \in Offer : Names(s, o) => Names(s, o)'
  <2>1. ctl'[s] = d
    BY <1>1 DEF IInv, ServerTypes
  <2>2. QED
    BY <1>3, <2>1 DEF Names
<1>7. QED
  BY <1>1, <1>2, <1>3, <1>4, <1>5, <1>6, RunInv

LEMMA SettleInv ==
    ASSUME IInv, NEW s \in Session, Settle(s)
    PROVE  IInv'
<1>1. PICK d \in Settlings(ctl[s]) : ctl' = [ctl EXCEPT ![s] = d]
  BY DEF Settle
<1>2. ctl[s] \in Controller /\ job \in [Session -> Job] /\ ctl[s].version \in Nat
  BY DEF IInv, ServerTypes, Controller
<1>3. /\ d \in Controller /\ ctl[s].active # "none" /\ ~ctl[s].settled
      /\ d.active = ctl[s].active /\ d.version = ctl[s].version + 1 /\ d.settled
  BY <1>1, <1>2, SettleFacts
<1>4. /\ job[s] = "phase" /\ job' = [job EXCEPT ![s] = "phase"]
      /\ UNCHANGED <<sessions, busy, queue, closed, grant, clients>>
  BY <1>2 DEF Settle, registry
<1>5. d.version <= MaxVersion[s]
  <2>1. PICK g \in grant[s] : g.offer.version = ctl[s].version
    BY <1>3, <1>4 DEF IInv, GrantInv
  <2>2. ctl[s].version < MaxVersion[s] /\ MaxVersion[s] \in Nat
    BY <2>1, MaxVersionAssumption DEF IInv, GrantInv, Fits
  <2>3. QED
    BY <1>2, <1>3, <2>2
<1>6. \A g \in grant[s] : g.offer.version < d.version
  BY <1>2, <1>3 DEF IInv, OfferInv, Names, ServerTypes, Command, Offer
<1>7. \A o \in Offer : Names(s, o) => Names(s, o)'
  <2>1. ctl'[s] = d
    BY <1>1 DEF IInv, ServerTypes
  <2>2. QED
    BY <1>2, <1>3, <2>1 DEF Names, Offer
<1>8. QED
  BY <1>1, <1>2, <1>3, <1>4, <1>5, <1>6, <1>7, RunInv

LEMMA EndInv ==
    ASSUME IInv, NEW s \in Session, End(s)
    PROVE  IInv'
<1>1. /\ job[s] = "phase" /\ ctl[s].settled /\ ctl' = [ctl EXCEPT ![s] = Ended(ctl[s])]
      /\ UNCHANGED <<sessions, busy, queue, closed, grant, clients>>
  BY DEF End, registry
<1>2. PICK how \in {"caught", "release"} : job' = [job EXCEPT ![s] = how]
  BY DEF End
<1> DEFINE d == Ended(ctl[s])
<1>3. ctl[s] \in Controller /\ ctl[s].version <= MaxVersion[s]
  BY DEF IInv, ServerTypes
<1>4. /\ d \in Controller /\ d.active = "none" /\ d.version = ctl[s].version
      /\ ~d.settled /\ d.phase = ctl[s].phase
  BY <1>3, EndedFacts
<1>5. ctl'[s] = d
  BY <1>1 DEF IInv, ServerTypes
<1> HIDE DEF d
<1>6. \A g \in grant[s] : g.offer.version < d.version
  BY <1>1, <1>4 DEF IInv, GrantInv, Over
<1>7. \A o \in Offer : Names(s, o) => Names(s, o)'
  <2>1. ctl[s].version \in Nat
    BY <1>3 DEF Controller
  <2>2. QED
    BY <1>1, <1>4, <1>5, <2>1 DEF Names, Offer
<1>8. ctl' = [ctl EXCEPT ![s] = d]
  BY <1>1 DEF d
<1>9. QED
  BY <1>1, <1>2, <1>3, <1>4, <1>6, <1>7, <1>8, RunInv

LEMMA CatchInv ==
    ASSUME IInv, NEW s \in Session, Catch(s)
    PROVE  IInv'
<1>1. /\ job[s] = "caught" /\ job' = [job EXCEPT ![s] = "release"]
      /\ UNCHANGED <<ctl, sessions, busy, queue, closed, grant, clients>>
  BY DEF Catch
<1>2. ctl[s] \in Controller /\ ctl[s].version <= MaxVersion[s] /\ ctl' = [ctl EXCEPT ![s] = ctl[s]]
  BY <1>1 DEF IInv, ServerTypes
<1>3. ctl[s].active = "none" /\ ~ctl[s].settled
  BY <1>1 DEF IInv, JobInv
<1>4. \A g \in grant[s] : g.offer.version < ctl[s].version
  BY <1>1 DEF IInv, GrantInv, Over
<1>5. \A o \in Offer : Names(s, o) => Names(s, o)'
  BY <1>1 DEF Names
<1>6. QED
  BY <1>1, <1>2, <1>3, <1>4, <1>5, RunInv

LEMMA ReleaseInv ==
    ASSUME IInv, NEW s \in Session, Release(s)
    PROVE  IInv'
<1>1. /\ job[s] = "release" /\ job' = [job EXCEPT ![s] = "none"]
      /\ busy' = [busy EXCEPT ![s] = FALSE] /\ grant' = [grant EXCEPT ![s] = {}]
      /\ UNCHANGED <<ctl, sessions, queue, closed, clients>>
  BY DEF Release, None
<1>2. ServerTypes'
  <2>1. /\ job' \in [Session -> Job] /\ busy' \in [Session -> BOOLEAN]
        /\ grant' \in [Session -> SUBSET Command]
    BY <1>1 DEF IInv, ServerTypes, Job
  <2>2. QED
    BY <1>1, <2>1 DEF IInv, ServerTypes
<1>3. JobInv' /\ QueueInv'
  BY <1>1 DEF IInv, ServerTypes, JobInv, QueueInv
<1>4. WorkerInv'
  <2>1. Running' = Running \ {s} /\ s \in Running
    BY <1>1 DEF Running, IInv, ServerTypes
  <2>2. IsFiniteSet(Running) /\ Cardinality(Running) \in Nat
    BY FS_CardinalityType DEF IInv, WorkerInv
  <2>3. IsFiniteSet(Running') /\ Cardinality(Running') = Cardinality(Running) - 1
    BY <2>1, <2>2, FS_RemoveElement
  <2>4. QED
    BY <2>2, <2>3, MaxWorkersAssumption DEF IInv, WorkerInv
<1>5. GrantInv'
  BY <1>1 DEF IInv, ServerTypes, GrantInv, Waits, Over, Fits, CanBegin
<1>6. OfferInv'
  <2>1. \A t \in Session : grant'[t] \subseteq grant[t]
    BY <1>1 DEF IInv, ServerTypes
  <2>2. QED
    BY <1>1, <2>1 DEF IInv, OfferInv, Names, clients, page
<1>7. QED
  BY <1>1, <1>2, <1>3, <1>4, <1>5, <1>6, ClientsKept DEF IInv

-----------------------------------------------------------------------------
(* The theorems                                                            *)

LEMMA StepInv == IInv /\ [Next]_vars => IInv'
<1> SUFFICES ASSUME IInv, [Next]_vars PROVE IInv'
  OBVIOUS
<1>1. CASE UNCHANGED vars
  <2>1. UNCHANGED server /\ UNCHANGED clients
    BY <1>1 DEF vars, server, registry
  <2>2. OfferInv'
    BY <2>1, OffersKept DEF server, Names
  <2>3. QED
    BY <2>1, <2>2, ServerKept, ClientsKept DEF IInv
<1>2. ASSUME NEW s \in Session, Create(s) \/ Work(s)
      PROVE  IInv'
  BY <1>2, CreateInv, PickInv, BeginInv, TurnInv, SettleInv, EndInv, CatchInv, ReleaseInv DEF Work
<1>3. ASSUME NEW c \in Client, Operate(c) \/ Request(c) \/ Advance(c)
      PROVE  IInv'
  BY <1>3, OperateInv, RequestInv, AdvanceInv
<1>4. ASSUME NEW c \in Client, NEW s \in Session, Select(c, s) \/ Look(c, s)
      PROVE  IInv'
  BY <1>4, SelectInv, LookInv
<1>5. ASSUME NEW c \in Client, NEW k \in Channel, Reply(c, k) \/ Answer(c, k)
      PROVE  IInv'
  BY <1>5, ReplyInv, AnswerInv
<1>6. CASE Close
  BY <1>6, CloseInv
<1>7. QED
  BY <1>1, <1>2, <1>3, <1>4, <1>5, <1>6 DEF Next

\* The invariant that carries the others: jobs, queue and busy flags agree, an offer in
\* flight is never of a version to come, and a waiting command is still of the present one.
THEOREM InvCorrect == Spec => []IInv
BY InitInv, StepInv, PTL DEF Spec

\* Every variable has its type, whatever the sets of tests and clients.
THEOREM TypeCorrect == Spec => []TypeOK
<1>1. IInv => TypeOK
  BY TypeParts DEF IInv
<1>2. QED
  BY <1>1, InvCorrect, PTL

\* A busy test has exactly one future, and the executor runs no more than it has threads
\* (sessions.py:275 and 317).
THEOREM FutureCorrect == Spec => []OneFuture
<1>1. IInv => OneFuture
  BY TypeParts DEF IInv, OneFuture, JobInv, QueueInv, WorkerInv
<1>2. QED
  BY <1>1, InvCorrect, PTL

\* Whatever the order of the answers, the page offers the phase its version stands for, or
\* a version that is over (sessions.py:223, app.js:694).
THEOREM ViewCorrect == Spec => []ViewNamesPhase
<1>1. IInv => ViewNamesPhase
  BY DEF IInv, OfferInv, Names, ViewNamesPhase
<1>2. QED
  BY <1>1, InvCorrect, PTL

\* A controller that begins a phase is in the hands of a future that may begin it.
LEMMA BeginsFacts ==
    ASSUME IInv, [Next]_vars, NEW s \in Session, Begins(s)
    PROVE  /\ job[s] = "begin" /\ CanBegin(ctl[s]) /\ ctl[s].active = "none"
           /\ ctl'[s] = Begun(ctl[s]) /\ ctl'[s].active = ctl[s].phase
<1>1. ctl \in [Session -> Controller] /\ ctl[s] \in Controller
  BY DEF IInv, ServerTypes
<1>2. ctl' # ctl /\ ctl[s].active = "none"
  BY DEF Begins
<1>3. PICK t \in Session : Begin(t) \/ Turn(t) \/ Settle(t) \/ End(t)
  BY <1>2 DEF Next, vars, Work, Create, Operate, Request, Advance, Select, Look, Reply, Answer,
     Close, Pick, Catch, Release
<1>4. t = s
  BY <1>1, <1>2, <1>3 DEF Begins, Begin, Turn, Settle, End
<1>5. ctl[s].active # "none" => job[s] = "phase"
  BY DEF IInv, JobInv
<1>6. Begin(s)
  BY <1>2, <1>3, <1>4 DEF Turn, Settle, End, IInv, JobInv
<1>7. job[s] = "begin" /\ CanBegin(ctl[s])
  BY <1>6 DEF Begin, IInv, GrantInv, Waits
<1>8. ctl'[s] = Begun(ctl[s])
  BY <1>1, <1>6, <1>7 DEF Begin
<1>9. QED
  BY <1>1, <1>2, <1>7, <1>8, BegunFacts

\* However long a command was on its way, its phase runs only as it saw it, and a test is
\* free again only for a later version (sessions.py:275 and 282).
THEOREM GrantCorrect == Spec => GrantedPhaseRuns
<1>1. ASSUME IInv, [Next]_vars, NEW s \in Session, Begins(s)
      PROVE  \E g \in grant[s] :
               /\ g.offer.version = ctl[s].version
               /\ g.offer.phase = ctl'[s].active
               /\ ctl'[s].active = "execution" => g.authorized
  <2>1. /\ job[s] = "begin" /\ ctl[s].active = "none" /\ ctl'[s].active = ctl[s].phase
    BY <1>1, BeginsFacts
  <2>2. PICK g \in grant[s] : /\ g.offer.version = ctl[s].version
                              /\ ctl[s].phase = "execution" => g.authorized
    BY <1>1, <2>1 DEF IInv, GrantInv, Waits
  <2>3. Names(s, g.offer)
    BY <1>1, <2>2 DEF IInv, OfferInv
  <2>4. QED
    BY <2>1, <2>2, <2>3 DEF Names
<1>2. ASSUME IInv, [Next]_vars, NEW s \in Session, busy[s] /\ ~busy'[s]
      PROVE  \A g \in grant[s] : ctl[s].version > g.offer.version
  <2>1. PICK t \in Session : Release(t)
    <3>1. busy' # busy
      BY <1>2
    <3>2. \A c \in Client : ~Advance(c)
      <4>1. SUFFICES ASSUME NEW c \in Client, Advance(c) PROVE FALSE
        OBVIOUS
      <4>2. PICK r \in command[c] : busy' = [busy EXCEPT ![r.session] = TRUE] \/ busy' = busy
        BY <4>1 DEF Advance
      <4>3. QED
        BY <1>2, <4>2 DEF IInv, ServerTypes
    <3>3. QED
      BY <1>2, <3>1, <3>2 DEF Next, vars, registry, Work, Create, Operate, Request, Select, Look,
         Reply, Answer, Close, Pick, Begin, Turn, Settle, End, Catch
  <2>2. t = s
    BY <1>2, <2>1 DEF Release, IInv, ServerTypes
  <2>3. \A g \in grant[s] : g.offer.version < ctl[s].version
    BY <1>2, <2>1, <2>2 DEF Release, IInv, GrantInv, Over
  <2>4. \A g \in grant[s] : g.offer.version \in Nat /\ ctl[s].version \in Nat
    BY <1>2 DEF IInv, ServerTypes, Command, Offer, Controller
  <2>5. QED
    BY <2>3, <2>4
<1>3. IInv /\ [Next]_vars =>
        [\A s \in Session :
           /\ Begins(s) =>
                \E g \in grant[s] :
                   /\ g.offer.version = ctl[s].version
                   /\ g.offer.phase = ctl'[s].active
                   /\ ctl'[s].active = "execution" => g.authorized
           /\ busy[s] /\ ~busy'[s] => \A g \in grant[s] : ctl[s].version > g.offer.version]_vars
  BY <1>1, <1>2
<1>4. QED
  BY <1>3, InvCorrect, PTL DEF Spec, GrantedPhaseRuns

\* Auto-run takes a real action of an official test only with the consent given for that
\* very test (running-experiments.md:48, app.js:552 and 594).
THEOREM ConsentCorrect == Spec => AutoRunAsks
<1>1. ASSUME IInv, [Next]_vars
      PROVE  [\A s \in Official : Begins(s) /\ ctl'[s].active = "execution" =>
                \A g \in grant[s] : g.automatic => g.consent = {s}]_vars
  BY <1>1, OfficialAssumption DEF IInv, GrantInv, Fits
<1>2. QED
  BY <1>1, InvCorrect, PTL DEF Spec, AutoRunAsks
=============================================================================
