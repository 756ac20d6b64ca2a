----------------------------- MODULE HostProofs -----------------------------
(***************************************************************************)
(* Proofs about the sandbox (Sandbox), the start of a game (GameSources)   *)
(* and the paper trail of generated code (Trail) for every value of their  *)
(* constants.                                                              *)
(*                                                                         *)
(* What a call of the sandbox returns is the answer to it because of the   *)
(* state of the pipe.  While nobody holds the lock the held worker owes    *)
(* nothing and its pipe is empty; inside an exchange it holds at most the  *)
(* one answer that is waited for; and the exchange that leaves an answer   *)
(* behind drops the worker with it.                                        *)
(*                                                                         *)
(* A start runs what its test declares because the first claim of a file   *)
(* fixes the one content the process may run of it, what the SDK keeps of  *)
(* the file is that content or the file was edited since, and the last     *)
(* comparison of the start excludes the edit; SourcesInv says so at every  *)
(* place of a start.                                                       *)
(*                                                                         *)
(* An action is traced because its evidence is handed on: an answer to the *)
(* candidate, candidate to hypothesis, hypothesis to the report of its     *)
(* promotion, promotion to execution, and an answer to the plan, its       *)
(* simulation and the action.  TrailInv says at every place of a run which *)
(* events the thing in hand already has, and which a promoted program or a *)
(* plan still lacks; what a log says it keeps saying as it grows.          *)
(***************************************************************************)
EXTENDS MCHost, FiniteSetTheorems, SequenceTheorems, TLAPS

-----------------------------------------------------------------------------
(* Calls of a generated program                                            *)

Inside == {"send", "loading", "calling", "expired"}

\* The lock is held by whoever is inside _request, and with it a worker is.
LockInv ==
    /\ lock = {} \/ \E c \in Caller : lock = {c}
    /\ \A c \in Caller : pc[c] \in Inside <=> lock = {c}
    /\ lock # {} => process # {}
    /\ \A w \in process : process = {w}

Quiet(w) == doing[w] = {} /\ out[w] = <<>>

\* The worker owes the answer to q, or it was given, or it never will be.
Owes(w, q) ==
    \/ doing[w] = {q} /\ out[w] = <<>>
    \/ doing[w] = {} /\ out[w] = <<>>
    \/ doing[w] = {} /\ \E ok \in BOOLEAN : out[w] = <<[to |-> q, ok |-> ok]>>

PipeInv ==
    \A w \in process :
        /\ lock = {} => Quiet(w)
        /\ \A c \in Caller :
             /\ pc[c] = "send" => Quiet(w)
             /\ pc[c] = "loading" => Owes(w, Load)
             /\ pc[c] = "calling" => Owes(w, asked[c])

IInv == TypeOK /\ LockInv /\ PipeInv /\ OwnAnswer /\ OneWorker

-----------------------------------------------------------------------------

LEMMA InitInv == Init => IInv
<1> SUFFICES ASSUME Init PROVE IInv
  OBVIOUS
<1>1. TypeOK
  BY DEF Init, TypeOK, Load, Failed, Answer
<1>2. LockInv
  BY DEF Init, LockInv, Inside
<1>3. PipeInv /\ OneWorker
  BY DEF Init, PipeInv, OneWorker
<1>4. OwnAnswer
  BY DEF Init, OwnAnswer, Failed
<1>5. QED
  BY <1>1, <1>2, <1>3, <1>4 DEF IInv

-----------------------------------------------------------------------------
(* The calling side                                                        *)

LEMMA CallInv ==
    ASSUME IInv, NEW c \in Caller, Call(c)
    PROVE  IInv'
<1>1. TypeOK'
  BY DEF IInv, TypeOK, Call, workers
<1>2. LockInv'
  BY DEF IInv, TypeOK, LockInv, Inside, Call, workers
<1>3. PipeInv' /\ OneWorker'
  BY DEF IInv, TypeOK, PipeInv, OneWorker, Quiet, Owes, Call, workers
<1>4. OwnAnswer'
  BY DEF IInv, TypeOK, OwnAnswer, Call, workers
<1>5. QED
  BY <1>1, <1>2, <1>3, <1>4 DEF IInv

LEMMA EnterInv ==
    ASSUME IInv, NEW c \in Caller, Enter(c)
    PROVE  IInv'
<1>1. TypeOK'
  BY DEF IInv, TypeOK, Enter, workers
<1>2. LockInv'
  BY DEF IInv, TypeOK, LockInv, Inside, Enter, workers
<1>3. PipeInv' /\ OneWorker'
  BY DEF IInv, TypeOK, LockInv, Inside, PipeInv, OneWorker, Quiet, Owes, Enter, workers
<1>4. OwnAnswer'
  BY DEF IInv, TypeOK, OwnAnswer, Enter, workers
<1>5. QED
  BY <1>1, <1>2, <1>3, <1>4 DEF IInv

LEMMA StartInv ==
    ASSUME IInv, NEW c \in Caller, NEW w \in Worker, Start(c, w)
    PROVE  IInv'
<1>1. TypeOK'
  BY DEF IInv, TypeOK, Start, Load
<1>2. LockInv'
  BY DEF IInv, TypeOK, LockInv, Inside, Start
<1>3. PipeInv'
  BY DEF IInv, TypeOK, LockInv, Inside, PipeInv, Quiet, Owes, Start
<1>4. OneWorker'
  BY DEF IInv, TypeOK, LockInv, OneWorker, Start
<1>5. OwnAnswer'
  BY DEF IInv, TypeOK, OwnAnswer, Start
<1>6. QED
  BY <1>1, <1>2, <1>3, <1>4, <1>5 DEF IInv

LEMMA SendInv ==
    ASSUME IInv, NEW c \in Caller, NEW w \in Worker, Send(c, w)
    PROVE  IInv'
<1>1. TypeOK'
  BY DEF IInv, TypeOK, Send
<1>2. LockInv'
  BY DEF IInv, TypeOK, LockInv, Inside, Send
<1>3. PipeInv'
  <2>1. process' = {w} /\ lock' = {c} /\ doing[w] = {} /\ out'[w] = <<>> /\ asked' = asked
    BY DEF IInv, LockInv, Inside, PipeInv, Quiet, Send
  <2>2. doing'[w] = {asked'[c]} \/ doing'[w] = {}
    BY <2>1 DEF IInv, TypeOK, Send
  <2>3. \A d \in Caller : pc'[d] \in Inside => d = c
    BY <1>2, <2>1 DEF LockInv
  <2>4. pc'[c] = "calling"
    BY DEF IInv, TypeOK, Send
  <2>5. QED
    BY <2>1, <2>2, <2>3, <2>4 DEF PipeInv, Owes, Inside
<1>4. OneWorker'
  BY DEF IInv, OneWorker, Send
<1>5. OwnAnswer'
  BY DEF IInv, TypeOK, OwnAnswer, Send
<1>6. QED
  BY <1>1, <1>2, <1>3, <1>4, <1>5 DEF IInv

\* What is read is the answer that was waited for, and nothing is left behind.
LEMMA AnswerRead ==
    ASSUME IInv, NEW c \in Caller, NEW w \in process, Waiting(c), out[w] # <<>>
    PROVE  /\ doing[w] = {} /\ Tail(out[w]) = <<>>
           /\ Head(out[w]) \in Answer
           /\ pc[c] = "calling" => Head(out[w]).to = asked[c]
<1> DEFINE q == IF pc[c] = "loading" THEN Load ELSE asked[c]
<1>1. Owes(w, q) /\ q \in Nat
  BY DEF IInv, TypeOK, PipeInv, Waiting, Load
<1> HIDE DEF q
<1>2. PICK ok \in BOOLEAN : doing[w] = {} /\ out[w] = <<[to |-> q, ok |-> ok]>>
  BY <1>1 DEF Owes
<1>3. Head(out[w]) = [to |-> q, ok |-> ok] /\ Tail(out[w]) = <<>>
  BY <1>2
<1>4. QED
  BY <1>1, <1>2, <1>3 DEF Answer, q

LEMMA ReceiveInv ==
    ASSUME IInv, NEW c \in Caller, NEW w \in Worker, Receive(c, w)
    PROVE  IInv'
<1>1. /\ w \in process /\ doing[w] = {} /\ Tail(out[w]) = <<>> /\ Head(out[w]) \in Answer
      /\ pc[c] = "calling" => Head(out[w]).to = asked[c]
  BY AnswerRead DEF Receive
<1>2. process = {w} /\ lock = {c}
  BY <1>1 DEF IInv, LockInv, Inside, Receive, Waiting
<1>3. CASE pc[c] = "loading" /\ Head(out[w]).ok
  <2> DEFINE kept == <<process, lock, asked, result, calls, alive, loaded, doing>>
  <2>1. /\ pc' = [pc EXCEPT ![c] = "send"] /\ out' = [out EXCEPT ![w] = <<>>]
        /\ UNCHANGED kept
    BY <1>1, <1>3 DEF Receive
  <2>2. TypeOK'
    BY <2>1 DEF IInv, TypeOK
  <2>3. LockInv'
    BY <1>2, <2>1 DEF IInv, TypeOK, LockInv, Inside
  <2>4. PipeInv'
    BY <1>1, <1>2, <2>1 DEF IInv, TypeOK, LockInv, Inside, PipeInv, Quiet, Owes
  <2>5. OneWorker' /\ OwnAnswer'
    BY <2>1 DEF IInv, TypeOK, OneWorker, OwnAnswer
  <2>6. QED
    BY <2>2, <2>3, <2>4, <2>5 DEF IInv
<1>4. CASE ~(pc[c] = "loading" /\ Head(out[w]).ok)
  <2> DEFINE answer == IF pc[c] = "loading" THEN Failed ELSE Head(out[w])
  <2>1. /\ answer \in Answer
        /\ answer.ok => answer.to = asked[c]
    BY <1>1 DEF Failed, Load, Answer, Receive, Waiting
  <2>2. Return(c, answer)
    BY <1>4 DEF Receive
  <2> HIDE DEF answer
  <2>3. TypeOK'
    BY <1>1, <2>1, <2>2 DEF IInv, TypeOK, Receive, Return
  <2>4. LockInv'
    BY <1>2, <2>2 DEF IInv, TypeOK, LockInv, Inside, Receive, Return
  <2>5. PipeInv'
    BY <1>1, <1>2, <2>2 DEF IInv, TypeOK, LockInv, Inside, PipeInv, Quiet, Owes, Receive, Return
  <2>6. OwnAnswer'
    BY <2>1, <2>2 DEF IInv, TypeOK, OwnAnswer, Return
  <2>7. OneWorker'
    BY DEF IInv, OneWorker, Receive
  <2>8. QED
    BY <2>3, <2>4, <2>5, <2>6, <2>7 DEF IInv
<1>5. QED
  BY <1>3, <1>4

LEMMA ExpireInv ==
    ASSUME IInv, NEW c \in Caller, NEW w \in Worker, Expire(c, w)
    PROVE  IInv'
<1>1. TypeOK'
  BY DEF IInv, TypeOK, Expire, workers
<1>2. LockInv'
  BY DEF IInv, TypeOK, LockInv, Inside, Expire, Waiting, workers
<1>3. PipeInv' /\ OneWorker'
  BY DEF IInv, TypeOK, PipeInv, OneWorker, Quiet, Owes, Expire, workers
<1>4. OwnAnswer'
  BY DEF IInv, TypeOK, OwnAnswer, Expire, workers
<1>5. QED
  BY <1>1, <1>2, <1>3, <1>4 DEF IInv

\* Without its worker a program has nothing to account for.
LEMMA DroppedInv ==
    ASSUME IInv, NEW w \in process, Drop(w)
    PROVE  PipeInv' /\ OneWorker'
BY DEF IInv, TypeOK, PipeInv, OneWorker, Drop

LEMMA AbortInv ==
    ASSUME IInv, NEW c \in Caller, NEW w \in Worker, Abort(c, w)
    PROVE  IInv'
<1>1. TypeOK'
  BY DEF IInv, TypeOK, Abort, Return, Drop, Failed, Load, Answer
<1>2. LockInv'
  BY DEF IInv, TypeOK, LockInv, Inside, Abort, Return, Drop, Waiting
<1>3. PipeInv' /\ OneWorker'
  BY DroppedInv DEF Abort
<1>4. OwnAnswer'
  BY DEF IInv, TypeOK, OwnAnswer, Abort, Return, Failed
<1>5. QED
  BY <1>1, <1>2, <1>3, <1>4 DEF IInv

LEMMA CloseInv ==
    ASSUME IInv, NEW c \in Caller, NEW w \in Worker, Close(c, w)
    PROVE  IInv'
<1>1. TypeOK'
  BY DEF IInv, TypeOK, Close, Drop, callers
<1>2. LockInv' /\ OwnAnswer'
  BY DEF IInv, LockInv, OwnAnswer, Close, Drop, callers
<1>3. PipeInv' /\ OneWorker'
  BY DroppedInv DEF Close
<1>4. QED
  BY <1>1, <1>2, <1>3 DEF IInv

-----------------------------------------------------------------------------
(* The worker                                                              *)

LEMMA RespondInv ==
    ASSUME IInv, NEW w \in Worker, NEW q \in 0..MaxCalls, Respond(w, q)
    PROVE  IInv'
<1>1. PICK ok \in BOOLEAN : out' = [out EXCEPT ![w] = Append(@, [to |-> q, ok |-> ok])]
  BY DEF Respond
<1>2. q \in Nat /\ [to |-> q, ok |-> ok] \in Answer
  BY DEF IInv, TypeOK, Respond, Answer
<1>3. TypeOK'
  <2>1. out' \in [Worker -> Seq(Answer)]
    BY <1>1, <1>2 DEF IInv, TypeOK
  <2>2. QED
    BY <2>1 DEF IInv, TypeOK, Respond, callers
<1>4. LockInv' /\ OwnAnswer' /\ OneWorker'
  BY DEF IInv, LockInv, OwnAnswer, OneWorker, Respond, callers
<1>5. ASSUME NEW v \in process, NEW p \in Nat, Owes(v, p)
      PROVE  Owes(v, p)'
  <2>1. CASE v # w
    BY <2>1, <1>5, <1>1 DEF IInv, TypeOK, LockInv, Owes, Respond
  <2>2. CASE v = w
    <3>1. doing[w] = {p} /\ out[w] = <<>> /\ q = p
      BY <2>2, <1>5 DEF Owes, Respond
    <3>2. doing'[w] = {} /\ out'[w] = <<[to |-> p, ok |-> ok]>>
      BY <3>1, <1>1 DEF IInv, TypeOK, Respond
    <3>3. QED
      BY <2>2, <3>2 DEF Owes
  <2>3. QED
    BY <2>1, <2>2
<1>6. ASSUME NEW v \in process, Quiet(v)
      PROVE  Quiet(v)'
  BY <1>6, <1>1 DEF IInv, TypeOK, LockInv, Quiet, Respond
<1>7. PipeInv'
  <2>1. UNCHANGED <<process, lock, pc, asked>>
    BY DEF Respond, callers
  <2>2. ASSUME NEW v \in process, NEW c \in Caller, pc[c] = "loading"
        PROVE  Owes(v, Load)'
    <3>1. Owes(v, 0)
      BY <2>2 DEF IInv, PipeInv, Load
    <3>2. QED
      BY <3>1, <1>5 DEF Load
  <2>3. ASSUME NEW v \in process, NEW c \in Caller, pc[c] = "calling"
        PROVE  Owes(v, asked[c])'
    <3>1. PICK p \in Nat : p = asked[c] /\ p = asked'[c]
      BY <2>1 DEF IInv, TypeOK
    <3>2. Owes(v, p)'
      BY <2>3, <3>1, <1>5 DEF IInv, PipeInv
    <3>3. QED
      BY <3>1, <3>2
  <2>4. QED
    BY <2>1, <2>2, <2>3, <1>6 DEF IInv, PipeInv
<1>8. QED
  BY <1>3, <1>4, <1>7 DEF IInv

LEMMA DieInv ==
    ASSUME IInv, NEW w \in Worker, Die(w)
    PROVE  IInv'
<1>1. TypeOK'
  BY DEF IInv, TypeOK, Die, callers
<1>2. LockInv' /\ OwnAnswer' /\ OneWorker'
  BY DEF IInv, TypeOK, LockInv, OwnAnswer, OneWorker, Die, callers
<1>3. UNCHANGED <<process, lock, pc, asked, out>>
  BY DEF Die, callers
<1>4. ASSUME NEW v \in process
      PROVE  doing'[v] = doing[v] \/ doing'[v] = {}
  BY DEF IInv, TypeOK, Die
<1>5. ASSUME NEW v \in process, Quiet(v)
      PROVE  Quiet(v)'
  BY <1>3, <1>4, <1>5 DEF Quiet
<1>6. ASSUME NEW v \in process, NEW p, Owes(v, p)
      PROVE  Owes(v, p)'
  <2>1. CASE doing'[v] = doing[v]
    BY <2>1, <1>3, <1>6 DEF Owes
  <2>2. CASE doing'[v] = {}
    BY <2>2, <1>3, <1>6 DEF Owes
  <2>3. QED
    BY <2>1, <2>2, <1>4
<1>7. PipeInv'
  <2>1. ASSUME NEW v \in process, NEW c \in Caller, pc[c] = "loading"
        PROVE  Owes(v, Load)'
    <3>1. Owes(v, 0)
      BY <2>1 DEF IInv, PipeInv, Load
    <3>2. QED
      BY <3>1, <1>6 DEF Load
  <2>2. ASSUME NEW v \in process, NEW c \in Caller, pc[c] = "calling"
        PROVE  Owes(v, asked[c])'
    <3>1. PICK p : p = asked[c] /\ p = asked'[c]
      BY <1>3
    <3>2. Owes(v, p)'
      BY <2>2, <3>1, <1>6 DEF IInv, PipeInv
    <3>3. QED
      BY <3>1, <3>2
  <2>3. QED
    BY <1>3, <1>5, <2>1, <2>2 DEF IInv, PipeInv
<1>8. QED
  BY <1>1, <1>2, <1>7 DEF IInv

-----------------------------------------------------------------------------
LEMMA StepInv == IInv /\ [Next]_vars => IInv'
<1> SUFFICES ASSUME IInv, [Next]_vars PROVE IInv'
  OBVIOUS
<1>1. ASSUME NEW c \in Caller, Work(c) PROVE IInv'
  BY <1>1, EnterInv, StartInv, SendInv, ReceiveInv, ExpireInv, AbortInv DEF Work
<1>2. ASSUME NEW c \in Caller, Call(c) \/ \E w \in Worker : Close(c, w) PROVE IInv'
  BY <1>2, CallInv, CloseInv
<1>3. ASSUME NEW w \in Worker, Die(w) \/ \E q \in 0..MaxCalls : Respond(w, q) PROVE IInv'
  BY <1>3, DieInv, RespondInv
<1>4. CASE UNCHANGED vars
  <2>1. TypeOK' /\ LockInv' /\ OwnAnswer' /\ OneWorker'
    BY <1>4 DEF vars, callers, workers, IInv, TypeOK, LockInv, OwnAnswer, OneWorker
  <2>2. PipeInv'
    BY <1>4 DEF vars, callers, workers, IInv, PipeInv, Quiet, Owes
  <2>3. QED
    BY <2>1, <2>2 DEF IInv
<1>5. QED
  BY <1>1, <1>2, <1>3, <1>4 DEF Next

\* The state of the lock and of the pipe, for every use of the sandbox.
THEOREM InvCorrect == Spec => []IInv
BY InitInv, StepInv, PTL DEF Spec

\* A value a call returns is the answer to that very call, whatever was late or lost.
THEOREM AnswersCorrect == Spec => []OwnAnswer
<1>1. IInv => OwnAnswer
  BY DEF IInv
<1>2. QED
  BY <1>1, InvCorrect, PTL

\* At most one worker runs, and it is the one close() reaches.
THEOREM WorkersCorrect == Spec => []OneWorker
<1>1. IInv => OneWorker
  BY DEF IInv
<1>2. QED
  BY <1>1, InvCorrect, PTL

-----------------------------------------------------------------------------
(* Starting a game                                                         *)

SourceTypes ==
    /\ metadata \in [Dir -> Sources!Metadata] /\ source \in [Dir -> Sources!Source]
    /\ edits \in Sources!Content /\ booted \in Sources!Content
    /\ stage \in [Test -> {"none", "created", "current", "claimed", "opened", "started",
                           "refused", "failed"}]
    /\ game \in [Test -> Game]
    /\ expected \in [Test -> SUBSET Sources!Provenance]
    /\ code \in [Test -> SUBSET [dir : Dir, source : Sources!Content]]
    /\ loadedHashes \in [Dir -> SUBSET Sources!Content]
    /\ modules \in [Dir -> SUBSET Sources!Content]

\* Contents are numbered by the edits: what a test declares is not newer than the file.
ContentInv ==
    /\ booted <= edits
    /\ \A d \in Dir : source[d].content <= edits
    /\ \A t \in Test : \A p \in expected[t] : p.source <= source[p.dir].content

\* A test declares one fingerprint from its creation on, and has its code from its opening.
DeclaredInv ==
    \A t \in Test :
        /\ IF stage[t] = "none" THEN expected[t] = {} ELSE \E p \in expected[t] : expected[t] = {p}
        /\ stage[t] \in {"none", "created", "current", "claimed"} => code[t] = {}

\* What a start has claimed stays claimed.
ClaimInv ==
    \A t \in Test : stage[t] \in {"claimed", "opened", "started"} =>
        \A p \in expected[t] : loadedHashes[p.dir] = {p.source}

\* A module the SDK keeps is what was claimed of its file, or the file was edited since the
\* claim, unless a test that declares another directory strayed there.
ModulesInv ==
    \A d \in Dir : \A c \in modules[d] :
        \/ Sources!Strayed(d)
        \/ \E h \in loadedHashes[d] : c = h \/ source[d].content > h

\* The code of a test, likewise; the last comparison of its start excludes the edit.
CodeInv ==
    \A t \in Test :
        /\ stage[t] \in {"opened", "started"} => \E c \in code[t] : code[t] = {c}
        /\ \A c \in code[t], p \in expected[t] :
             /\ stage[t] = "started" => c.dir = p.dir
             /\ stage[t] \in {"opened", "started"} /\ c.dir = p.dir =>
                  \/ Sources!Strayed(c.dir)
                  \/ c.source = p.source
                  \/ stage[t] = "opened" /\ source[p.dir].content > p.source

\* Nothing is refused as long as no file was edited in the life of the process.
CauseInv ==
    edits = booted =>
        /\ \A d \in Dir : \A h \in loadedHashes[d] : h = source[d].content
        /\ \A t \in Test :
             /\ stage[t] # "refused"
             /\ stage[t] # "none" => Sources!Collected(game[t]) = expected[t]
             /\ \A c \in code[t], p \in expected[t] : c.dir = p.dir

SourcesInv ==
    SourceTypes /\ ContentInv /\ DeclaredInv /\ ClaimInv /\ ModulesInv /\ CodeInv /\ CauseInv

-----------------------------------------------------------------------------
LEMMA ContentType == Sources!Content \subseteq Nat
BY EditsAssumption DEF Sources!Content

LEMMA DeclaredTypes ==
    ASSUME SourceTypes, NEW t \in Test, NEW p \in expected[t]
    PROVE  p \in Sources!Provenance /\ p.dir \in Dir /\ p.source \in Nat
<1>1. p \in Sources!Provenance
  BY DEF SourceTypes
<1>2. p.dir \in Dir /\ p.source \in Sources!Content
  BY <1>1 DEF Sources!Provenance
<1> QED BY <1>1, <1>2, ContentType

\* What is collected is the fingerprint of the one directory that claims the game.
LEMMA CollectedFacts ==
    ASSUME SourceTypes, NEW g \in Game
    PROVE  /\ \/ Sources!Collected(g) = {}
              \/ \E p \in Sources!Collected(g) : Sources!Collected(g) = {p}
           /\ \A p \in Sources!Collected(g) :
                /\ p \in Sources!Provenance /\ p.dir \in Dir
                /\ p.source = source[p.dir].content
                /\ Sources!Matches(g) = {p.dir}
<1> DEFINE ok == {e \in Sources!Matches(g) : /\ ~Sources!CanonicalFailure(g)
                                            /\ Sources!Matches(g) = {e}
                                            /\ source[e].valid}
           print(d) == [dir |-> d, metadata |-> metadata[d].content, source |-> source[d].content]
<1>1. Sources!Collected(g) = {print(d) : d \in ok}
  BY DEF Sources!Collected
<1>2. \A d \in ok : d \in Dir /\ Sources!Matches(g) = {d}
  BY DEF Sources!Matches
<1> HIDE DEF ok
<1>3. \A d \in Dir : /\ print(d) \in Sources!Provenance /\ print(d).dir = d
                     /\ print(d).source = source[d].content
  BY DEF SourceTypes, Sources!Metadata, Sources!Source, Sources!Provenance
<1> HIDE DEF print
<1>4. \A d, e \in ok : d = e
  BY <1>2
<1>5. ASSUME NEW d \in ok PROVE \E p \in Sources!Collected(g) : Sources!Collected(g) = {p}
  <2>1. ok = {d}
    BY <1>4
  <2> QED BY <1>1, <2>1
<1>6. ok = {} => Sources!Collected(g) = {}
  BY <1>1
<1> QED BY <1>1, <1>2, <1>3, <1>5, <1>6

LEMMA StrayedKept ==
    ASSUME \A t \in Test : code[t] \subseteq code'[t] /\ expected[t] \subseteq expected'[t]
    PROVE  \A d : Sources!Strayed(d) => Sources!Strayed(d)'
BY DEF Sources!Strayed

LEMMA SourcesInitInv == Sources!Init => SourcesInv
<1> SUFFICES ASSUME Sources!Init PROVE SourcesInv
  OBVIOUS
<1>1. SourceTypes
  BY EditsAssumption DEF Sources!Init, SourceTypes, Sources!Content
<1>2. ContentInv
  BY EditsAssumption DEF Sources!Init, ContentInv, Sources!Source, Sources!Content
<1>3. DeclaredInv /\ ClaimInv /\ ModulesInv /\ CodeInv /\ CauseInv
  BY DEF Sources!Init, DeclaredInv, ClaimInv, ModulesInv, CodeInv, CauseInv
<1> QED BY <1>1, <1>2, <1>3 DEF SourcesInv

\* An edit makes the content of one file newer than everything declared and kept.
LEMMA EditInv ==
    ASSUME SourcesInv, NEW d \in Dir, Sources!EditMetadata(d) \/ Sources!EditSource(d)
    PROVE  SourcesInv'
<1>1. /\ edits < MaxEdits /\ edits' = edits + 1
      /\ UNCHANGED <<booted, stage, game, expected, code, loadedHashes, modules>>
  BY DEF Sources!EditMetadata, Sources!EditSource, Sources!tests
<1>2. edits \in Nat /\ edits + 1 \in Sources!Content /\ booted \in Nat /\ MaxEdits \in Nat
  BY <1>1, EditsAssumption DEF SourcesInv, SourceTypes, Sources!Content
<1>3. \/ /\ source' = source
         /\ \E m \in Sources!Metadata : metadata' = [metadata EXCEPT ![d] = m]
      \/ /\ metadata' = metadata
         /\ \E s \in Sources!Source : s.content = edits + 1 /\ source' = [source EXCEPT ![d] = s]
  BY DEF Sources!EditMetadata, Sources!EditSource
<1>4. SourceTypes'
  BY <1>1, <1>2, <1>3 DEF SourcesInv, SourceTypes, Sources!Metadata, Sources!Source,
     Sources!Provenance, Sources!Content
<1>5. \A e \in Dir : /\ source[e].content \in Nat /\ source[e].content <= edits
                     /\ source'[e] = source[e] \/ source'[e].content = edits + 1
  BY <1>2, <1>3, ContentType DEF SourcesInv, SourceTypes, ContentInv, Sources!Source
<1>6. \A e \in Dir : /\ source'[e].content <= edits + 1
                     /\ source[e].content <= source'[e].content
  BY <1>2, <1>5
<1>7. \A t \in Test : \A p \in expected[t] : p.dir \in Dir /\ p.source \in Nat
  BY DeclaredTypes DEF SourcesInv
<1>8. \A e \in Dir : \A h \in loadedHashes[e] : h \in Nat
  BY ContentType DEF SourcesInv, SourceTypes
<1>s. \A e \in Dir : source'[e].content \in Nat
  BY <1>4, ContentType DEF SourceTypes, Sources!Source
<1>9. ContentInv'
  <2>1. booted' <= edits'
    BY <1>1, <1>2 DEF SourcesInv, ContentInv
  <2>2. \A t \in Test : \A p \in expected[t] : p.source <= source'[p.dir].content
    <3> SUFFICES ASSUME NEW t \in Test, NEW p \in expected[t]
                 PROVE  p.source <= source'[p.dir].content
      OBVIOUS
    <3>1. p.source <= source[p.dir].content
      BY DEF SourcesInv, ContentInv
    <3> QED BY <1>5, <1>6, <1>7, <1>s, <3>1
  <2> QED BY <1>1, <1>6, <2>1, <2>2 DEF ContentInv
<1>10. \A e : Sources!Strayed(e)' <=> Sources!Strayed(e)
  BY <1>1 DEF Sources!Strayed
<1>11. ModulesInv'
  <2> SUFFICES ASSUME NEW e \in Dir, NEW c \in modules[e], ~Sources!Strayed(e)
               PROVE  \E h \in loadedHashes[e] : c = h \/ source'[e].content > h
    BY <1>1, <1>10 DEF ModulesInv
  <2>1. PICK h \in loadedHashes[e] : c = h \/ source[e].content > h
    BY DEF SourcesInv, ModulesInv
  <2> QED BY <1>5, <1>6, <1>8, <1>s, <2>1
<1>12. CodeInv'
  <2>1. \A t \in Test : \A p \in expected[t] :
           source[p.dir].content > p.source => source'[p.dir].content > p.source
    BY <1>5, <1>6, <1>7, <1>s
  <2> QED BY <1>1, <1>10, <2>1 DEF SourcesInv, CodeInv
<1>13. CauseInv'
  BY <1>1, <1>2 DEF SourcesInv, ContentInv, CauseInv
<1>14. DeclaredInv' /\ ClaimInv'
  BY <1>1 DEF SourcesInv, DeclaredInv, ClaimInv
<1> QED BY <1>4, <1>9, <1>11, <1>12, <1>13, <1>14 DEF SourcesInv

LEMMA RestartInv ==
    ASSUME SourcesInv, Sources!Restart
    PROVE  SourcesInv'
<1>1. /\ booted' = edits /\ UNCHANGED <<metadata, source, edits, game>>
      /\ stage' = [t \in Test |-> "none"]
      /\ expected' = [t \in Test |-> {}] /\ code' = [t \in Test |-> {}]
      /\ loadedHashes' = [d \in Dir |-> {}] /\ modules' = [d \in Dir |-> {}]
  BY DEF Sources!Restart, Sources!files
<1>2. SourceTypes'
  BY <1>1 DEF SourcesInv, SourceTypes, Sources!Metadata, Sources!Source, Sources!Content,
     Sources!Provenance
<1>3. ContentInv'
  BY <1>1, ContentType DEF SourcesInv, SourceTypes, ContentInv
<1>4. DeclaredInv' /\ ClaimInv' /\ ModulesInv' /\ CodeInv' /\ CauseInv'
  BY <1>1 DEF DeclaredInv, ClaimInv, ModulesInv, CodeInv, CauseInv
<1> QED BY <1>2, <1>3, <1>4 DEF SourcesInv

\* A step of a test that leaves the files, the claims and the modules alone.
LEMMA StageInv ==
    ASSUME SourcesInv, NEW t \in Test, stage[t] # "none",
           NEW s \in {"current", "started", "refused", "failed"},
           stage' = [stage EXCEPT ![t] = s],
           UNCHANGED <<metadata, source, edits, booted, game, expected, code, loadedHashes,
                       modules>>,
           s = "current" => stage[t] = "created",
           s = "started" => /\ stage[t] = "opened"
                            /\ Sources!Collected(game[t]) = expected[t]
                            /\ \A c \in code[t], p \in expected[t] : c.dir = p.dir,
           s = "refused" => edits # booted
    PROVE  SourcesInv'
<1>1. \A u \in Test : stage'[u] = IF u = t THEN s ELSE stage[u]
  BY DEF SourcesInv, SourceTypes
<1>2. SourceTypes'
  BY DEF SourcesInv, SourceTypes, Sources!Metadata, Sources!Source, Sources!Content,
     Sources!Provenance
<1>3. ContentInv' /\ ModulesInv'
  BY DEF SourcesInv, ContentInv, ModulesInv, Sources!Strayed
<1>4. DeclaredInv'
  BY <1>1 DEF SourcesInv, DeclaredInv
<1>5. ClaimInv'
  BY <1>1 DEF SourcesInv, ClaimInv
<1>6. \A g : Sources!Collected(g)' = Sources!Collected(g)
  BY DEF Sources!Collected, Sources!Matches, Sources!CanonicalFailure
<1>7. CauseInv'
  BY <1>1, <1>6 DEF SourcesInv, CauseInv
<1>8. \A e : Sources!Strayed(e)' <=> Sources!Strayed(e)
  BY DEF Sources!Strayed
<1>9. CodeInv'
  <2> SUFFICES ASSUME NEW u \in Test
               PROVE  /\ stage'[u] \in {"opened", "started"} => \E c \in code[u] : code[u] = {c}
                      /\ \A c \in code[u], p \in expected[u] :
                           /\ stage'[u] = "started" => c.dir = p.dir
                           /\ stage'[u] \in {"opened", "started"} /\ c.dir = p.dir =>
                                \/ Sources!Strayed(c.dir)
                                \/ c.source = p.source
                                \/ stage'[u] = "opened" /\ source[p.dir].content > p.source
    BY <1>8 DEF CodeInv
  <2>1. CASE stage'[u] = stage[u]
    BY <2>1 DEF SourcesInv, CodeInv
  <2>2. CASE u = t /\ s = "started"
    <3>1. \A p \in expected[t] : p.source = source[p.dir].content /\ p.source \in Nat
      BY <2>2, CollectedFacts, DeclaredTypes DEF SourcesInv, SourceTypes
    <3> QED BY <1>1, <2>2, <3>1 DEF SourcesInv, CodeInv
  <2>3. CASE u = t /\ s # "started"
    BY <1>1, <2>3
  <2> QED BY <1>1, <2>1, <2>2, <2>3
<1> QED BY <1>2, <1>3, <1>4, <1>5, <1>7, <1>9 DEF SourcesInv

LEMMA CreateInv ==
    ASSUME SourcesInv, NEW t \in Test, Sources!Create(t)
    PROVE  SourcesInv'
<1>1. /\ stage[t] = "none" /\ Sources!Collected(game[t]) # {}
      /\ expected' = [expected EXCEPT ![t] = Sources!Collected(game[t])]
      /\ stage' = [stage EXCEPT ![t] = "created"]
      /\ UNCHANGED <<metadata, source, edits, booted, game, code, loadedHashes, modules>>
  BY DEF Sources!Create, Sources!files
<1>2. \A u \in Test : /\ stage'[u] = IF u = t THEN "created" ELSE stage[u]
                      /\ expected'[u] = IF u = t THEN Sources!Collected(game[t]) ELSE expected[u]
  BY <1>1 DEF SourcesInv, SourceTypes
<1>3. /\ expected[t] = {} /\ code[t] = {} /\ game[t] \in Game
      /\ \E p \in Sources!Collected(game[t]) : Sources!Collected(game[t]) = {p}
      /\ \A p \in Sources!Collected(game[t]) : p \in Sources!Provenance
                                              /\ p.dir \in Dir /\ p.source = source[p.dir].content
  BY <1>1, CollectedFacts DEF SourcesInv, SourceTypes, DeclaredInv
<1>4. SourceTypes'
  <2>1. Sources!Collected(game[t]) \in SUBSET Sources!Provenance
    BY <1>3
  <2> QED BY <1>1, <2>1 DEF SourcesInv, SourceTypes, Sources!Metadata, Sources!Source,
             Sources!Content, Sources!Provenance
<1>5. ContentInv'
  <2>1. \A d \in Dir : source[d].content \in Nat
    BY ContentType DEF SourcesInv, SourceTypes, Sources!Source
  <2>2. \A p \in Sources!Collected(game[t]) : p.source <= source[p.dir].content
    BY <1>3, <2>1
  <2> QED BY <1>1, <1>2, <2>2 DEF SourcesInv, ContentInv
<1>6. DeclaredInv' /\ ClaimInv'
  BY <1>1, <1>2, <1>3 DEF SourcesInv, DeclaredInv, ClaimInv
<1>7. \A e : Sources!Strayed(e) => Sources!Strayed(e)'
  BY <1>1, <1>2, <1>3, StrayedKept
<1>8. ModulesInv'
  BY <1>1, <1>7 DEF SourcesInv, ModulesInv
<1>9. CodeInv'
  BY <1>1, <1>2, <1>3, <1>7 DEF SourcesInv, CodeInv
<1>10. \A g : Sources!Collected(g)' = Sources!Collected(g)
  BY <1>1 DEF Sources!Collected, Sources!Matches, Sources!CanonicalFailure
<1>11. CauseInv'
  BY <1>1, <1>2, <1>3, <1>10 DEF SourcesInv, CauseInv
<1> QED BY <1>4, <1>5, <1>6, <1>8, <1>9, <1>11 DEF SourcesInv

LEMMA CompareInv ==
    ASSUME SourcesInv, NEW t \in Test, Sources!Compare(t)
    PROVE  SourcesInv'
<1> DEFINE s == IF Sources!Collected(game[t]) = expected[t] THEN "current" ELSE "refused"
<1>1. /\ stage[t] = "created" /\ stage' = [stage EXCEPT ![t] = s]
      /\ UNCHANGED <<metadata, source, edits, booted, game, expected, code, loadedHashes, modules>>
  BY DEF Sources!Compare, Sources!files
<1>2. s = "refused" => edits # booted
  BY <1>1 DEF SourcesInv, CauseInv
<1>3. s \in {"current", "refused"}
  OBVIOUS
<1> HIDE DEF s
<1> QED BY <1>1, <1>2, <1>3, StageInv

LEMMA ConfirmInv ==
    ASSUME SourcesInv, NEW t \in Test, Sources!Confirm(t)
    PROVE  SourcesInv'
<1> DEFINE same == /\ \A c \in code[t], p \in expected[t] : c.dir = p.dir
                   /\ Sources!Collected(game[t]) = expected[t]
           s == IF same THEN "started" ELSE "refused"
<1>1. /\ stage[t] = "opened" /\ stage' = [stage EXCEPT ![t] = s]
      /\ UNCHANGED <<metadata, source, edits, booted, game, expected, code, loadedHashes, modules>>
  BY DEF Sources!Confirm, Sources!files
<1>2. s = "refused" => edits # booted
  BY <1>1 DEF SourcesInv, CauseInv
<1>3. s = "started" => same
  OBVIOUS
<1>4. s \in {"started", "refused"}
  OBVIOUS
<1> HIDE DEF s
<1> QED BY <1>1, <1>2, <1>3, <1>4, StageInv

LEMMA ClaimStepInv ==
    ASSUME SourcesInv, NEW t \in Test, Sources!Claim(t)
    PROVE  SourcesInv'
<1>1. PICK p \in expected[t] :
        IF loadedHashes[p.dir] \subseteq {p.source}
        THEN /\ loadedHashes' = [loadedHashes EXCEPT ![p.dir] = {p.source}]
             /\ stage' = [stage EXCEPT ![t] = "claimed"]
        ELSE /\ stage' = [stage EXCEPT ![t] = "refused"]
             /\ UNCHANGED loadedHashes
  BY DEF Sources!Claim
<1>2. /\ stage[t] = "current"
      /\ UNCHANGED <<metadata, source, edits, booted, game, expected, code, modules>>
  BY DEF Sources!Claim, Sources!files
<1>3. expected[t] = {p} /\ p \in Sources!Provenance /\ p.dir \in Dir /\ p.source \in Nat
  BY <1>2, DeclaredTypes DEF SourcesInv, DeclaredInv
<1>4. edits = booted => p.source = source[p.dir].content
  BY <1>2, CollectedFacts DEF SourcesInv, SourceTypes, CauseInv
<1>5. CASE ~(loadedHashes[p.dir] \subseteq {p.source})
  <2>1. stage' = [stage EXCEPT ![t] = "refused"] /\ UNCHANGED loadedHashes
    BY <1>1, <1>5
  <2>2. edits # booted
    BY <1>3, <1>4, <1>5 DEF SourcesInv, CauseInv
  <2> QED BY <1>2, <2>1, <2>2, StageInv
<1>6. CASE loadedHashes[p.dir] \subseteq {p.source}
  <2>1. /\ \A u \in Test : stage'[u] = IF u = t THEN "claimed" ELSE stage[u]
        /\ \A d \in Dir : loadedHashes'[d] = IF d = p.dir THEN {p.source} ELSE loadedHashes[d]
        /\ stage' = [stage EXCEPT ![t] = "claimed"]
        /\ loadedHashes' = [loadedHashes EXCEPT ![p.dir] = {p.source}]
    BY <1>1, <1>6 DEF SourcesInv, SourceTypes
  <2>2. SourceTypes'
    <3>1. p.source \in Sources!Content
      BY <1>3 DEF Sources!Provenance
    <3> QED BY <1>2, <2>1, <3>1 DEF SourcesInv, SourceTypes, Sources!Metadata, Sources!Source,
               Sources!Content, Sources!Provenance
  <2>3. ContentInv'
    BY <1>2 DEF SourcesInv, ContentInv
  <2>4. DeclaredInv'
    BY <1>2, <2>1 DEF SourcesInv, DeclaredInv
  <2>5. ClaimInv'
    <3> SUFFICES ASSUME NEW u \in Test, stage'[u] \in {"claimed", "opened", "started"},
                        NEW q \in expected[u]
                 PROVE  loadedHashes'[q.dir] = {q.source}
      BY <1>2 DEF ClaimInv
    <3>1. CASE u = t
      BY <1>3, <2>1, <3>1
    <3>2. CASE u # t
      <4>1. loadedHashes[q.dir] = {q.source}
        BY <2>1, <3>2 DEF SourcesInv, ClaimInv
      <4>2. q.dir \in Dir
        BY DeclaredTypes DEF SourcesInv
      <4> QED BY <1>6, <2>1, <4>1, <4>2
    <3> QED BY <3>1, <3>2
  <2>6. \A d : Sources!Strayed(d)' <=> Sources!Strayed(d)
    BY <1>2 DEF Sources!Strayed
  <2>7. ModulesInv'
    BY <1>2, <1>6, <2>1, <2>6 DEF SourcesInv, ModulesInv
  <2>8. CodeInv'
    BY <1>2, <2>1, <2>6 DEF SourcesInv, CodeInv
  <2>9. \A g : Sources!Collected(g)' = Sources!Collected(g)
    BY <1>2 DEF Sources!Collected, Sources!Matches, Sources!CanonicalFailure
  <2>10. CauseInv'
    BY <1>2, <1>4, <2>1, <2>9 DEF SourcesInv, CauseInv
  <2> QED BY <2>2, <2>3, <2>4, <2>5, <2>7, <2>8, <2>10 DEF SourcesInv
<1> QED BY <1>5, <1>6

\* The SDK opens the declared directory or strays; what it runs is the file or what it kept.
LEMMA OpenStepInv ==
    ASSUME SourcesInv, NEW t \in Test, Sources!Open(t)
    PROVE  SourcesInv'
<1>1. /\ stage[t] = "claimed"
      /\ UNCHANGED <<metadata, source, edits, booted, game, expected, loadedHashes>>
  BY DEF Sources!Open, Sources!files
<1>2. CASE stage' = [stage EXCEPT ![t] = "failed"] /\ UNCHANGED <<code, modules>>
  BY <1>1, <1>2, StageInv
<1>3. ASSUME NEW d \in Sources!Matches(game[t]),
             NEW c \in modules[d] \cup (IF source[d].valid THEN {source[d].content} ELSE {}),
             code' = [code EXCEPT ![t] = {[dir |-> d, source |-> c]}],
             modules' = [modules EXCEPT ![d] = {c}],
             NEW s \in {"opened", "failed"}, stage' = [stage EXCEPT ![t] = s]
      PROVE  SourcesInv'
  <2> DEFINE now == [dir |-> d, source |-> c]
  <2>1. /\ d \in Dir
        /\ c \in modules[d] \/ c = source[d].content
        /\ game[t] \in Game
    BY DEF Sources!Matches, SourcesInv, SourceTypes
  <2>2. c \in Sources!Content /\ now \in [dir : Dir, source : Sources!Content]
    <3>1. source[d] \in Sources!Source /\ modules[d] \subseteq Sources!Content
      BY <2>1 DEF SourcesInv, SourceTypes
    <3>2. c \in Sources!Content
      BY <2>1, <3>1 DEF Sources!Source
    <3> QED BY <2>1, <3>2
  <2>3. now.dir = d /\ now.source = c
    OBVIOUS
  <2> HIDE DEF now
  <2>4. /\ \A u \in Test : /\ stage'[u] = IF u = t THEN s ELSE stage[u]
                           /\ code'[u] = IF u = t THEN {now} ELSE code[u]
        /\ \A e \in Dir : modules'[e] = IF e = d THEN {c} ELSE modules[e]
    BY <1>3, <2>1 DEF SourcesInv, SourceTypes, now
  <2>5. code[t] = {}
    BY <1>1 DEF SourcesInv, DeclaredInv
  <2>6. \A e : Sources!Strayed(e) => Sources!Strayed(e)'
    BY <1>1, <2>4, <2>5, StrayedKept
  <2>7. PICK p \in expected[t] : expected[t] = {p}
    BY <1>1 DEF SourcesInv, DeclaredInv
  <2>8. p.dir \in Dir /\ p.source \in Nat /\ loadedHashes[p.dir] = {p.source}
    BY <1>1, DeclaredTypes DEF SourcesInv, ClaimInv
  <2>9. d # p.dir => Sources!Strayed(d)'
    BY <1>1, <2>3, <2>4, <2>7 DEF Sources!Strayed
  <2>10. d = p.dir /\ ~Sources!Strayed(d) => c = p.source \/ source[d].content > p.source
    <3> SUFFICES ASSUME d = p.dir, ~Sources!Strayed(d)
                 PROVE  c = p.source \/ source[d].content > p.source
      OBVIOUS
    <3>1. CASE c \in modules[d]
      BY <2>1, <2>8, <3>1 DEF SourcesInv, ModulesInv
    <3>2. CASE c = source[d].content
      <4>1. p.source <= source[d].content /\ source[d].content \in Nat
        <5>1. source[d] \in Sources!Source
          BY <2>1 DEF SourcesInv, SourceTypes
        <5>2. source[d].content \in Nat
          BY <5>1, ContentType DEF Sources!Source
        <5>3. d = p.dir => p.source <= source[d].content
          BY <2>7 DEF SourcesInv, ContentInv
        <5> QED BY <5>2, <5>3
      <4> QED BY <2>8, <3>2, <4>1
    <3> QED BY <2>1, <3>1, <3>2
  <2>11. SourceTypes'
    <3>1. {now} \in SUBSET [dir : Dir, source : Sources!Content] /\ {c} \in SUBSET Sources!Content
      BY <2>2
    <3>2. code' = [code EXCEPT ![t] = {now}]
      BY <1>3 DEF now
    <3> QED BY <1>1, <1>3, <2>1, <3>1, <3>2 DEF SourcesInv, SourceTypes, Sources!Metadata,
               Sources!Source, Sources!Content, Sources!Provenance
  <2>12. ContentInv'
    BY <1>1 DEF SourcesInv, ContentInv
  <2>13. DeclaredInv' /\ ClaimInv'
    BY <1>1, <2>4 DEF SourcesInv, DeclaredInv, ClaimInv
  <2>14. ModulesInv'
    <3> SUFFICES ASSUME NEW e \in Dir, NEW m \in modules'[e]
                 PROVE  \/ Sources!Strayed(e)'
                        \/ \E h \in loadedHashes[e] : m = h \/ source[e].content > h
      BY <1>1 DEF ModulesInv
    <3>1. CASE e # d
      BY <2>4, <2>6, <3>1 DEF SourcesInv, ModulesInv
    <3>2. CASE e = d
      <4>1. m = c
        BY <2>4, <3>2
      <4> QED BY <2>6, <2>8, <2>9, <2>10, <3>2, <4>1
    <3> QED BY <3>1, <3>2
  <2>15. CodeInv'
    <3> SUFFICES ASSUME NEW u \in Test
                 PROVE  /\ stage'[u] \in {"opened", "started"} => \E x \in code'[u] : code'[u] = {x}
                        /\ \A x \in code'[u], q \in expected[u] :
                             /\ stage'[u] = "started" => x.dir = q.dir
                             /\ stage'[u] \in {"opened", "started"} /\ x.dir = q.dir =>
                                  \/ Sources!Strayed(x.dir)'
                                  \/ x.source = q.source
                                  \/ stage'[u] = "opened" /\ source[q.dir].content > q.source
      BY <1>1 DEF CodeInv
    <3>1. CASE u # t
      BY <2>4, <2>6, <3>1 DEF SourcesInv, CodeInv
    <3>2. CASE u = t
      BY <2>3, <2>4, <2>6, <2>7, <2>10, <3>2
    <3> QED BY <3>1, <3>2
  <2>16. CauseInv'
    <3> SUFFICES ASSUME edits = booted PROVE CauseInv'
      BY <1>1 DEF CauseInv
    <3>1. \A g : Sources!Collected(g)' = Sources!Collected(g)
      BY <1>1 DEF Sources!Collected, Sources!Matches, Sources!CanonicalFailure
    <3>2. Sources!Collected(game[t]) = {p}
      BY <1>1, <2>7 DEF SourcesInv, CauseInv
    <3>3. d = p.dir
      BY <2>1, <3>2, CollectedFacts DEF SourcesInv
    <3> QED BY <1>1, <2>3, <2>4, <2>7, <3>1, <3>3 DEF SourcesInv, CauseInv
  <2> QED BY <2>11, <2>12, <2>13, <2>14, <2>15, <2>16 DEF SourcesInv
<1> QED BY <1>2, <1>3 DEF Sources!Open

LEMMA SourcesStepInv == SourcesInv /\ [Sources!Next]_(Sources!vars) => SourcesInv'
<1> SUFFICES ASSUME SourcesInv, [Sources!Next]_(Sources!vars) PROVE SourcesInv'
  OBVIOUS
<1>1. CASE UNCHANGED Sources!vars
  <2>1. UNCHANGED <<metadata, source, edits, booted, stage, game, expected, code, loadedHashes,
                    modules>>
    BY <1>1 DEF Sources!vars, Sources!files, Sources!tests
  <2>2. SourceTypes'
    BY <2>1 DEF SourcesInv, SourceTypes, Sources!Metadata, Sources!Source, Sources!Content,
       Sources!Provenance
  <2>3. /\ \A g : Sources!Collected(g)' = Sources!Collected(g)
        /\ \A d : Sources!Strayed(d)' <=> Sources!Strayed(d)
    BY <2>1 DEF Sources!Collected, Sources!Matches, Sources!CanonicalFailure, Sources!Strayed
  <2>4. ContentInv' /\ DeclaredInv' /\ ClaimInv'
    BY <2>1 DEF SourcesInv, ContentInv, DeclaredInv, ClaimInv
  <2>5. ModulesInv' /\ CodeInv' /\ CauseInv'
    BY <2>1, <2>3 DEF SourcesInv, ModulesInv, CodeInv, CauseInv
  <2> QED BY <2>2, <2>4, <2>5 DEF SourcesInv
<1> QED BY <1>1, EditInv, RestartInv, CreateInv, CompareInv, ClaimStepInv, OpenStepInv,
           ConfirmInv DEF Sources!Next

\* The fingerprints taken when a test is created decide its start: it runs the code they
\* declare or, only when a file has changed, not at all (but for a directory a refused or
\* failed start strayed to, see RunsDeclaredCode), for any number of tests, games and
\* directories and any edits between two steps (env/offline_session.py: start,
\* _claim_source_identity, _verify_wrapper_directory).
THEOREM StartCorrect == Sources!Spec => []StartDecided
<1>1. SourcesInv => StartDecided
  <2> SUFFICES ASSUME SourcesInv PROVE StartDecided
    OBVIOUS
  <2>1. Sources!TypeOK
    BY DEF SourcesInv, SourceTypes, Sources!TypeOK
  <2>2. ASSUME NEW t \in Test, stage[t] = "started", \A p \in expected[t] : ~Sources!Strayed(p.dir)
        PROVE  code[t] = {[dir |-> p.dir, source |-> p.source] : p \in expected[t]}
    <3>1. PICK p \in expected[t] : expected[t] = {p}
      BY <2>2 DEF SourcesInv, DeclaredInv
    <3>2. PICK c \in code[t] : code[t] = {c}
      BY <2>2 DEF SourcesInv, CodeInv
    <3>3. c.dir = p.dir /\ c.source = p.source
      BY <2>2 DEF SourcesInv, CodeInv
    <3>4. c = [dir |-> c.dir, source |-> c.source]
      <4>1. c \in [dir : Dir, source : Sources!Content]
        BY DEF SourcesInv, SourceTypes
      <4> QED BY <4>1
    <3> QED BY <3>1, <3>2, <3>3, <3>4
  <2>3. Sources!RunsDeclaredCode
    BY <2>2 DEF Sources!RunsDeclaredCode
  <2>4. Sources!RefusedForCause
    <3>1. edits \in Nat /\ booted \in Nat
      BY ContentType DEF SourcesInv, SourceTypes
    <3> QED BY <3>1 DEF Sources!RefusedForCause, SourcesInv, ContentInv, CauseInv
  <2> QED BY <2>1, <2>3, <2>4 DEF StartDecided, Sources!StartDecided
<1> QED BY <1>1, SourcesInitInv, SourcesStepInv, PTL DEF Sources!Spec

-----------------------------------------------------------------------------
(* Sequences of events                                                     *)

\* Trail's copies of two operators of the libraries are those operators.
LEMMA SameCardinality == \A S : Papers!Cardinality(S) = Cardinality(S)
BY DEF Papers!Cardinality, Cardinality

LEMMA SameInjective == \A f : Papers!IsInjective(f) <=> IsInjective(f)
BY DEF Papers!IsInjective, IsInjective

LEMMA InjectionFacts ==
    ASSUME NEW S, NEW T, NEW f
    PROVE  f \in Injection(S, T) <=> f \in [S -> T] /\ IsInjective(f)
BY DEF Injection, IsInjective

IsLog(s) == s \in Seq({s[i] : i \in 1..Len(s)})

LEMMA LogFacts ==
    ASSUME NEW s, IsLog(s)
    PROVE  Len(s) \in Nat /\ s = [i \in 1..Len(s) |-> s[i]] /\ DOMAIN s = 1..Len(s)
BY LenProperties DEF IsLog

LEMMA EmptyLog == IsLog(<<>>) /\ Len(<<>>) = 0
BY DEF IsLog

LEMMA AppendLog ==
    ASSUME NEW s, NEW e, IsLog(s)
    PROVE  /\ IsLog(Append(s, e)) /\ Len(Append(s, e)) = Len(s) + 1
           /\ \A i \in 1..Len(s) : Append(s, e)[i] = s[i]
           /\ Append(s, e)[Len(s) + 1] = e
<1> DEFINE S == {s[i] : i \in 1..Len(s)} \cup {e}
           t == Append(s, e)
<1>1. s \in Seq(S) /\ e \in S /\ Len(s) \in Nat
  <2>1. s \in Seq({s[i] : i \in 1..Len(s)})
    BY DEF IsLog
  <2> QED BY <2>1, SeqMonotonic, LenProperties
<1>2. /\ t \in Seq(S) /\ Len(t) = Len(s) + 1
      /\ \A i \in 1..Len(s) : t[i] = s[i]
      /\ t[Len(s) + 1] = e
  BY <1>1, AppendProperties
<1>3. S \subseteq {t[i] : i \in 1..Len(t)}
  <2>1. ASSUME NEW i \in 1..Len(s) PROVE s[i] \in {t[j] : j \in 1..Len(t)}
    BY <1>1, <1>2
  <2>2. e \in {t[j] : j \in 1..Len(t)}
    BY <1>1, <1>2
  <2> QED BY <2>1, <2>2
<1> QED BY <1>2, <1>3, SeqMonotonic DEF IsLog

LEMMA FunctionLog ==
    ASSUME NEW n \in Nat, NEW S, NEW s \in [1..n -> S]
    PROVE  IsLog(s) /\ Len(s) = n
<1>1. s \in Seq(S)
  BY SeqDef
<1>2. Len(s) = n
  BY <1>1, LenProperties
<1>3. s \in [1..n -> {s[i] : i \in 1..n}]
  OBVIOUS
<1>4. s \in Seq({s[i] : i \in 1..n})
  BY <1>3, SeqDef
<1> QED BY <1>2, <1>4 DEF IsLog

LEMMA TailLog ==
    ASSUME NEW s, IsLog(s), s # <<>>
    PROVE  /\ IsLog(Tail(s)) /\ Len(Tail(s)) = Len(s) - 1 /\ Len(s) # 0
           /\ Head(s) = s[1]
           /\ \A i \in 1..Len(s) - 1 : Tail(s)[i] = s[i + 1]
<1> DEFINE S == {s[i] : i \in 1..Len(s)}
           t == Tail(s)
<1>1. s \in Seq(S)
  BY DEF IsLog
<1> HIDE DEF S
<1>2. /\ t \in Seq(S) /\ Len(t) = Len(s) - 1 /\ Len(s) \in Nat /\ Len(s) # 0
      /\ \A i \in 1..Len(t) : t[i] = s[i + 1]
  BY <1>1, HeadTailProperties, LenProperties, EmptySeq
<1>3. t \in [1..Len(t) -> S] /\ Len(t) \in Nat
  BY <1>2, LenProperties
<1>4. IsLog(t)
  <2> HIDE DEF t
  <2> QED BY <1>3, FunctionLog
<1>5. Head(s) = s[1]
  OBVIOUS
<1> QED BY <1>2, <1>4, <1>5

\* A sequence of the elements of a finite set has each of them.
LEMMA SetToSeqFacts ==
    ASSUME NEW S, IsFiniteSet(S)
    PROVE  /\ IsLog(Papers!SetToSeq(S)) /\ Len(Papers!SetToSeq(S)) = Cardinality(S)
           /\ \A i \in 1..Len(Papers!SetToSeq(S)) : Papers!SetToSeq(S)[i] \in S
           /\ \A x \in S : \E i \in 1..Len(Papers!SetToSeq(S)) : Papers!SetToSeq(S)[i] = x
<1> DEFINE n == Cardinality(S)
           f == Papers!SetToSeq(S)
<1>1. n \in Nat /\ ExistsBijection(1..n, S)
  BY FS_CardinalityType
<1>2. \E g \in [1..n -> S] : Papers!IsInjective(g)
  <2>1. PICK g \in Bijection(1..n, S) : TRUE
    BY <1>1 DEF ExistsBijection
  <2>2. g \in Injection(1..n, S)
    BY <2>1 DEF Bijection
  <2> HIDE DEF n
  <2> QED BY <2>2, InjectionFacts, SameInjective
<1>3. f \in [1..n -> S] /\ Papers!IsInjective(f)
  <2>1. f = CHOOSE g \in [1..n -> S] : Papers!IsInjective(g)
    BY SameCardinality DEF Papers!SetToSeq
  <2> HIDE DEF n, f
  <2> QED BY <1>2, <2>1
<1> HIDE DEF f
<1>4. f \in Injection(1..n, S)
  BY <1>3, InjectionFacts, SameInjective
<1>5. Cardinality(1..n) = n /\ IsFiniteSet(1..n)
  <2>1. Cardinality(1..n) = IF 1 > n THEN 0 ELSE n - 1 + 1
    BY <1>1, FS_Interval
  <2>2. IsFiniteSet(1..n)
    BY <1>1, FS_Interval
  <2> HIDE DEF n
  <2> QED BY <1>1, <2>1, <2>2
<1>6. f \in Surjection(1..n, S)
  BY <1>4, <1>5, FS_Injection
<1>7. IsLog(f) /\ Len(f) = n
  BY <1>1, <1>3, FunctionLog
<1>8. \A x \in S : \E i \in 1..n : f[i] = x
  BY <1>6 DEF Surjection
<1> QED BY <1>3, <1>7, <1>8 DEF f

\* The k-th smallest of a finite set of places runs through all of them.
LEMMA PlaceFacts ==
    ASSUME NEW L \in Nat, NEW S, S \subseteq 1..L
    PROVE  LET Before(i) == {j \in S : j < i}
               nth(k) == CHOOSE i \in S : Papers!Cardinality(Before(i)) = k - 1
           IN  /\ IsFiniteSet(S) /\ Cardinality(S) \in Nat
               /\ \A k \in 1..Cardinality(S) : nth(k) \in S
               /\ \A i \in S : \E k \in 1..Cardinality(S) : nth(k) = i
               /\ S # {} => \E i \in S : \A j \in S : j <= i
<1> DEFINE Before(i) == {j \in S : j < i}
           nth(k) == CHOOSE i \in S : Papers!Cardinality(Before(i)) = k - 1
           n == Cardinality(S)
           rank == [i \in S |-> Cardinality(Before(i)) + 1]
<1>1. IsFiniteSet(S) /\ n \in Nat
  <2>1. IsFiniteSet(1..L)
    BY FS_Interval
  <2> QED BY <2>1, FS_Subset, FS_CardinalityType
<1>2. ASSUME NEW i \in S
      PROVE  /\ IsFiniteSet(Before(i)) /\ Cardinality(Before(i)) \in Nat
             /\ Cardinality(Before(i)) < n
  <2>1. Before(i) \in SUBSET S /\ i \notin Before(i)
    OBVIOUS
  <2> HIDE DEF Before
  <2>2. /\ IsFiniteSet(Before(i)) /\ Cardinality(Before(i)) <= n
        /\ n = Cardinality(Before(i)) => S = Before(i)
    BY <1>1, <2>1, FS_Subset
  <2>3. Cardinality(Before(i)) \in Nat
    BY <2>2, FS_CardinalityType
  <2> HIDE DEF n
  <2> QED BY <1>1, <2>1, <2>2, <2>3
<1>3. ASSUME NEW i \in S, NEW m \in S, i < m
      PROVE  Cardinality(Before(i)) < Cardinality(Before(m))
  <2>1. i \in Int /\ m \in Int /\ \A j \in S : j \in Int
    OBVIOUS
  <2>2. /\ \A j \in S : j < i => j < m
        /\ ~(i < i)
    BY <1>3, <2>1
  <2>2a. Before(i) \in SUBSET Before(m) /\ i \notin Before(i) /\ i \in Before(m)
    BY <1>3, <2>2
  <2> HIDE DEF Before
  <2>3. /\ Cardinality(Before(i)) <= Cardinality(Before(m))
        /\ Cardinality(Before(m)) = Cardinality(Before(i)) => Before(m) = Before(i)
    BY <1>2, <2>2a, FS_Subset
  <2> QED BY <1>2, <2>2a, <2>3
<1> HIDE DEF Before, n
<1>4. rank \in Injection(S, 1..n)
  <2>1. \A i \in S : rank[i] \in 1..n
    BY <1>1, <1>2
  <2>2. ASSUME NEW i \in S, NEW m \in S, rank[i] = rank[m] PROVE i = m
    <3>1. i \in Int /\ m \in Int
      OBVIOUS
    <3>2. Cardinality(Before(i)) = Cardinality(Before(m))
      BY <1>2, <2>2
    <3>3. ~(i < m) /\ ~(m < i)
      BY <1>2, <1>3, <3>2
    <3> QED BY <3>1, <3>3
  <2>3. rank \in [S -> 1..n]
    BY <2>1
  <2> HIDE DEF rank
  <2> QED BY <2>2, <2>3, InjectionFacts DEF IsInjective
<1>5. Cardinality(1..n) = n /\ IsFiniteSet(1..n)
  <2>1. Cardinality(1..n) = IF 1 > n THEN 0 ELSE n - 1 + 1
    BY <1>1, FS_Interval
  <2>2. IsFiniteSet(1..n)
    BY <1>1, FS_Interval
  <2> QED BY <1>1, <2>1, <2>2
<1>6. rank \in Surjection(S, 1..n)
  <2> HIDE DEF rank
  <2>1. Cardinality(S) = Cardinality(1..n)
    BY <1>5 DEF n
  <2> QED BY <1>4, <1>5, <2>1, FS_Injection
<1>7. ASSUME NEW k \in 1..n PROVE nth(k) \in S
  <2>1. PICK i \in S : rank[i] = k
    BY <1>6 DEF Surjection
  <2>2. Papers!Cardinality(Before(i)) = k - 1
    BY <1>2, <2>1, SameCardinality
  <2> QED BY <2>2
<1>8. ASSUME NEW i \in S PROVE \E k \in 1..n : nth(k) = i
  <2> DEFINE k == Cardinality(Before(i)) + 1
  <2>1. k \in 1..n /\ Cardinality(Before(i)) = k - 1
    BY <1>1, <1>2
  <2>2. \A m \in S : Papers!Cardinality(Before(m)) = k - 1 => m = i
    <3> SUFFICES ASSUME NEW m \in S, Cardinality(Before(m)) = Cardinality(Before(i))
                 PROVE  m = i
      BY <2>1, SameCardinality
    <3>1. i \in Int /\ m \in Int
      OBVIOUS
    <3>2. ~(i < m) /\ ~(m < i)
      BY <1>2, <1>3
    <3> QED BY <3>1, <3>2
  <2> HIDE DEF k
  <2>3. nth(k) = i
    BY <2>1, <2>2, SameCardinality
  <2> QED BY <2>1, <2>3
<1>9. ASSUME S # {} PROVE \E i \in S : \A j \in S : j <= i
  <2>1. n # 0
    BY <1>1, <1>9, FS_EmptySet DEF n
  <2>2. n \in 1..n
    BY <1>1, <2>1
  <2>3. PICK i \in S : rank[i] = n
    BY <1>6, <2>2 DEF Surjection
  <2>4. Cardinality(Before(i)) = n - 1
    BY <1>1, <1>2, <2>3
  <2>5. \A j \in S : ~(i < j)
    BY <1>1, <1>2, <1>3, <2>4
  <2> QED BY <2>5
<1> QED BY <1>1, <1>7, <1>8, <1>9 DEF n, Before

\* What EventsOf returns.
LEMMA EventsFacts ==
    ASSUME IsLog(trail), NEW kind
    PROVE  /\ IsLog(Papers!EventsOf(kind))
           /\ DOMAIN Papers!EventsOf(kind) = 1..Len(Papers!EventsOf(kind))
           /\ Len(Papers!EventsOf(kind)) \in Nat
           /\ \A k \in 1..Len(Papers!EventsOf(kind)) :
                \E i \in 1..Len(trail) : trail[i].kind = kind /\ Papers!EventsOf(kind)[k] = trail[i]
           /\ \A i \in 1..Len(trail) : trail[i].kind = kind =>
                \E k \in 1..Len(Papers!EventsOf(kind)) : Papers!EventsOf(kind)[k] = trail[i]
<1> DEFINE places == {i \in 1..Len(trail) : trail[i].kind = kind}
           nth(k) == CHOOSE i \in places : Papers!Cardinality({j \in places : j < i}) = k - 1
           n == Cardinality(places)
           f == Papers!EventsOf(kind)
<1>1. Len(trail) \in Nat /\ DOMAIN trail = 1..Len(trail) /\ places \subseteq 1..Len(trail)
  BY LogFacts
<1>2. f = [k \in 1..n |-> trail[nth(k)]]
  <2> DEFINE found == {i \in DOMAIN trail : trail[i].kind = kind}
  <2>1. f = [k \in 1..Papers!Cardinality(found) |->
               trail[CHOOSE i \in found : Papers!Cardinality({j \in found : j < i}) = k - 1]]
    BY DEF Papers!EventsOf
  <2>2. found = places
    BY <1>1
  <2>3. Papers!Cardinality(places) = n
    BY SameCardinality
  <2> HIDE DEF found, places, f, n
  <2> QED BY <2>1, <2>2, <2>3
<1>3. /\ n \in Nat
      /\ \A k \in 1..n : nth(k) \in places
      /\ \A i \in places : \E k \in 1..n : nth(k) = i
  <2> HIDE DEF places
  <2> QED BY <1>1, PlaceFacts
<1> HIDE DEF nth, n, f
<1>4. f \in [1..n -> {f[k] : k \in 1..n}]
  BY <1>2
<1>5. IsLog(f) /\ Len(f) = n
  BY <1>3, <1>4, FunctionLog
<1>6. DOMAIN f = 1..Len(f)
  BY <1>5, LogFacts
<1>7. \A k \in 1..n : \E i \in 1..Len(trail) : trail[i].kind = kind /\ f[k] = trail[i]
  BY <1>2, <1>3
<1>8. \A i \in 1..Len(trail) : trail[i].kind = kind => \E k \in 1..n : f[k] = trail[i]
  BY <1>2, <1>3
<1> QED BY <1>3, <1>5, <1>6, <1>7, <1>8 DEF f

-----------------------------------------------------------------------------
(* What a log says                                                         *)

\* An answer of that role with that source.
Reply(s, role, text) ==
    \E a \in 1..Len(s) :
        s[a].kind = "reasoner_response" /\ s[a].role = role /\ s[a].source = text

\* The same, and it is the answer the origin names.
Answered(s, role, text, origin) ==
    \E a \in 1..Len(s) :
        /\ s[a].kind = "reasoner_response" /\ s[a].role = role /\ s[a].source = text
        /\ s[a].request = origin.request /\ s[a].request = origin.response

Promoted(s, m) ==
    \E p, a \in 1..Len(s) :
        /\ a < p
        /\ s[p].kind = "model_revision" /\ s[p].source = m /\ s[p].promoted
        /\ s[a].kind = "reasoner_response" /\ s[a].source = m

Executed(s, m) ==
    \E e, p, a \in 1..Len(s) :
        /\ a < p /\ p < e
        /\ s[e].kind = "model_executed" /\ s[e].source = m
        /\ s[p].kind = "model_revision" /\ s[p].source = m /\ s[p].promoted
        /\ s[a].kind = "reasoner_response" /\ s[a].source = m

Generated(s, t) ==
    \E g, a \in 1..Len(s) :
        /\ a < g
        /\ s[g].kind = "plan_generated" /\ s[g].source = t
        /\ s[a].kind = "reasoner_response" /\ s[a].source = t
        /\ s[a].request = s[g].origin.request

Simulated(s, t, m) ==
    \E e, g, a \in 1..Len(s) :
        /\ a < g /\ g < e
        /\ s[e].kind = "plan_simulated" /\ s[e].source = t /\ s[e].model = m
        /\ s[g].kind = "plan_generated" /\ s[g].source = t
        /\ s[a].kind = "reasoner_response" /\ s[a].source = t
        /\ s[a].request = s[g].origin.request

Ran(s, m)   == \E e \in 1..Len(s) : s[e].kind = "model_executed" /\ s[e].source = m
Tried(s, t) == \E e \in 1..Len(s) : s[e].kind = "plan_simulated" /\ s[e].source = t
Acted(s, t) == \E e \in 1..Len(s) : s[e].kind = "action_intent" /\ s[e].plan = t

\* What the action at place i of a log has before it.
LedModel(s, i) ==
    \E e, p, a \in 1..i-1 :
        /\ a < p /\ p < e
        /\ s[e].kind = "model_executed" /\ s[e].source = s[i].model
        /\ s[p].kind = "model_revision" /\ s[p].source = s[i].model /\ s[p].promoted
        /\ s[a].kind = "reasoner_response" /\ s[a].source = s[i].model

LedPlan(s, i) ==
    \E e, g, a \in 1..i-1 :
        /\ a < g /\ g < e
        /\ s[e].kind = "plan_simulated" /\ s[e].source = s[i].plan
        /\ s[e].model = s[i].model
        /\ s[g].kind = "plan_generated" /\ s[g].source = s[i].plan
        /\ s[a].kind = "reasoner_response" /\ s[a].source = s[i].plan
        /\ s[a].request = s[g].origin.request

Led(s, i) == LedModel(s, i) /\ (s[i].plan # Improvised => LedPlan(s, i))

-----------------------------------------------------------------------------
(* The invariant                                                           *)

TrailTypes ==
    /\ IsLog(trail) /\ IsLog(candidates) /\ IsLog(reports)
    /\ IsFiniteSet(ledger)
    /\ last \in [Papers!Role -> [request : Nat, response : Nat]]

\* A candidate knows the answer it came with.
CandidatesInv ==
    \A i \in 1..Len(candidates) :
        Answered(trail, "revision", candidates[i].source, candidates[i].origin)

\* A hypothesis was once an answer.
LedgerInv == \A h \in ledger : Reply(trail, "revision", h[1])

\* So was every one about to be reported, and the one promoted is the model.
ReportsInv ==
    \A i \in 1..Len(reports) :
        /\ reports[i].kind = "model_revision"
        /\ Reply(trail, "revision", reports[i].source)
        /\ reports[i].origin # Papers!Nowhere =>
             Answered(trail, "revision", reports[i].source, reports[i].origin)
        /\ reports[i].promoted => reports[i].source = model

\* A promoted program is run, unless the run failed first.
RevisionsInv ==
    \A i \in 1..Len(trail) : trail[i].kind = "model_revision" /\ trail[i].promoted =>
        /\ trail[i].origin # Papers!Nowhere =>
             Answered(trail, "revision", trail[i].source, trail[i].origin)
        /\ \/ Ran(trail, trail[i].source)
           \/ at \in {"report", "initialize"} /\ trail[i].source = model
           \/ at = "failed"

\* A generated plan is simulated and acted on, unless the run failed first.
PlansInv ==
    \A i \in 1..Len(trail) : trail[i].kind = "plan_generated" =>
        /\ Answered(trail, "planning", trail[i].source, trail[i].origin)
        /\ \/ Tried(trail, trail[i].source)
           \/ at = "simulate" /\ trail[i].source = plan.source
           \/ at = "failed"
        /\ \/ Acted(trail, trail[i].source)
           \/ at \in {"simulate", "execute"} /\ trail[i].source = plan.source
           \/ at = "failed"

\* What is in hand has its evidence.
HandInv ==
    /\ at = "report" =>
         /\ reports # <<>>
         /\ \/ \E i \in 1..Len(reports) : reports[i].promoted /\ reports[i].source = model
            \/ Promoted(trail, model)
    /\ at = "initialize" => Promoted(trail, model)
    /\ at \in {"planning", "generated", "simulate", "execute", "finished"} => Executed(trail, model)
    /\ at = "generated" => Answered(trail, "planning", plan.source, plan.origin)
    /\ at = "simulate" => Generated(trail, plan.source)
    /\ at = "execute" /\ plan.source # Improvised => Simulated(trail, plan.source, model)

ActionsInv == \A i \in 1..Len(trail) : trail[i].kind = "action_intent" => Led(trail, i)

TrailInv ==
    TrailTypes /\ CandidatesInv /\ LedgerInv /\ ReportsInv /\ RevisionsInv /\ PlansInv
    /\ HandInv /\ ActionsInv

-----------------------------------------------------------------------------
(* A log that grows                                                        *)

\* What a log says it still says after another event.
LEMMA GrownLog ==
    ASSUME NEW s, NEW e, IsLog(s)
    PROVE  /\ \A r, x : Reply(s, r, x) => Reply(Append(s, e), r, x)
           /\ \A r, x, o : Answered(s, r, x, o) => Answered(Append(s, e), r, x, o)
           /\ \A m : Promoted(s, m) => Promoted(Append(s, e), m)
           /\ \A m : Executed(s, m) => Executed(Append(s, e), m)
           /\ \A t : Generated(s, t) => Generated(Append(s, e), t)
           /\ \A t, m : Simulated(s, t, m) => Simulated(Append(s, e), t, m)
           /\ \A m : Ran(s, m) => Ran(Append(s, e), m)
           /\ \A t : Tried(s, t) => Tried(Append(s, e), t)
           /\ \A t : Acted(s, t) => Acted(Append(s, e), t)
           /\ \A i \in 1..Len(s) : Led(s, i) => Led(Append(s, e), i)
<1> DEFINE t == Append(s, e)
<1>1. /\ Len(s) \in Nat /\ Len(t) = Len(s) + 1
      /\ \A i \in 1..Len(s) : t[i] = s[i] /\ i \in 1..Len(t)
  BY LogFacts, AppendLog
<1> HIDE DEF t
<1>2. \A r, x : Reply(s, r, x) => Reply(t, r, x)
  BY <1>1, Zenon DEF Reply
<1>3. \A r, x, o : Answered(s, r, x, o) => Answered(t, r, x, o)
  BY <1>1, Zenon DEF Answered
<1>4. \A m : Promoted(s, m) => Promoted(t, m)
  BY <1>1, Zenon DEF Promoted
<1>5. ASSUME NEW m, Executed(s, m) PROVE Executed(t, m)
  <2>1. PICK e1, p, a \in 1..Len(s) :
          /\ a < p /\ p < e1
          /\ s[e1].kind = "model_executed" /\ s[e1].source = m
          /\ s[p].kind = "model_revision" /\ s[p].source = m /\ s[p].promoted
          /\ s[a].kind = "reasoner_response" /\ s[a].source = m
    BY <1>5, Zenon DEF Executed
  <2>2. t[e1] = s[e1] /\ t[p] = s[p] /\ t[a] = s[a]
    BY <1>1
  <2>3. e1 \in 1..Len(t) /\ p \in 1..Len(t) /\ a \in 1..Len(t)
    BY <1>1
  <2> QED BY <2>1, <2>2, <2>3 DEF Executed
<1>6. \A x : Generated(s, x) => Generated(t, x)
  BY <1>1, Zenon DEF Generated
<1>7. ASSUME NEW x, NEW m, Simulated(s, x, m) PROVE Simulated(t, x, m)
  <2>1. PICK e1, g, a \in 1..Len(s) :
          /\ a < g /\ g < e1
          /\ s[e1].kind = "plan_simulated" /\ s[e1].source = x /\ s[e1].model = m
          /\ s[g].kind = "plan_generated" /\ s[g].source = x
          /\ s[a].kind = "reasoner_response" /\ s[a].source = x
          /\ s[a].request = s[g].origin.request
    BY <1>7, Zenon DEF Simulated
  <2>2. t[e1] = s[e1] /\ t[g] = s[g] /\ t[a] = s[a]
    BY <1>1
  <2>3. e1 \in 1..Len(t) /\ g \in 1..Len(t) /\ a \in 1..Len(t)
    BY <1>1
  <2> QED BY <2>1, <2>2, <2>3 DEF Simulated
<1>8. /\ \A m : Ran(s, m) => Ran(t, m)
      /\ \A x : Tried(s, x) => Tried(t, x)
      /\ \A x : Acted(s, x) => Acted(t, x)
  BY <1>1, Zenon DEF Ran, Tried, Acted
<1>9. ASSUME NEW i \in 1..Len(s), Led(s, i) PROVE Led(t, i)
  <2>1. \A j \in 1..i-1 : t[j] = s[j]
    BY <1>1
  <2>2. t[i] = s[i]
    BY <1>1
  <2>3. LedModel(t, i)
    <3>1. PICK e1, p, a \in 1..i-1 :
            /\ a < p /\ p < e1
            /\ s[e1].kind = "model_executed" /\ s[e1].source = s[i].model
            /\ s[p].kind = "model_revision" /\ s[p].source = s[i].model /\ s[p].promoted
            /\ s[a].kind = "reasoner_response" /\ s[a].source = s[i].model
      BY <1>9, Zenon DEF Led, LedModel
    <3>2. t[e1] = s[e1] /\ t[p] = s[p] /\ t[a] = s[a]
      BY <2>1
    <3> QED BY <2>2, <3>1, <3>2 DEF LedModel
  <2>4. ASSUME t[i].plan # Improvised PROVE LedPlan(t, i)
    <3>1. s[i].plan # Improvised
      BY <2>2, <2>4
    <3>2. PICK e1, g, a \in 1..i-1 :
            /\ a < g /\ g < e1
            /\ s[e1].kind = "plan_simulated" /\ s[e1].source = s[i].plan
            /\ s[e1].model = s[i].model
            /\ s[g].kind = "plan_generated" /\ s[g].source = s[i].plan
            /\ s[a].kind = "reasoner_response" /\ s[a].source = s[i].plan
            /\ s[a].request = s[g].origin.request
      BY <1>9, <3>1, Zenon DEF Led, LedPlan
    <3>3. t[e1] = s[e1] /\ t[g] = s[g] /\ t[a] = s[a]
      BY <2>1
    <3> QED BY <2>2, <3>2, <3>3 DEF LedPlan
  <2> QED BY <2>3, <2>4 DEF Led
<1> QED BY <1>2, <1>3, <1>4, <1>5, <1>6, <1>7, <1>8, <1>9 DEF t

\* What of the invariant an event of any kind keeps.
LEMMA GrownTrail ==
    ASSUME TrailInv, NEW e, trail' = Append(trail, e)
    PROVE  /\ IsLog(trail') /\ Len(trail) \in Nat /\ Len(trail') = Len(trail) + 1
           /\ \A i \in 1..Len(trail) : trail'[i] = trail[i]
           /\ trail'[Len(trail) + 1] = e
           /\ \A r, x : Reply(trail, r, x) => Reply(trail', r, x)
           /\ \A r, x, o : Answered(trail, r, x, o) => Answered(trail', r, x, o)
           /\ \A m : Promoted(trail, m) => Promoted(trail', m)
           /\ \A m : Executed(trail, m) => Executed(trail', m)
           /\ \A t : Generated(trail, t) => Generated(trail', t)
           /\ \A t, m : Simulated(trail, t, m) => Simulated(trail', t, m)
           /\ \A m : Ran(trail, m) => Ran(trail', m)
           /\ \A t : Tried(trail, t) => Tried(trail', t)
           /\ \A t : Acted(trail, t) => Acted(trail', t)
           /\ \A i \in 1..Len(trail) : Led(trail, i) => Led(trail', i)
BY GrownLog, AppendLog, LogFacts DEF TrailInv, TrailTypes

\* An event that carries no action, and leaves what is in hand alone.
LEMMA GrownActions ==
    ASSUME TrailInv, NEW e, trail' = Append(trail, e),
           e.kind = "action_intent" => Led(trail', Len(trail) + 1)
    PROVE  ActionsInv'
<1> SUFFICES ASSUME NEW i \in 1..Len(trail'), trail'[i].kind = "action_intent"
             PROVE  Led(trail', i)
  BY DEF ActionsInv
<1>1. CASE i \in 1..Len(trail)
  BY <1>1, GrownTrail DEF TrailInv, ActionsInv
<1>2. CASE i = Len(trail) + 1
  BY <1>2, GrownTrail
<1> QED BY <1>1, <1>2, GrownTrail

LEMMA GrownCandidates ==
    ASSUME TrailInv, NEW e, trail' = Append(trail, e), candidates' = candidates
    PROVE  CandidatesInv'
BY GrownTrail DEF TrailInv, CandidatesInv

LEMMA GrownLedger ==
    ASSUME TrailInv, NEW e, trail' = Append(trail, e), ledger' = ledger
    PROVE  LedgerInv'
BY GrownTrail DEF TrailInv, LedgerInv

LEMMA GrownReports ==
    ASSUME TrailInv, NEW e, trail' = Append(trail, e), reports' = reports, model' = model
    PROVE  ReportsInv'
BY GrownTrail DEF TrailInv, ReportsInv

\* A promotion still to be run stays so, or its program runs now.
LEMMA GrownRevisions ==
    ASSUME TrailInv, NEW e, trail' = Append(trail, e), model' = model,
           e.kind # "model_revision" \/ ~e.promoted,
           \/ at' = "failed"
           \/ at # "failed" /\ (at \in {"report", "initialize"} =>
                                  at' \in {"report", "initialize"} \/ Ran(trail', model))
    PROVE  RevisionsInv'
<1> SUFFICES ASSUME NEW i \in 1..Len(trail'), trail'[i].kind = "model_revision", trail'[i].promoted
             PROVE  /\ trail'[i].origin # Papers!Nowhere =>
                         Answered(trail', "revision", trail'[i].source, trail'[i].origin)
                    /\ \/ Ran(trail', trail'[i].source)
                       \/ at' \in {"report", "initialize"} /\ trail'[i].source = model'
                       \/ at' = "failed"
  BY DEF RevisionsInv
<1>1. i \in 1..Len(trail) /\ trail'[i] = trail[i]
  BY GrownTrail
<1>2. /\ trail[i].origin # Papers!Nowhere =>
           Answered(trail, "revision", trail[i].source, trail[i].origin)
      /\ \/ Ran(trail, trail[i].source)
         \/ at \in {"report", "initialize"} /\ trail[i].source = model
         \/ at = "failed"
  BY <1>1 DEF TrailInv, RevisionsInv
<1> QED BY <1>1, <1>2, GrownTrail

\* A generated plan still to be simulated or acted on, likewise.
LEMMA GrownPlans ==
    ASSUME TrailInv, NEW e, trail' = Append(trail, e), e.kind # "plan_generated",
           \/ at' = "failed"
           \/ /\ at # "failed"
              /\ at = "simulate" => /\ plan' = plan
                                    /\ at' = "execute" /\ Tried(trail', plan.source)
              /\ at = "execute"  => Acted(trail', plan.source)
    PROVE  PlansInv'
<1> SUFFICES ASSUME NEW i \in 1..Len(trail'), trail'[i].kind = "plan_generated"
             PROVE  /\ Answered(trail', "planning", trail'[i].source, trail'[i].origin)
                    /\ \/ Tried(trail', trail'[i].source)
                       \/ at' = "simulate" /\ trail'[i].source = plan'.source
                       \/ at' = "failed"
                    /\ \/ Acted(trail', trail'[i].source)
                       \/ at' \in {"simulate", "execute"} /\ trail'[i].source = plan'.source
                       \/ at' = "failed"
  BY DEF PlansInv
<1>1. i \in 1..Len(trail) /\ trail'[i] = trail[i]
  BY GrownTrail
<1>2. /\ Answered(trail, "planning", trail[i].source, trail[i].origin)
      /\ \/ Tried(trail, trail[i].source)
         \/ at = "simulate" /\ trail[i].source = plan.source
         \/ at = "failed"
      /\ \/ Acted(trail, trail[i].source)
         \/ at \in {"simulate", "execute"} /\ trail[i].source = plan.source
         \/ at = "failed"
  BY <1>1 DEF TrailInv, PlansInv
<1> QED BY <1>1, <1>2, GrownTrail

-----------------------------------------------------------------------------
(* Every action keeps it                                                   *)

LEMMA RequestsType == TrailTypes => Papers!Requests \in Nat
BY EventsFacts DEF TrailTypes, Papers!Requests

LEMMA AskKeeps ==
    ASSUME TrailInv, NEW role \in Papers!Role, Papers!Ask(role)
    PROVE  TrailInv'
<1> DEFINE e == [kind |-> "reasoner_request", request |-> Papers!Requests + 1, role |-> role]
<1>1. /\ trail' = Append(trail, e) /\ at = role /\ at' = at
      /\ last' = [last EXCEPT ![role] = [request |-> Papers!Requests + 1, response |-> 0]]
      /\ UNCHANGED <<candidates, ledger, reports, model, plan>>
  BY DEF Papers!Ask, Papers!Record
<1>2. role = "revision" \/ role = "planning"
  BY DEF Papers!Role
<1>3. e.kind = "reasoner_request"
  OBVIOUS
<1> HIDE DEF e
<1>4. TrailTypes'
  <2>1. Papers!Requests + 1 \in Nat
    BY RequestsType DEF TrailInv
  <2>2. last' \in [Papers!Role -> [request : Nat, response : Nat]]
    BY <1>1, <2>1 DEF TrailInv, TrailTypes
  <2> QED BY <1>1, <2>2, GrownTrail DEF TrailInv, TrailTypes
<1>5. CandidatesInv' /\ LedgerInv' /\ ReportsInv'
  BY <1>1, GrownCandidates, GrownLedger, GrownReports
<1>6. RevisionsInv' /\ PlansInv'
  BY <1>1, <1>2, <1>3, GrownRevisions, GrownPlans
<1>7. HandInv'
  BY <1>1, <1>2, GrownTrail DEF TrailInv, HandInv
<1>8. ActionsInv'
  BY <1>1, <1>3, GrownActions
<1> QED BY <1>4, <1>5, <1>6, <1>7, <1>8 DEF TrailInv

LEMMA RefuseKeeps ==
    ASSUME TrailInv, NEW role \in Papers!Role, Papers!Refuse(role)
    PROVE  TrailInv'
<1> DEFINE e == [kind |-> "reasoner_error", request |-> last[role].request, role |-> role]
<1>1. /\ trail' = Append(trail, e) /\ at' = "failed"
      /\ UNCHANGED <<last, candidates, ledger, reports, model, plan>>
  BY DEF Papers!Refuse, Papers!Record
<1>2. e.kind = "reasoner_error"
  OBVIOUS
<1> HIDE DEF e
<1>3. TrailTypes'
  BY <1>1, GrownTrail DEF TrailInv, TrailTypes
<1>4. CandidatesInv' /\ LedgerInv' /\ ReportsInv'
  BY <1>1, GrownCandidates, GrownLedger, GrownReports
<1>5. RevisionsInv' /\ PlansInv'
  BY <1>1, <1>2, GrownRevisions, GrownPlans
<1>6. HandInv'
  BY <1>1 DEF HandInv
<1>7. ActionsInv'
  BY <1>1, <1>2, GrownActions
<1> QED BY <1>3, <1>4, <1>5, <1>6, <1>7 DEF TrailInv

\* The answer is in the log before it is a candidate or the plan.
LEMMA RespondKeeps ==
    ASSUME TrailInv, NEW role \in Papers!Role, NEW text, Papers!Respond(role, text)
    PROVE  TrailInv'
<1> DEFINE e == [kind |-> "reasoner_response", request |-> last[role].request, role |-> role,
                 source |-> text]
           linked == [source |-> text, origin |-> last'[role]]
<1>1. /\ trail' = Append(trail, e) /\ at = role
      /\ last' = [last EXCEPT ![role].response = last[role].request]
      /\ UNCHANGED <<ledger, reports, model>>
      /\ \/ at' = "failed" /\ UNCHANGED <<candidates, plan>>
         \/ /\ role = "revision" /\ candidates' = Append(candidates, linked)
            /\ at' \in {"revision", "reconcile"} /\ UNCHANGED plan
         \/ /\ role = "planning" /\ plan' = linked
            /\ at' = "generated" /\ UNCHANGED candidates
  BY DEF Papers!Respond, Papers!Record, Papers!Linked
<1>2. role = "revision" \/ role = "planning"
  BY DEF Papers!Role
<1>3. /\ last[role] \in [request : Nat, response : Nat]
      /\ last' \in [Papers!Role -> [request : Nat, response : Nat]]
      /\ last'[role].request = last[role].request
      /\ last'[role].response = last[role].request
  BY <1>1 DEF TrailInv, TrailTypes
<1>4. /\ e.kind = "reasoner_response" /\ e.role = role /\ e.source = text
      /\ e.request = last'[role].request /\ e.request = last'[role].response
      /\ linked.source = text /\ linked.origin = last'[role]
  BY <1>3
<1> HIDE DEF e, linked
<1>5. Answered(trail', role, linked.source, linked.origin)
  <2>1. Len(trail) + 1 \in 1..Len(trail')
    BY <1>1, GrownTrail
  <2> QED BY <1>1, <1>4, <2>1, GrownTrail DEF Answered
<1>6. TrailTypes'
  <2>1. IsLog(candidates) /\ IsLog(Append(candidates, linked))
    BY AppendLog DEF TrailInv, TrailTypes
  <2>2. IsLog(candidates')
    <3>1. candidates' = candidates \/ candidates' = Append(candidates, linked)
      BY <1>1
    <3> QED BY <2>1, <3>1 DEF IsLog
  <2> QED BY <1>1, <1>3, <2>2, GrownTrail DEF TrailInv, TrailTypes
<1>7. CandidatesInv'
  <2>1. CASE candidates' = candidates
    BY <1>1, <2>1, GrownCandidates
  <2>2. CASE role = "revision" /\ candidates' = Append(candidates, linked)
    <3>1. /\ Len(candidates) \in Nat /\ Len(candidates') = Len(candidates) + 1
          /\ \A i \in 1..Len(candidates) : candidates'[i] = candidates[i]
          /\ candidates'[Len(candidates) + 1] = linked
      BY <2>2, AppendLog, LogFacts DEF TrailInv, TrailTypes
    <3>2. \A i \in 1..Len(candidates) :
            Answered(trail', "revision", candidates[i].source, candidates[i].origin)
      BY <1>1, GrownTrail DEF TrailInv, CandidatesInv
    <3>3. \A i \in 1..Len(candidates') : i \in 1..Len(candidates) \/ i = Len(candidates) + 1
      BY <3>1
    <3> QED BY <1>5, <2>2, <3>1, <3>2, <3>3 DEF CandidatesInv
  <2> QED BY <1>1, <2>1, <2>2
<1>8. LedgerInv' /\ ReportsInv'
  BY <1>1, GrownLedger, GrownReports
<1>9. RevisionsInv' /\ PlansInv'
  BY <1>1, <1>2, <1>4, GrownRevisions, GrownPlans
<1>10. HandInv'
  BY <1>1, <1>2, <1>5, GrownTrail DEF TrailInv, HandInv
<1>11. ActionsInv'
  BY <1>1, <1>4, GrownActions
<1> QED BY <1>6, <1>7, <1>8, <1>9, <1>10, <1>11 DEF TrailInv

\* The image of a finite set is finite.
LEMMA ImageFinite ==
    ASSUME NEW S, NEW f, IsFiniteSet(S)
    PROVE  IsFiniteSet({f[x] : x \in S})
<1> DEFINE T == {f[x] : x \in S}
           g == [x \in S |-> f[x]]
<1>1. g \in Surjection(S, T)
  BY DEF Surjection
<1> HIDE DEF T, g
<1> QED BY <1>1, FS_Surjection DEF T

\* The origin of a hypothesis is an answer with its source, unless this call has none.
LEMMA OriginFacts ==
    ASSUME TrailInv, NEW h
    PROVE  /\ Papers!Origin(h) # Papers!Nowhere =>
                Answered(trail, "revision", h[1], Papers!Origin(h))
           /\ h \in Papers!Proposed => Reply(trail, "revision", h[1])
<1>1. Len(candidates) \in Nat /\ DOMAIN candidates = 1..Len(candidates)
  BY LogFacts DEF TrailInv, TrailTypes
<1>2. \A i \in DOMAIN candidates : Papers!Hypothesis(i)[1] = candidates[i].source
  BY DEF Papers!Hypothesis
<1>3. \A i \in DOMAIN candidates :
        Answered(trail, "revision", candidates[i].source, candidates[i].origin)
  BY <1>1 DEF TrailInv, CandidatesInv
<1>4. ASSUME h \in Papers!Proposed PROVE Reply(trail, "revision", h[1])
  <2>1. PICK i \in DOMAIN candidates : h = Papers!Hypothesis(i)
    BY <1>4 DEF Papers!Proposed
  <2>2. Answered(trail, "revision", h[1], candidates[i].origin)
    BY <1>2, <1>3, <2>1
  <2> QED BY <2>2, Zenon DEF Answered, Reply
<1>5. ASSUME h \in Papers!Proposed PROVE Answered(trail, "revision", h[1], Papers!Origin(h))
  <2> DEFINE S == {i \in DOMAIN candidates : Papers!Hypothesis(i) = h}
             Last(i) == /\ Papers!Hypothesis(i) = h
                        /\ \A j \in DOMAIN candidates : Papers!Hypothesis(j) = h => j <= i
             k == CHOOSE i \in DOMAIN candidates : Last(i)
  <2>1. S \subseteq 1..Len(candidates) /\ S # {}
    BY <1>1, <1>5 DEF Papers!Proposed
  <2>2. \E i \in S : \A j \in S : j <= i
    <3> HIDE DEF S
    <3> QED BY <1>1, <2>1, PlaceFacts
  <2>3. \E i \in DOMAIN candidates : Last(i)
    BY <2>2
  <2>4. Papers!Origin(h) = candidates[k].origin
    BY <1>5 DEF Papers!Origin
  <2> HIDE DEF Last
  <2>5. k \in DOMAIN candidates /\ Last(k)
    BY <2>3
  <2>6. Papers!Hypothesis(k) = h
    BY <2>5 DEF Last
  <2> HIDE DEF k
  <2> QED BY <1>2, <1>3, <2>4, <2>5, <2>6
<1>6. h \notin Papers!Proposed => Papers!Origin(h) = Papers!Nowhere
  BY DEF Papers!Origin
<1> QED BY <1>4, <1>5, <1>6

LEMMA ReconcileKeeps ==
    ASSUME TrailInv, Papers!Reconcile
    PROVE  TrailInv'
<1>1. PICK winner \in ledger' :
        /\ at = "reconcile" /\ at' = "report" /\ ledger' = ledger \cup Papers!Proposed
        /\ model' = winner[1]
        /\ reports' = Papers!SetToSeq({[kind |-> "model_revision", source |-> h[1],
                                        reading |-> h[2], origin |-> Papers!Origin(h),
                                        promoted |-> h = winner] : h \in ledger'})
        /\ UNCHANGED <<trail, last, candidates, plan>>
  BY DEF Papers!Reconcile
<1> DEFINE Of(h) == [kind |-> "model_revision", source |-> h[1], reading |-> h[2],
                     origin |-> Papers!Origin(h), promoted |-> h = winner]
           All == {Of(h) : h \in ledger'}
<1>2. IsFiniteSet(Papers!Proposed)
  <2> DEFINE f == [i \in DOMAIN candidates |-> Papers!Hypothesis(i)]
  <2>1. Len(candidates) \in Nat /\ DOMAIN candidates = 1..Len(candidates)
    BY LogFacts DEF TrailInv, TrailTypes
  <2>2. IsFiniteSet(DOMAIN candidates)
    BY <2>1, FS_Interval
  <2>3. Papers!Proposed = {f[i] : i \in DOMAIN candidates}
    BY DEF Papers!Proposed
  <2> HIDE DEF f
  <2> QED BY <2>2, <2>3, ImageFinite
<1>3. IsFiniteSet(ledger')
  BY <1>1, <1>2, FS_Union DEF TrailInv, TrailTypes
<1>4. IsFiniteSet(All)
  <2> DEFINE f == [h \in ledger' |-> Of(h)]
  <2> HIDE DEF Of
  <2>1. All = {f[h] : h \in ledger'}
    OBVIOUS
  <2> HIDE DEF All, f
  <2> QED BY <1>3, <2>1, ImageFinite
<1>5. reports' = Papers!SetToSeq(All)
  BY <1>1
<1>6. /\ IsLog(reports') /\ Len(reports') \in Nat
      /\ \A i \in 1..Len(reports') : reports'[i] \in All
      /\ \A x \in All : \E i \in 1..Len(reports') : reports'[i] = x
  <2> HIDE DEF All
  <2>1. /\ IsLog(reports')
        /\ \A i \in 1..Len(reports') : reports'[i] \in All
        /\ \A x \in All : \E i \in 1..Len(reports') : reports'[i] = x
    BY <1>4, <1>5, SetToSeqFacts
  <2> QED BY <2>1, LogFacts
<1>7. TrailTypes'
  BY <1>1, <1>3, <1>6 DEF TrailInv, TrailTypes
<1>8. CandidatesInv'
  BY <1>1 DEF TrailInv, CandidatesInv
<1>9. \A h \in ledger' : Reply(trail, "revision", h[1])
  BY <1>1, OriginFacts DEF TrailInv, LedgerInv
<1>10. LedgerInv'
  BY <1>1, <1>9 DEF LedgerInv
<1>11. ReportsInv'
  <2> SUFFICES ASSUME NEW i \in 1..Len(reports')
               PROVE  /\ reports'[i].kind = "model_revision"
                      /\ Reply(trail, "revision", reports'[i].source)
                      /\ reports'[i].origin # Papers!Nowhere =>
                           Answered(trail, "revision", reports'[i].source, reports'[i].origin)
                      /\ reports'[i].promoted => reports'[i].source = model'
    BY <1>1, Papers!Nowhere' = Papers!Nowhere DEF ReportsInv
  <2>1. PICK h \in ledger' : reports'[i] = Of(h)
    BY <1>6
  <2>2. /\ reports'[i].kind = "model_revision" /\ reports'[i].source = h[1]
        /\ reports'[i].origin = Papers!Origin(h)
    BY <2>1
  <2>3. reports'[i].promoted <=> h = winner
    <3> DEFINE x == reports'[i]
               o == Papers!Origin(h)
    <3>1. x = [kind |-> "model_revision", source |-> h[1], reading |-> h[2], origin |-> o,
               promoted |-> h = winner]
      BY <2>1
    <3> HIDE DEF x, o
    <3>2. x.promoted <=> h = winner
      BY <3>1
    <3> QED BY <3>2 DEF x
  <2> QED BY <1>1, <1>9, <2>2, <2>3, OriginFacts
<1>12. RevisionsInv'
  BY <1>1 DEF TrailInv, RevisionsInv
<1>13. PlansInv'
  BY <1>1 DEF TrailInv, PlansInv
<1>14. HandInv'
  <2>1. PICK i \in 1..Len(reports') : reports'[i] = Of(winner)
    BY <1>6
  <2>2. reports'[i].source = model'
    BY <1>1, <2>1
  <2>2a. reports'[i].promoted
    <3> DEFINE x == reports'[i]
               o == Papers!Origin(winner)
    <3>1. x = [kind |-> "model_revision", source |-> winner[1], reading |-> winner[2],
               origin |-> o, promoted |-> winner = winner]
      BY <2>1
    <3> HIDE DEF x, o
    <3>2. x.promoted
      BY <3>1
    <3> QED BY <3>2 DEF x
  <2>3. reports' # <<>>
    BY <1>6, <2>1, EmptyLog
  <2> QED BY <1>1, <2>2, <2>2a, <2>3 DEF HandInv
<1>15. ActionsInv'
  BY <1>1 DEF TrailInv, ActionsInv
<1> QED BY <1>7, <1>8, <1>10, <1>11, <1>12, <1>13, <1>14, <1>15 DEF TrailInv

\* A promotion comes after the answer with its program, which the report still has to show.
LEMMA ReportKeeps ==
    ASSUME TrailInv, Papers!Report
    PROVE  TrailInv'
<1> DEFINE e == Head(reports)
<1>1. /\ at = "report" /\ trail' = Append(trail, e) /\ reports' = Tail(reports)
      /\ at' = IF reports' = <<>> THEN "initialize" ELSE at
      /\ UNCHANGED <<last, candidates, ledger, model, plan>>
  BY DEF Papers!Report, Papers!Record
<1>2. /\ Len(reports) \in Nat /\ Len(reports) # 0 /\ e = reports[1]
      /\ IsLog(reports') /\ Len(reports') = Len(reports) - 1
      /\ \A i \in 1..Len(reports) - 1 : reports'[i] = reports[i + 1]
  <2>1. IsLog(reports) /\ reports # <<>>
    BY <1>1 DEF TrailInv, TrailTypes, HandInv
  <2> QED BY <1>1, <2>1, TailLog, LogFacts
<1> HIDE DEF e
<1>3. /\ e.kind = "model_revision" /\ Reply(trail, "revision", e.source)
      /\ e.origin # Papers!Nowhere => Answered(trail, "revision", e.source, e.origin)
      /\ e.promoted => e.source = model
  BY <1>2 DEF TrailInv, ReportsInv
<1>4. e.promoted => Promoted(trail', model)
  <2> SUFFICES ASSUME e.promoted PROVE Promoted(trail', model)
    OBVIOUS
  <2>1. PICK a \in 1..Len(trail) :
          trail[a].kind = "reasoner_response" /\ trail[a].source = e.source
    BY <1>3, Zenon DEF Reply
  <2>2. /\ a \in 1..Len(trail') /\ Len(trail) + 1 \in 1..Len(trail') /\ a < Len(trail) + 1
        /\ trail'[a] = trail[a] /\ trail'[Len(trail) + 1] = e
    BY <1>1, GrownTrail
  <2> QED BY <1>3, <2>1, <2>2 DEF Promoted
<1>5. TrailTypes'
  BY <1>1, <1>2, GrownTrail DEF TrailInv, TrailTypes
<1>6. CandidatesInv' /\ LedgerInv'
  BY <1>1, GrownCandidates, GrownLedger
<1>7. ReportsInv'
  <2>1. ASSUME NEW i \in 1..Len(reports')
        PROVE  i + 1 \in 1..Len(reports) /\ reports'[i] = reports[i + 1]
    BY <1>2
  <2> QED BY <1>1, <2>1, GrownTrail, Papers!Nowhere' = Papers!Nowhere DEF TrailInv, ReportsInv
<1>8. RevisionsInv'
  <2> SUFFICES ASSUME NEW i \in 1..Len(trail'), trail'[i].kind = "model_revision",
                      trail'[i].promoted
               PROVE  /\ trail'[i].origin # Papers!Nowhere =>
                           Answered(trail', "revision", trail'[i].source, trail'[i].origin)
                      /\ \/ Ran(trail', trail'[i].source)
                         \/ at' \in {"report", "initialize"} /\ trail'[i].source = model'
                         \/ at' = "failed"
    BY Papers!Nowhere' = Papers!Nowhere DEF RevisionsInv
  <2>1. CASE i \in 1..Len(trail)
    <3>1. trail'[i] = trail[i]
      BY <1>1, <2>1, GrownTrail
    <3>2. /\ trail[i].origin # Papers!Nowhere =>
               Answered(trail, "revision", trail[i].source, trail[i].origin)
          /\ \/ Ran(trail, trail[i].source)
             \/ trail[i].source = model
      BY <1>1, <2>1, <3>1 DEF TrailInv, RevisionsInv
    <3> QED BY <1>1, <3>1, <3>2, GrownTrail
  <2>2. CASE i = Len(trail) + 1
    <3>1. trail'[i] = e
      BY <1>1, <2>2, GrownTrail
    <3> QED BY <1>1, <1>3, <3>1, GrownTrail
  <2> QED BY <1>1, <2>1, <2>2, GrownTrail
<1>9. PlansInv'
  BY <1>1, <1>3, GrownPlans
<1>10. HandInv'
  <2>1. Promoted(trail', model) \/ \E i \in 1..Len(reports') :
                                     reports'[i].promoted /\ reports'[i].source = model
    <3>1. CASE Promoted(trail, model)
      BY <1>1, <3>1, GrownTrail
    <3>2. ASSUME NEW i \in 1..Len(reports), reports[i].promoted, reports[i].source = model
          PROVE  Promoted(trail', model) \/ \E j \in 1..Len(reports') :
                                     reports'[j].promoted /\ reports'[j].source = model
      <4>1. CASE i = 1
        BY <1>2, <1>4, <3>2, <4>1
      <4>2. CASE i # 1
        <5>1. i - 1 \in 1..Len(reports') /\ reports'[i - 1] = reports[i]
          BY <1>2, <4>2
        <5> QED BY <3>2, <5>1
      <4> QED BY <4>1, <4>2
    <3> QED BY <1>1, <3>1, <3>2 DEF TrailInv, HandInv
  <2>2. reports' = <<>> => Promoted(trail', model)
    <3>1. reports' = <<>> => 1..Len(reports') = {}
      BY EmptyLog
    <3> QED BY <2>1, <3>1
  <2> QED BY <1>1, <2>1, <2>2 DEF HandInv
<1>11. ActionsInv'
  BY <1>1, <1>3, GrownActions
<1> QED BY <1>5, <1>6, <1>7, <1>8, <1>9, <1>10, <1>11 DEF TrailInv

LEMMA InitializeKeeps ==
    ASSUME TrailInv, Papers!Initialize
    PROVE  TrailInv'
<1> DEFINE e == [kind |-> "model_executed", source |-> model]
<1>1. /\ at = "initialize" /\ trail' = Append(trail, e) /\ candidates' = <<>>
      /\ at' \in {"finished", "planning"}
      /\ UNCHANGED <<last, ledger, reports, model, plan>>
  BY DEF Papers!Initialize, Papers!Record
<1>2. e.kind = "model_executed" /\ e.source = model
  OBVIOUS
<1> HIDE DEF e
<1>3. Executed(trail', model) /\ Ran(trail', model)
  <2>1. PICK p, a \in 1..Len(trail) :
          /\ a < p
          /\ trail[p].kind = "model_revision" /\ trail[p].source = model /\ trail[p].promoted
          /\ trail[a].kind = "reasoner_response" /\ trail[a].source = model
    BY <1>1, Zenon DEF TrailInv, HandInv, Promoted
  <2>2. /\ Len(trail) + 1 \in 1..Len(trail') /\ p < Len(trail) + 1
        /\ p \in 1..Len(trail') /\ a \in 1..Len(trail')
        /\ trail'[p] = trail[p] /\ trail'[a] = trail[a] /\ trail'[Len(trail) + 1] = e
    BY <1>1, GrownTrail
  <2>3. Ran(trail', model)
    BY <1>2, <2>2 DEF Ran
  <2>4. Executed(trail', model)
    BY <1>2, <2>1, <2>2 DEF Executed
  <2> QED BY <2>3, <2>4
<1>4. TrailTypes'
  BY <1>1, GrownTrail, EmptyLog DEF TrailInv, TrailTypes
<1>5. CandidatesInv'
  <2>1. 1..Len(candidates') = {}
    BY <1>1, EmptyLog
  <2> QED BY <2>1 DEF CandidatesInv
<1>6. LedgerInv' /\ ReportsInv'
  BY <1>1, GrownLedger, GrownReports
<1>7. RevisionsInv' /\ PlansInv'
  BY <1>1, <1>2, <1>3, GrownRevisions, GrownPlans
<1>8. HandInv'
  BY <1>1, <1>3 DEF HandInv
<1>9. ActionsInv'
  BY <1>1, <1>2, GrownActions
<1> QED BY <1>4, <1>5, <1>6, <1>7, <1>8, <1>9 DEF TrailInv

LEMMA ImproviseKeeps ==
    ASSUME TrailInv, Papers!Improvise
    PROVE  TrailInv'
<1>1. /\ at = "planning" /\ at' = "execute"
      /\ plan' = [source |-> Improvised, origin |-> Papers!Nowhere]
      /\ UNCHANGED <<trail, last, candidates, ledger, reports, model>>
  BY DEF Papers!Improvise
<1>2. TrailTypes' /\ CandidatesInv' /\ LedgerInv'
  BY <1>1 DEF TrailInv, TrailTypes, CandidatesInv, LedgerInv
<1>3. ReportsInv'
  BY <1>1 DEF TrailInv, ReportsInv
<1>4. RevisionsInv'
  BY <1>1 DEF TrailInv, RevisionsInv
<1>5. PlansInv'
  BY <1>1 DEF TrailInv, PlansInv
<1>6. HandInv'
  BY <1>1 DEF TrailInv, HandInv
<1>7. ActionsInv'
  BY <1>1 DEF TrailInv, ActionsInv
<1> QED BY <1>2, <1>3, <1>4, <1>5, <1>6, <1>7 DEF TrailInv

\* The plan in hand is linked, and its answer is older than its event.
LEMMA GenerateKeeps ==
    ASSUME TrailInv, Papers!Generate
    PROVE  TrailInv'
<1> DEFINE e == [kind |-> "plan_generated", model |-> model, source |-> plan.source,
                 origin |-> plan.origin]
<1>1. /\ at = "generated" /\ at' = "simulate" /\ trail' = Append(trail, e)
      /\ UNCHANGED <<last, candidates, ledger, reports, model, plan>>
  BY DEF Papers!Generate, Papers!Record
<1>2. e.kind = "plan_generated" /\ e.source = plan.source /\ e.origin = plan.origin
  OBVIOUS
<1> HIDE DEF e
<1>3. Answered(trail, "planning", plan.source, plan.origin)
  BY <1>1 DEF TrailInv, HandInv
<1>4. Generated(trail', plan.source)
  <2>1. PICK a \in 1..Len(trail) :
          /\ trail[a].kind = "reasoner_response" /\ trail[a].source = plan.source
          /\ trail[a].request = plan.origin.request
    BY <1>3, Zenon DEF Answered
  <2>2. /\ Len(trail) + 1 \in 1..Len(trail') /\ a < Len(trail) + 1 /\ a \in 1..Len(trail')
        /\ trail'[a] = trail[a] /\ trail'[Len(trail) + 1] = e
    BY <1>1, GrownTrail
  <2> QED BY <1>2, <2>1, <2>2 DEF Generated
<1>5. TrailTypes'
  BY <1>1, GrownTrail DEF TrailInv, TrailTypes
<1>6. CandidatesInv' /\ LedgerInv' /\ ReportsInv'
  BY <1>1, GrownCandidates, GrownLedger, GrownReports
<1>7. RevisionsInv'
  BY <1>1, <1>2, GrownRevisions
<1>8. PlansInv'
  <2> SUFFICES ASSUME NEW i \in 1..Len(trail'), trail'[i].kind = "plan_generated"
               PROVE  /\ Answered(trail', "planning", trail'[i].source, trail'[i].origin)
                      /\ \/ Tried(trail', trail'[i].source)
                         \/ at' = "simulate" /\ trail'[i].source = plan'.source
                         \/ at' = "failed"
                      /\ \/ Acted(trail', trail'[i].source)
                         \/ at' \in {"simulate", "execute"} /\ trail'[i].source = plan'.source
                         \/ at' = "failed"
    BY DEF PlansInv
  <2>1. CASE i \in 1..Len(trail)
    <3>1. trail'[i] = trail[i]
      BY <1>1, <2>1, GrownTrail
    <3>2. /\ Answered(trail, "planning", trail[i].source, trail[i].origin)
          /\ Tried(trail, trail[i].source) /\ Acted(trail, trail[i].source)
      BY <1>1, <2>1, <3>1 DEF TrailInv, PlansInv
    <3> QED BY <1>1, <3>1, <3>2, GrownTrail
  <2>2. CASE i = Len(trail) + 1
    <3>1. trail'[i] = e
      BY <1>1, <2>2, GrownTrail
    <3> QED BY <1>1, <1>2, <1>3, <3>1, GrownTrail
  <2> QED BY <1>1, <2>1, <2>2, GrownTrail
<1>9. HandInv'
  BY <1>1, <1>4, GrownTrail DEF TrailInv, HandInv
<1>10. ActionsInv'
  BY <1>1, <1>2, GrownActions
<1> QED BY <1>5, <1>6, <1>7, <1>8, <1>9, <1>10 DEF TrailInv

LEMMA SimulateKeeps ==
    ASSUME TrailInv, Papers!Simulate
    PROVE  TrailInv'
<1> DEFINE e == [kind |-> "plan_simulated", model |-> model, source |-> plan.source]
<1>1. /\ at = "simulate" /\ at' = "execute" /\ trail' = Append(trail, e)
      /\ UNCHANGED <<last, candidates, ledger, reports, model, plan>>
  BY DEF Papers!Simulate, Papers!Record
<1>2. e.kind = "plan_simulated" /\ e.source = plan.source /\ e.model = model
  OBVIOUS
<1> HIDE DEF e
<1>3. Simulated(trail', plan.source, model) /\ Tried(trail', plan.source)
  <2>1. PICK g, a \in 1..Len(trail) :
          /\ a < g
          /\ trail[g].kind = "plan_generated" /\ trail[g].source = plan.source
          /\ trail[a].kind = "reasoner_response" /\ trail[a].source = plan.source
          /\ trail[a].request = trail[g].origin.request
    BY <1>1, Zenon DEF TrailInv, HandInv, Generated
  <2>2. /\ Len(trail) + 1 \in 1..Len(trail') /\ g < Len(trail) + 1
        /\ g \in 1..Len(trail') /\ a \in 1..Len(trail')
        /\ trail'[g] = trail[g] /\ trail'[a] = trail[a] /\ trail'[Len(trail) + 1] = e
    BY <1>1, GrownTrail
  <2>3. Tried(trail', plan.source)
    BY <1>2, <2>2 DEF Tried
  <2>4. Simulated(trail', plan.source, model)
    BY <1>2, <2>1, <2>2 DEF Simulated
  <2> QED BY <2>3, <2>4
<1>4. TrailTypes'
  BY <1>1, GrownTrail DEF TrailInv, TrailTypes
<1>5. CandidatesInv' /\ LedgerInv' /\ ReportsInv'
  BY <1>1, GrownCandidates, GrownLedger, GrownReports
<1>6. RevisionsInv' /\ PlansInv'
  BY <1>1, <1>2, <1>3, GrownRevisions, GrownPlans
<1>7. HandInv'
  BY <1>1, <1>3, GrownTrail DEF TrailInv, HandInv
<1>8. ActionsInv'
  BY <1>1, <1>2, GrownActions
<1> QED BY <1>4, <1>5, <1>6, <1>7, <1>8 DEF TrailInv

\* The one action the properties are about.
LEMMA IntendKeeps ==
    ASSUME TrailInv, Papers!Intend
    PROVE  TrailInv'
<1> DEFINE e == [kind |-> "action_intent", model |-> model, plan |-> plan.source]
<1>1. /\ at = "execute" /\ at' \in {"execute", "planning", "finished", "revision"}
      /\ at' = "execute" => plan.source # Improvised
      /\ trail' = Append(trail, e)
      /\ UNCHANGED <<last, candidates, ledger, reports, model, plan>>
  BY DEF Papers!Intend, Papers!Record
<1>2. e.kind = "action_intent" /\ e.plan = plan.source /\ e.model = model
  OBVIOUS
<1> HIDE DEF e
<1>3. /\ Len(trail) \in Nat /\ Len(trail) + 1 \in 1..Len(trail')
      /\ trail'[Len(trail) + 1] = e
      /\ \A i \in 1..Len(trail) : trail'[i] = trail[i]
      /\ (Len(trail) + 1) - 1 = Len(trail)
  BY <1>1, GrownTrail
<1>4. Acted(trail', plan.source)
  BY <1>2, <1>3 DEF Acted
<1>5. Led(trail', Len(trail) + 1)
  <2>1. LedModel(trail', Len(trail) + 1)
    <3>1. PICK x, p, a \in 1..Len(trail) :
            /\ a < p /\ p < x
            /\ trail[x].kind = "model_executed" /\ trail[x].source = model
            /\ trail[p].kind = "model_revision" /\ trail[p].source = model /\ trail[p].promoted
            /\ trail[a].kind = "reasoner_response" /\ trail[a].source = model
      BY <1>1, Zenon DEF TrailInv, HandInv, Executed
    <3>2. trail'[x] = trail[x] /\ trail'[p] = trail[p] /\ trail'[a] = trail[a]
      BY <1>3
    <3> QED BY <1>2, <1>3, <3>1, <3>2 DEF LedModel
  <2>2. ASSUME plan.source # Improvised PROVE LedPlan(trail', Len(trail) + 1)
    <3>1. PICK x, g, a \in 1..Len(trail) :
            /\ a < g /\ g < x
            /\ trail[x].kind = "plan_simulated" /\ trail[x].source = plan.source
            /\ trail[x].model = model
            /\ trail[g].kind = "plan_generated" /\ trail[g].source = plan.source
            /\ trail[a].kind = "reasoner_response" /\ trail[a].source = plan.source
            /\ trail[a].request = trail[g].origin.request
      BY <1>1, <2>2, Zenon DEF TrailInv, HandInv, Simulated
    <3>2. trail'[x] = trail[x] /\ trail'[g] = trail[g] /\ trail'[a] = trail[a]
      BY <1>3
    <3> QED BY <1>2, <1>3, <3>1, <3>2 DEF LedPlan
  <2> QED BY <1>2, <1>3, <2>1, <2>2 DEF Led
<1>6. TrailTypes'
  BY <1>1, GrownTrail DEF TrailInv, TrailTypes
<1>7. CandidatesInv' /\ LedgerInv' /\ ReportsInv'
  BY <1>1, GrownCandidates, GrownLedger, GrownReports
<1>8. RevisionsInv' /\ PlansInv'
  BY <1>1, <1>2, <1>4, GrownRevisions, GrownPlans
<1>9. HandInv'
  BY <1>1, GrownTrail DEF TrailInv, HandInv
<1>10. ActionsInv'
  BY <1>1, <1>5, GrownActions
<1> QED BY <1>6, <1>7, <1>8, <1>9, <1>10 DEF TrailInv

LEMMA RaiseKeeps ==
    ASSUME TrailInv, Papers!Raise
    PROVE  TrailInv'
<1>1. at' = "failed" /\ UNCHANGED <<trail, last, candidates, ledger, reports, model, plan>>
  BY DEF Papers!Raise
<1>2. TrailTypes' /\ CandidatesInv' /\ LedgerInv'
  BY <1>1 DEF TrailInv, TrailTypes, CandidatesInv, LedgerInv
<1>3. ReportsInv'
  BY <1>1 DEF TrailInv, ReportsInv
<1>4. RevisionsInv'
  BY <1>1 DEF TrailInv, RevisionsInv
<1>5. PlansInv'
  BY <1>1 DEF TrailInv, PlansInv
<1>6. HandInv'
  BY <1>1 DEF HandInv
<1>7. ActionsInv'
  BY <1>1 DEF TrailInv, ActionsInv
<1> QED BY <1>2, <1>3, <1>4, <1>5, <1>6, <1>7 DEF TrailInv

LEMMA TrailInductive == TrailInv /\ [Papers!Next]_(Papers!vars) => TrailInv'
<1> SUFFICES ASSUME TrailInv, [Papers!Next]_(Papers!vars) PROVE TrailInv'
  OBVIOUS
<1>1. ASSUME NEW role \in Papers!Role, Papers!Ask(role) \/ Papers!Refuse(role) PROVE TrailInv'
  BY <1>1, AskKeeps, RefuseKeeps
<1>2. ASSUME NEW role \in Papers!Role, NEW text, Papers!Respond(role, text) PROVE TrailInv'
  BY <1>2, RespondKeeps
<1>3. CASE Papers!Reconcile \/ Papers!Report \/ Papers!Initialize
  BY <1>3, ReconcileKeeps, ReportKeeps, InitializeKeeps
<1>4. CASE Papers!Improvise \/ Papers!Generate \/ Papers!Simulate \/ Papers!Intend \/ Papers!Raise
  BY <1>4, ImproviseKeeps, GenerateKeeps, SimulateKeeps, IntendKeeps, RaiseKeeps
<1>5. CASE UNCHANGED Papers!vars
  <2>1. UNCHANGED <<trail, at, last, candidates, ledger, reports, model, plan>>
    BY <1>5 DEF Papers!vars
  <2>2. TrailTypes' /\ CandidatesInv' /\ LedgerInv'
    BY <2>1 DEF TrailInv, TrailTypes, CandidatesInv, LedgerInv
  <2>3. ReportsInv' /\ RevisionsInv'
    BY <2>1 DEF TrailInv, ReportsInv, RevisionsInv
  <2>4. PlansInv' /\ HandInv'
    BY <2>1 DEF TrailInv, PlansInv, HandInv
  <2>5. ActionsInv'
    BY <2>1 DEF TrailInv, ActionsInv
  <2> QED BY <2>2, <2>3, <2>4, <2>5 DEF TrailInv
<1> QED BY <1>1, <1>2, <1>3, <1>4, <1>5 DEF Papers!Next

LEMMA TrailInitial == Papers!Init => TrailInv
<1> SUFFICES ASSUME Papers!Init PROVE TrailInv
  OBVIOUS
<1>1. /\ trail = <<>> /\ candidates = <<>> /\ reports = <<>> /\ ledger = {} /\ at = "revision"
      /\ last = [r \in Papers!Role |-> Papers!Nowhere]
  BY DEF Papers!Init
<1>2. 1..Len(trail) = {} /\ 1..Len(candidates) = {} /\ 1..Len(reports) = {}
  BY <1>1, EmptyLog
<1>3. TrailTypes
  BY <1>1, EmptyLog, FS_EmptySet DEF TrailTypes, Papers!Nowhere
<1>4. CandidatesInv /\ LedgerInv /\ ReportsInv /\ RevisionsInv /\ PlansInv /\ HandInv /\ ActionsInv
  BY <1>1, <1>2 DEF CandidatesInv, LedgerInv, ReportsInv, RevisionsInv, PlansInv, HandInv,
     ActionsInv
<1> QED BY <1>3, <1>4 DEF TrailInv

-----------------------------------------------------------------------------
(* What follows                                                            *)

LEMMA TrailActionsTraced == TrailInv => Papers!ActionsTraced
<1> SUFFICES ASSUME TrailInv, NEW i \in 1..Len(trail), trail[i].kind = "action_intent"
             PROVE  LedModel(trail, i) /\ (trail[i].plan # Improvised => LedPlan(trail, i))
  <2>1. TrailInv => DOMAIN trail = 1..Len(trail)
    BY LogFacts DEF TrailInv, TrailTypes
  <2> QED BY <2>1, Zenon DEF Papers!ActionsTraced, LedModel, LedPlan
<1> QED BY DEF TrailInv, ActionsInv, Led

\* The events of a kind, as the audit sees them.
LEMMA ByKindFacts ==
    ASSUME TrailInv, NEW kind \in DOMAIN Papers!ByKind
    PROVE  /\ Papers!ByKind[kind] = Papers!EventsOf(kind)
           /\ DOMAIN Papers!ByKind[kind] = 1..Len(Papers!ByKind[kind])
           /\ Len(Papers!ByKind[kind]) \in Nat
           /\ \A e \in Papers!ToSet(Papers!ByKind[kind]) :
                \E i \in 1..Len(trail) : trail[i].kind = kind /\ e = trail[i]
           /\ \A i \in 1..Len(trail) : trail[i].kind = kind =>
                trail[i] \in Papers!ToSet(Papers!ByKind[kind])
<1> DEFINE s == Papers!ByKind[kind]
<1>1. s = Papers!EventsOf(kind)
  BY DEF Papers!ByKind
<1>2. IsLog(trail)
  BY DEF TrailInv, TrailTypes
<1>3. /\ DOMAIN s = 1..Len(s) /\ Len(s) \in Nat
      /\ \A k \in 1..Len(s) : \E i \in 1..Len(trail) : trail[i].kind = kind /\ s[k] = trail[i]
      /\ \A i \in 1..Len(trail) : trail[i].kind = kind => \E k \in 1..Len(s) : s[k] = trail[i]
  <2> DEFINE E == Papers!EventsOf(kind)
  <2>1. /\ DOMAIN E = 1..Len(E) /\ Len(E) \in Nat
        /\ \A k \in 1..Len(E) : \E i \in 1..Len(trail) : trail[i].kind = kind /\ E[k] = trail[i]
        /\ \A i \in 1..Len(trail) : trail[i].kind = kind => \E k \in 1..Len(E) : E[k] = trail[i]
    BY <1>2, EventsFacts
  <2> HIDE DEF s, E
  <2>2. s = E
    BY <1>1 DEF E
  <2> QED BY <2>1, <2>2, Zenon
<1> HIDE DEF s
<1>4. Papers!ToSet(s) = {s[k] : k \in 1..Len(s)}
  BY <1>3 DEF Papers!ToSet
<1> QED BY <1>1, <1>3, <1>4 DEF s

LEMMA LinkFacts ==
    ASSUME TrailInv, NEW role, NEW item, Answered(trail, role, item.source, item.origin)
    PROVE  /\ Papers!LinkHolds(Papers!ByKind, item)
           /\ \E r \in Papers!ToSet(Papers!ByKind["reasoner_response"]) : r.role = role
<1>1. PICK a \in 1..Len(trail) :
        /\ trail[a].kind = "reasoner_response" /\ trail[a].role = role
        /\ trail[a].source = item.source
        /\ trail[a].request = item.origin.request /\ trail[a].request = item.origin.response
  BY Zenon DEF Answered
<1>2. "reasoner_response" \in DOMAIN Papers!ByKind
  BY DEF Papers!ByKind
<1>3. trail[a] \in Papers!ToSet(Papers!ByKind["reasoner_response"])
  BY <1>1, <1>2, ByKindFacts
<1> QED BY <1>1, <1>3 DEF Papers!LinkHolds

LEMMA TrailFinishedRunAudited == TrailInv => Papers!FinishedRunAudited
<1> SUFFICES ASSUME TrailInv, at = "finished", Papers!EventsOf("plan_generated") # <<>>,
                    \A i \in 1..Len(trail) :
                      trail[i].kind = "model_revision" /\ trail[i].promoted =>
                        trail[i].origin # Papers!Nowhere
             PROVE  /\ Papers!ProviderCheck(Papers!ByKind)
                    /\ Papers!WorldModelCheck(Papers!ByKind)
                    /\ Papers!PlanCheck(Papers!ByKind)
  <2>1. TrailInv => DOMAIN trail = 1..Len(trail)
    BY LogFacts DEF TrailInv, TrailTypes
  <2> QED BY <2>1, Zenon DEF Papers!FinishedRunAudited
<1> DEFINE responses == Papers!ByKind["reasoner_response"]
           Set(kind) == Papers!ToSet(Papers!ByKind[kind])
<1>1. /\ "reasoner_response" \in DOMAIN Papers!ByKind /\ "model_revision" \in DOMAIN Papers!ByKind
      /\ "model_executed" \in DOMAIN Papers!ByKind /\ "plan_generated" \in DOMAIN Papers!ByKind
      /\ "plan_simulated" \in DOMAIN Papers!ByKind /\ "action_intent" \in DOMAIN Papers!ByKind
  BY DEF Papers!ByKind
<1>2. ASSUME NEW e \in Set("model_revision"), e.promoted
      PROVE  /\ Answered(trail, "revision", e.source, e.origin)
             /\ \E x \in Set("model_executed") : x.source = e.source
  <2>1. PICK i \in 1..Len(trail) : trail[i].kind = "model_revision" /\ e = trail[i]
    BY <1>1, ByKindFacts
  <2>2. /\ Answered(trail, "revision", e.source, e.origin)
        /\ Ran(trail, e.source)
    BY <1>2, <2>1 DEF TrailInv, RevisionsInv
  <2>3. PICK x \in 1..Len(trail) : trail[x].kind = "model_executed" /\ trail[x].source = e.source
    BY <2>2, Zenon DEF Ran
  <2>4. trail[x] \in Set("model_executed")
    BY <1>1, <2>3, ByKindFacts
  <2> QED BY <2>2, <2>3, <2>4
<1>3. ASSUME NEW e \in Set("plan_generated")
      PROVE  /\ Answered(trail, "planning", e.source, e.origin)
             /\ \E x \in Set("plan_simulated") : x.source = e.source
             /\ \E x \in Set("action_intent") : x.plan = e.source
  <2>1. PICK i \in 1..Len(trail) : trail[i].kind = "plan_generated" /\ e = trail[i]
    BY <1>1, ByKindFacts
  <2>2. /\ Answered(trail, "planning", e.source, e.origin)
        /\ Tried(trail, e.source) /\ Acted(trail, e.source)
    BY <2>1 DEF TrailInv, PlansInv
  <2>3. PICK x \in 1..Len(trail) : trail[x].kind = "plan_simulated" /\ trail[x].source = e.source
    BY <2>2, Zenon DEF Tried
  <2>4. PICK y \in 1..Len(trail) : trail[y].kind = "action_intent" /\ trail[y].plan = e.source
    BY <2>2, Zenon DEF Acted
  <2>5. trail[x] \in Set("plan_simulated") /\ trail[y] \in Set("action_intent")
    BY <1>1, <2>3, <2>4, ByKindFacts
  <2> QED BY <2>2, <2>3, <2>4, <2>5
<1>4. PICK rev \in Set("model_revision") : rev.promoted
  <2>1. PICK e, p, a \in 1..Len(trail) :
          trail[p].kind = "model_revision" /\ trail[p].promoted
    BY Zenon DEF TrailInv, HandInv, Executed
  <2>2. trail[p] \in Set("model_revision")
    BY <1>1, <2>1, ByKindFacts
  <2> QED BY <2>1, <2>2
<1>5. /\ Papers!ByKind["plan_generated"] # <<>>
      /\ \E e \in Set("plan_generated") : TRUE
  <2> DEFINE s == Papers!ByKind["plan_generated"]
  <2>1. /\ s # <<>> /\ DOMAIN s = 1..Len(s) /\ Len(s) \in Nat
        /\ s = Papers!EventsOf("plan_generated")
    BY <1>1, ByKindFacts
  <2>2. IsLog(s)
    BY <2>1, EventsFacts DEF TrailInv, TrailTypes
  <2>3. Len(s) # 0
    BY <2>1, <2>2, EmptySeq DEF IsLog
  <2>4. s[1] \in Papers!ToSet(s)
    BY <2>1, <2>3 DEF Papers!ToSet
  <2> QED BY <2>1, <2>4
<1>6. PICK gen \in Set("plan_generated") : TRUE
  BY <1>5
<1>7. Papers!ProviderCheck(Papers!ByKind)
  <2>1. /\ \E r \in Papers!ToSet(responses) : r.role = "revision"
        /\ \E r \in Papers!ToSet(responses) : r.role = "planning"
    BY <1>2, <1>3, <1>4, <1>6, LinkFacts
  <2>2. DOMAIN responses = 1..Len(responses) /\ Len(responses) \in Nat
    BY <1>1, ByKindFacts
  <2> HIDE DEF responses
  <2>3. PICK i, j \in 1..Len(responses) :
          responses[i].role = "revision" /\ responses[j].role = "planning"
    BY <2>1, <2>2 DEF Papers!ToSet
  <2>4. Len(responses) >= 2
    <3>1. i # j
      BY <2>3
    <3> QED BY <2>2, <3>1
  <2>5. {"revision", "planning"} \subseteq {responses[k].role : k \in DOMAIN responses}
    BY <2>2, <2>3
  <2> QED BY <2>4, <2>5 DEF Papers!ProviderCheck, responses
<1>8. Papers!WorldModelCheck(Papers!ByKind)
  <2>1. \A e \in Set("model_revision") : e.promoted => Papers!LinkHolds(Papers!ByKind, e)
    BY <1>2, LinkFacts
  <2> QED BY <1>2, <1>4, <2>1, Zenon DEF Papers!WorldModelCheck
<1>9. Papers!PlanCheck(Papers!ByKind)
  <2>1. \A e \in Set("plan_generated") : Papers!LinkHolds(Papers!ByKind, e)
    BY <1>3, LinkFacts
  <2> QED BY <1>3, <1>5, <2>1, Zenon DEF Papers!PlanCheck
<1> QED BY <1>7, <1>8, <1>9

\* Every real action has its paper trail, in order and durable before it, and a run that
\* finished passes the checks of the audit that read it: for every number of candidates,
\* readings, requests and actions, and whatever the reasoner answers
\* (llm/base.py: RecordingReasoner; audit.py: audit_real_llm_run).
THEOREM TracedCorrect == Papers!Spec => []RunTraced
<1>1. TrailInv => RunTraced
  BY TrailActionsTraced, TrailFinishedRunAudited DEF RunTraced, Papers!RunTraced
<1> QED BY <1>1, TrailInitial, TrailInductive, PTL DEF Papers!Spec

\* The process the run checks, which does one of the three, keeps both.
THEOREM HostCorrect == MCSpec => [](StartDecided /\ RunTraced)
<1>1. MCInit => Sources!Init /\ Papers!Init
  BY DEF MCInit
<1>2. [MCNext]_<<part, vars, sources, papers>> =>
        [Sources!Next]_(Sources!vars) /\ [Papers!Next]_(Papers!vars)
  <2>1. UNCHANGED sources => UNCHANGED Sources!vars
    BY DEF Sources!vars, Sources!files, Sources!tests, sources
  <2>2. UNCHANGED papers => UNCHANGED Papers!vars
    BY DEF Papers!vars, papers
  <2>3. [MCNext]_<<part, vars, sources, papers>> =>
          (Sources!Next \/ UNCHANGED sources) /\ (Papers!Next \/ UNCHANGED papers)
    BY DEF MCNext
  <2> QED BY <2>1, <2>2, <2>3
<1>3. MCSpec => Sources!Spec /\ Papers!Spec
  BY <1>1, <1>2, PTL DEF MCSpec, Sources!Spec, Papers!Spec
<1> QED BY <1>3, StartCorrect, TracedCorrect, PTL
=============================================================================
