---------------------------- MODULE GameSources -----------------------------
(***************************************************************************)
(* From the files of an offline game to the code a test runs: the          *)
(* discovery of the one metadata file and source that belong to a game,    *)
(* their fingerprints taken when a test is created (provenance.py,         *)
(* TestFactory.create) and the guarded start of the test                   *)
(* (DeferredOfflineEnvironment.start).                                     *)
(*                                                                         *)
(* The files are the environment.  They may be edited between any two      *)
(* steps, each time to a content they never had before: a file restored to *)
(* an earlier content while a start reads it cannot be told from one that  *)
(* was not touched.  The SDK is external: it opens some directory whose    *)
(* metadata claims the game and may keep using the module it has already   *)
(* loaded from a path.                                                     *)
(***************************************************************************)
EXTENDS Integers, FiniteSets

CONSTANTS
    Dir,            \* directories below the cache root
    Game,
    Canonical,      \* by game: the directories named after it
    Test,
    MaxEdits        \* bound on edits

VARIABLES
    metadata, source,   \* the files of each directory
    edits,              \* edits so far: the content of an edited file is the number of its edit
    booted,             \* edits when the process started
    pc, game, expected, \* of a test: where it is, its game, the provenance it declares
    code,               \* the code the SDK gave it
    loadedHashes,       \* _loaded_source_hashes: by directory, at most one content
    modules             \* the SDK's modules: by directory, at most one content

files == <<metadata, source, edits>>
tests == <<pc, game, expected, code>>
vars  == <<files, booted, tests, loadedHashes, modules>>

-----------------------------------------------------------------------------
\* A source is valid when exactly one readable file of the directory defines the game's
\* class, a metadata file when it can be read and claims a game.  The files of a directory
\* are read in one step.
Content   == 0..MaxEdits
Metadata  == [game : Game \cup {"absent", "invalid"}, content : Content]
Source    == [valid : BOOLEAN, content : Content]
Provenance == [dir : Dir, metadata : Content, source : Content]

\* Metadata files that claim game g.
Matches(g) == {d \in Dir : metadata[d].game = g}

\* A directory named after the game holds a metadata file of something else.
CanonicalFailure(g) ==
    \E d \in Canonical[g] : metadata[d].game # "absent" /\ d \notin Matches(g)

\* collect_environment_provenance: the files of g and their fingerprints, or nothing.
Collected(g) ==
    {[dir |-> d, metadata |-> metadata[d].content, source |-> source[d].content] :
        d \in {e \in Matches(g) : /\ ~CanonicalFailure(g)
                                  /\ Matches(g) = {e}
                                  /\ source[e].valid}}

Init ==
    /\ metadata \in [Dir -> {m \in Metadata : m.content = 0}]
    /\ source \in [Dir -> {s \in Source : s.content = 0}]
    /\ edits = 0 /\ booted = 0
    /\ pc = [t \in Test |-> "none"] /\ game \in [Test -> Game]
    /\ expected = [t \in Test |-> {}] /\ code = [t \in Test |-> {}]
    /\ loadedHashes = [d \in Dir |-> {}] /\ modules = [d \in Dir |-> {}]

-----------------------------------------------------------------------------
(* The environment                                                         *)

EditMetadata(d) ==
    /\ edits < MaxEdits
    /\ \E m \in Metadata : m.content = edits + 1 /\ metadata' = [metadata EXCEPT ![d] = m]
    /\ edits' = edits + 1
    /\ UNCHANGED <<source, booted, tests, loadedHashes, modules>>

EditSource(d) ==
    /\ edits < MaxEdits
    /\ \E s \in Source : s.content = edits + 1 /\ source' = [source EXCEPT ![d] = s]
    /\ edits' = edits + 1
    /\ UNCHANGED <<metadata, booted, tests, loadedHashes, modules>>

\* The console is restarted: tests and modules are gone with its process.
Restart ==
    /\ booted' = edits
    /\ pc' = [t \in Test |-> "none"]
    /\ expected' = [t \in Test |-> {}] /\ code' = [t \in Test |-> {}]
    /\ loadedHashes' = [d \in Dir |-> {}] /\ modules' = [d \in Dir |-> {}]
    /\ UNCHANGED <<files, game>>

-----------------------------------------------------------------------------
(* TestFactory.create and DeferredOfflineEnvironment.start                 *)

Create(t) ==
    /\ pc[t] = "none"
    /\ Collected(game[t]) # {}
    /\ expected' = [expected EXCEPT ![t] = Collected(game[t])]
    /\ pc' = [pc EXCEPT ![t] = "created"]
    /\ UNCHANGED <<files, booted, game, code, loadedHashes, modules>>

Compare(t) ==
    /\ pc[t] = "created"
    /\ pc' = [pc EXCEPT ![t] = IF Collected(game[t]) = expected[t] THEN "current" ELSE "refused"]
    /\ UNCHANGED <<files, booted, game, expected, code, loadedHashes, modules>>

\* Faulty variant of Claim: the latest start of a path is the one remembered.
ClaimLatest(t) ==
    /\ pc[t] = "current"
    /\ \E p \in expected[t] :
         /\ loadedHashes' = [loadedHashes EXCEPT ![p.dir] = {p.source}]
         /\ pc' = [pc EXCEPT ![t] = "claimed"]
    /\ UNCHANGED <<files, booted, game, expected, code, modules>>

\* _claim_source_identity: one content per path and process, the failed starts included.
Claim(t) ==
    /\ pc[t] = "current"
    /\ \E p \in expected[t] :
         IF loadedHashes[p.dir] \subseteq {p.source}
         THEN /\ loadedHashes' = [loadedHashes EXCEPT ![p.dir] = {p.source}]
              /\ pc' = [pc EXCEPT ![t] = "claimed"]
         ELSE /\ pc' = [pc EXCEPT ![t] = "refused"]
              /\ UNCHANGED loadedHashes
    /\ UNCHANGED <<files, booted, game, expected, code, modules>>

\* ArcAdapter.open_offline and start(): the SDK makes the game, or it fails, before it has
\* loaded a module or after.
Open(t) ==
    /\ pc[t] = "claimed"
    /\ \/ \E d \in Matches(game[t]) :
            \E c \in modules[d] \cup (IF source[d].valid THEN {source[d].content} ELSE {}) :
               /\ code' = [code EXCEPT ![t] = {[dir |-> d, source |-> c]}]
               /\ modules' = [modules EXCEPT ![d] = {c}]
               /\ \E outcome \in {"opened", "failed"} : pc' = [pc EXCEPT ![t] = outcome]
       \/ /\ pc' = [pc EXCEPT ![t] = "failed"]
          /\ UNCHANGED <<code, modules>>
    /\ UNCHANGED <<files, booted, game, expected, loadedHashes>>

\* The wrapper's directory, and the files once more.
Confirm(t) ==
    /\ pc[t] = "opened"
    /\ LET same == /\ \A c \in code[t], p \in expected[t] : c.dir = p.dir
                   /\ Collected(game[t]) = expected[t]
       IN  pc' = [pc EXCEPT ![t] = IF same THEN "started" ELSE "refused"]
    /\ UNCHANGED <<files, booted, game, expected, code, loadedHashes, modules>>

-----------------------------------------------------------------------------
Next ==
    \/ \E d \in Dir : EditMetadata(d) \/ EditSource(d)
    \/ Restart
    \/ \E t \in Test : Create(t) \/ Compare(t) \/ Claim(t) \/ Open(t) \/ Confirm(t)

Spec == Init /\ [][Next]_vars

-----------------------------------------------------------------------------
(* Properties                                                              *)

TypeOK ==
    /\ metadata \in [Dir -> Metadata] /\ source \in [Dir -> Source]
    /\ edits \in Content /\ booted \in Content
    /\ pc \in [Test -> {"none", "created", "current", "claimed", "opened", "started",
                        "refused", "failed"}]
    /\ game \in [Test -> Game]
    /\ \A t \in Test : expected[t] \subseteq Provenance
    /\ \A t \in Test : code[t] \subseteq [dir : Dir, source : Content]
    /\ loadedHashes \in [Dir -> SUBSET Content] /\ modules \in [Dir -> SUBSET Content]

\* A start that is refused, or fails, may have made the SDK load another directory than its
\* test declares.
Strayed(d) == \E t \in Test : \E c \in code[t], p \in expected[t] : c.dir = d /\ p.dir # d

\* A test that has started runs the code whose fingerprint its record declares, through
\* edits at any moment, other tests of the same path and modules the SDK kept.  Of a
\* directory that another test strayed into nothing was claimed: what the SDK has kept of
\* it may be older than what a later test of it declares.
RunsDeclaredCode ==
    \A t \in Test : pc[t] = "started" =>
        \/ code[t] = {[dir |-> p.dir, source |-> p.source] : p \in expected[t]}
        \/ \E p \in expected[t] : Strayed(p.dir)

\* A start is refused only when some file was edited since the process started: the SDK
\* has no other directory to open than the one the provenance names.
RefusedForCause == \A t \in Test : pc[t] = "refused" => edits > booted

\* The fingerprints taken when a test is created decide its start: it runs the code they
\* declare or, only when a file has changed, not at all (env/offline_session.py:38 and
\* 80, env/provenance.py:248).
StartDecided == TypeOK /\ RunsDeclaredCode /\ RefusedForCause
=============================================================================
