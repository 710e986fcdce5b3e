-------------------------- MODULE ProtectedSearch --------------------------
(***************************************************************************)
(* The protected lexical index (RFC 0013): memory text is encrypted, and   *)
(* a table of HMAC digests per key version lets a recall find candidates   *)
(* without decrypting the workspace.  Writers, the backfill job, the       *)
(* retirement job and recalls run in different processes, which during a   *)
(* rotation hold different key versions.                                   *)
(*                                                                         *)
(* An item is its creation time (items may commit in any order).  The      *)
(* digests of an item under one key version are written and deleted        *)
(* together, so a pair <<item, version>> stands for all of them and for    *)
(* the document marker; a version names one key.  Version 0 is the index   *)
(* switched off.                                                           *)
(***************************************************************************)
EXTENDS Naturals, FiniteSets, FiniteSetsExt

CONSTANTS
  Created,      \* the items, by creation time: positive numbers
  Words,        \* item -> the set of words of its text
  Pinned,       \* the items of the core and working layers
  Queries,      \* the sets of words a recall may ask for
  Limit,        \* top_k * 3
  Replicas,     \* the processes that write memory
  Askers,       \* those of them that also answer recalls (the API servers)
  KeyVersions,  \* the positive key versions
  BatchSize,    \* --batch-size of the backfill
  BatchCap      \* --max-batches of the backfill

VARIABLES
  committed,    \* the items whose transaction has committed
  tokens,       \* memory_search_tokens, as pairs <<item, version>>
  replica,      \* process -> the key version it was started with, and its recall
  stateFile,    \* the cursor the last finished backfill saved
  backfill,     \* the backfill process
  retirement,   \* the retirement process
  overclaimed,  \* the items a complete backfill report wrongly speaks for
  stranded      \* the items a retirement took out of the index

vars == <<committed, tokens, replica, stateFile, backfill, retirement, overclaimed, stranded>>

NoRecall == [phase |-> "idle", query |-> {}, seen |-> {}, indexed |-> FALSE, missed |-> {}, torn |-> FALSE]
NoBackfill == [version |-> 0, cursor |-> 0, batches |-> 0, seen |-> {}]
NoRetirement == [active |-> 0, old |-> 0, seen |-> {}, covered |-> FALSE]

Init ==
  /\ committed = {}
  /\ tokens = {}
  /\ replica = [s \in Replicas |-> [version |-> 0, recall |-> NoRecall]]
  /\ stateFile = 0
  /\ backfill = NoBackfill
  /\ retirement = NoRetirement
  /\ overclaimed = {}
  /\ stranded = {}

----------------------------------------------------------------------------
(* Writers                                                                 *)

\* Start or restart a process with another configuration: its recall is lost.
Configure(s, v) ==
  /\ v # replica[s].version
  /\ replica' = [replica EXCEPT ![s] = [version |-> v, recall |-> NoRecall]]
  /\ UNCHANGED <<committed, tokens, stateFile, backfill, retirement, overclaimed, stranded>>

\* Mutant: digests are written although the index is switched off.
DigestsAlways(S, v) == S \X {v}

\* _insert_protected_search_tokens: the rows a writer with version v adds.
Digests(S, v) == IF v = 0 THEN {} ELSE S \X {v}

\* Retain an item: the item and its digests are one transaction.
Retain(s, i) ==
  /\ i \notin committed
  /\ committed' = committed \cup {i}
  /\ tokens' = tokens \cup Digests({i}, replica[s].version)
  /\ UNCHANGED <<replica, stateFile, backfill, retirement, overclaimed, stranded>>

----------------------------------------------------------------------------
(* Recall                                                                  *)

\* Mutant: the index counts as complete once one item has the marker.
CoveredAtAll(v) == \E i \in committed : <<i, v>> \in tokens

\* Every committed item has the marker of version v.
Covered(v) == \A i \in committed : <<i, v>> \in tokens

Overlap(i, q) == Cardinality(Words[i] \cap q)

\* _protected_search_index_is_complete: a transaction of its own.
Complete(v, q) == v # 0 /\ q # {} /\ Covered(v)

CheckCoverage(s, q) ==
  /\ s \in Askers
  /\ replica[s].recall.phase # "checked"
  /\ replica' = [replica EXCEPT ![s].recall =
        [phase |-> "checked", query |-> q, seen |-> committed,
         indexed |-> Complete(replica[s].version, q), missed |-> {}, torn |-> FALSE]]
  /\ UNCHANGED <<committed, tokens, stateFile, backfill, retirement, overclaimed, stranded>>

\* The Limit members of S of the highest rank, the newest first among equals.
Last(S, rank) ==
  {i \in S : Cardinality({j \in S : rank[j] > rank[i] \/ (rank[j] = rank[i] /\ j > i)}) < Limit}

\* Every row is decrypted; the best by overlap, then by creation, are kept.
Scanned(q) ==
  Last({i \in committed : Overlap(i, q) > 0 \/ i \in Pinned},
       [i \in committed |-> Overlap(i, q)])

\* Only rows with a digest of the query are read; the newest are kept.
Indexed(v, q) ==
  Last({i \in committed : (<<i, v>> \in tokens /\ Overlap(i, q) > 0) \/ i \in Pinned},
       [i \in committed |-> i])

\* search, after the choice of path: a second transaction.
Answer(s) ==
  LET c == replica[s].recall
      found == IF c.indexed THEN Indexed(replica[s].version, c.query) ELSE Scanned(c.query)
      matching == {i \in c.seen : Overlap(i, c.query) > 0}
  IN /\ c.phase = "checked"
     /\ replica' = [replica EXCEPT ![s].recall =
           [NoRecall EXCEPT !.phase = "answered", !.torn = c.torn,
                            !.missed = IF Cardinality(found) = Limit THEN {}
                                         ELSE matching \ found]]
     /\ UNCHANGED <<committed, tokens, stateFile, backfill, retirement, overclaimed, stranded>>

----------------------------------------------------------------------------
(* The backfill job                                                        *)

\* main: load the cursor of the state file and begin.
StartBackfill(v) ==
  /\ backfill.version = 0
  /\ backfill' = [version |-> v, cursor |-> stateFile, batches |-> 0,
                  seen |-> IF stateFile = 0 THEN committed ELSE {}]
  /\ UNCHANGED <<committed, tokens, replica, stateFile, retirement, overclaimed, stranded>>

\* The next page: the oldest BatchSize committed items after the cursor.
Page(cursor) ==
  {i \in committed :
     i > cursor /\ Cardinality({j \in committed : cursor < j /\ j < i}) < BatchSize}

\* One committed batch; an item already indexed is left alone.
BackfillBatch ==
  LET page == Page(backfill.cursor)
  IN /\ backfill.version # 0
     /\ backfill.batches < BatchCap
     /\ page # {}
     /\ tokens' = tokens \cup Digests(page, backfill.version)
     /\ backfill' = [backfill EXCEPT !.cursor = Max(page), !.batches = @ + 1]
     /\ UNCHANGED <<committed, replica, stateFile, retirement, overclaimed, stranded>>

\* An empty page completes the job; the batch limit ends it unfinished.
BackfillEnds(complete) ==
  /\ backfill.version # 0
  /\ IF complete
     THEN backfill.batches < BatchCap /\ Page(backfill.cursor) = {}
     ELSE backfill.batches = BatchCap
  /\ stateFile' = backfill.cursor
  /\ overclaimed' = IF complete
                    THEN {i \in backfill.seen : <<i, backfill.version>> \notin tokens}
                    ELSE {}
  /\ backfill' = NoBackfill
  /\ UNCHANGED <<committed, tokens, replica, retirement, stranded>>

\* The process dies: committed batches stay, the state file keeps its old cursor.
BackfillCrashes ==
  /\ backfill.version # 0
  /\ backfill' = NoBackfill
  /\ UNCHANGED <<committed, tokens, replica, stateFile, retirement, overclaimed, stranded>>

\* The operator begins again with a fresh state file.
NewStateFile ==
  /\ backfill.version = 0
  /\ stateFile # 0
  /\ stateFile' = 0
  /\ UNCHANGED <<committed, tokens, replica, backfill, retirement, overclaimed, stranded>>

----------------------------------------------------------------------------
(* The retirement of an old key version                                    *)

\* retire_key_version: read the coverage of the active version.
StartRetirement(active, old) ==
  /\ retirement = NoRetirement
  /\ active # old
  /\ retirement' = [active |-> active, old |-> old, seen |-> committed,
                    covered |-> Covered(active)]
  /\ UNCHANGED <<committed, tokens, replica, stateFile, backfill, overclaimed, stranded>>

\* Mutant: the digests go without the coverage of the active version.
MayDeleteAnyway == TRUE

MayDelete == retirement.covered

\* --apply: the delete is a later statement and sees what committed in between.
ApplyRetirement ==
  LET old == retirement.old
  IN /\ retirement # NoRetirement
     /\ MayDelete
     /\ tokens' = {t \in tokens : t[2] # old}
     /\ replica' = [s \in Replicas |->
           [replica[s] EXCEPT !.recall.torn =
              @ \/ (replica[s].recall.phase = "checked" /\ replica[s].version = old)]]
     /\ backfill' = IF backfill.version = old THEN [backfill EXCEPT !.seen = {}] ELSE backfill
     /\ stranded' = {i \in retirement.seen : ~\E v \in KeyVersions : <<i, v>> \in tokens'}
     /\ retirement' = NoRetirement
     /\ UNCHANGED <<committed, stateFile, overclaimed>>

\* A dry run, a refusal (incomplete coverage, no privilege), or a crash.
AbandonRetirement ==
  /\ retirement # NoRetirement
  /\ retirement' = NoRetirement
  /\ UNCHANGED <<committed, tokens, replica, stateFile, backfill, overclaimed, stranded>>

Next ==
  \/ \E s \in Replicas : \/ \E v \in KeyVersions \cup {0} : Configure(s, v)
                         \/ \E i \in Created : Retain(s, i)
                         \/ \E q \in Queries : CheckCoverage(s, q)
                         \/ Answer(s)
  \/ \E v \in KeyVersions : StartBackfill(v)
  \/ BackfillBatch
  \/ \E complete \in BOOLEAN : BackfillEnds(complete)
  \/ BackfillCrashes
  \/ NewStateFile
  \/ \E active, old \in KeyVersions : StartRetirement(active, old)
  \/ ApplyRetirement
  \/ AbandonRetirement

Spec == Init /\ [][Next]_vars

----------------------------------------------------------------------------
(* Properties                                                              *)

TypeOK ==
  /\ committed \subseteq Created
  /\ tokens \subseteq Created \X KeyVersions
  /\ DOMAIN replica = Replicas
  /\ \A s \in Replicas : replica[s].version \in KeyVersions \cup {0}
  /\ stateFile \in Created \cup {0}
  /\ backfill.cursor \in Created \cup {0}
  /\ overclaimed \cup stranded \subseteq Created

\* A recall that found fewer rows than it may return has missed no matching
\* item committed before it began, whatever writers of other versions, an
\* unfinished backfill or an earlier retirement left in the index.  The
\* exception is the gap between the coverage check and the search: a
\* retirement of the recall's own version that commits in it takes the digests.
NothingMissed ==
  \A s \in Replicas :
    LET c == replica[s].recall
    IN c.phase = "answered" /\ ~c.torn => c.missed = {}

\* A complete report of a backfill that began with no cursor means what it
\* says of every item committed when the job began: it has the digests of the
\* job's version, unless that version was retired meanwhile.
CompleteMeansCovered == overclaimed = {}

\* A retirement takes no item it has seen out of the index altogether.
RetiredStaysIndexed == stranded = {}

\* The index speeds recall up and loses nothing: no recall misses a row, no
\* complete backfill leaves one behind, and no retirement strands one.
IndexLosesNothing == NothingMissed /\ CompleteMeansCovered /\ RetiredStaysIndexed

=============================================================================
