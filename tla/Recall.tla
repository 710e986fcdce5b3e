------------------------------- MODULE Recall -------------------------------
(***************************************************************************)
(* One recall of a workspace, from the sources to the agent's context, and *)
(* one session seed, beside writers that supersede items and workers that  *)
(* index them.  A recall reads the database and the vector index in five   *)
(* separate steps and has no snapshot over them: the lexical search, the   *)
(* vector query, the check of its rows against the ledger, the freshness   *)
(* of the index and the audit record.  A seed reads a list and then asks   *)
(* for every row of it whether it is still current.                        *)
(*                                                                         *)
(* An item is its creation time.  Its signals are natural numbers; those   *)
(* that every source computes alike are left out of the score.             *)
(***************************************************************************)
EXTENDS Naturals, FiniteSets, FiniteSetsExt

CONSTANTS Memories,    \* the items, by creation time: positive numbers
          Supersedes,  \* the item each one replaces, or 0
          Lexical,     \* its overlap with the query
          Semantic,    \* its similarity to the query
          LayerOf,     \* the place of its layer in the recipe: 1 core, 2 working, ...
          SeedLayers,  \* the places of the layers a seed reads
          Tokens,      \* estimate_tokens of its text
          TopK,        \* top_k
          MinScore,    \* minimum_score
          PerLayer,    \* context_per_layer_limit
          Budget       \* context_budget_tokens, and the seed's budget

VARIABLES memories,    \* the items in the ledger
          embedded,    \* the items whose embed-v1 delivery is complete
          points,      \* the items in the vector index
          health,      \* the source health the readiness probe reports
          call,        \* the recall in progress or answered
          event,       \* the context in the audit event this recall recorded
          seed         \* the seed in progress or answered

vars == <<memories, embedded, points, health, call, event, seed>>

Current(i) == i \in memories /\ \A c \in memories : Supersedes[c] # i
CurrentHeads == {i \in memories : Current(i)}

NoCall == [pc |-> "idle", began |-> {}, gone |-> {}, lexical |-> {}, rows |-> {}, vector |-> {},
           used |-> FALSE, behind |-> {}, selected |-> {}, stale |-> FALSE, context |-> {}]
NoSeed == [pc |-> "idle", began |-> {}, rows |-> {}, todo |-> {}, items |-> {}]

Init ==
  /\ memories = {}
  /\ embedded = {}
  /\ points = {}
  /\ health = [lexical |-> "healthy", vector |-> "healthy"]
  /\ call = NoCall
  /\ event = {}
  /\ seed = NoSeed

-----------------------------------------------------------------------------
(* The writers and the embedding workers.                                  *)
Retain(i) ==
  /\ i \notin memories
  /\ Supersedes[i] = 0 \/ Current(Supersedes[i])
  /\ memories' = memories \cup {i}
  /\ UNCHANGED <<embedded, points, health, call, event, seed>>

\* The worker indexes an item and drops the one it replaces, in any order of items.
\* A recall that has queried the index has not seen it (history).
Embed(i) ==
  /\ i \in memories \ embedded
  /\ embedded' = embedded \cup {i}
  /\ points' = (points \cup {i}) \ {Supersedes[i]}
  /\ call' = IF call.pc \in {"queried", "gathered"} THEN [call EXCEPT !.behind = @ \cup {i}] ELSE call
  /\ UNCHANGED <<memories, health, event, seed>>

-----------------------------------------------------------------------------
(* RetrievalService.recall                                                 *)

\* The n best members of S by value, the newer of two equal ones first.
Best(S, n, value) ==
  {i \in S : Cardinality({j \in S : \/ value[j] > value[i]
                                    \/ value[j] = value[i] /\ j > i}) < n}

\* Mutant: a superseded item is a lexical candidate.
LexicalRowsAny == {i \in memories : Lexical[i] > 0 \/ LayerOf[i] <= 2}

\* Current items that match, and all of the core and working layers.
LexicalRows == {i \in CurrentHeads : Lexical[i] > 0 \/ LayerOf[i] <= 2}

\* The required source; its answer opens the recall.
LexicalSearch ==
  /\ call.pc \in {"idle", "answered"}
  /\ call' = [NoCall EXCEPT !.pc = "lexical", !.began = CurrentHeads,
                            !.gone = memories \ CurrentHeads,
                            !.lexical = Best(LexicalRows, 3 * TopK, Lexical)]
  /\ health' = [health EXCEPT !.lexical = "healthy"]
  /\ event' = {}
  /\ UNCHANGED <<memories, embedded, points, seed>>

\* Without it the request fails.
LexicalFails ==
  /\ call.pc \in {"idle", "answered"}
  /\ call' = NoCall
  /\ health' = [health EXCEPT !.lexical = "failed"]
  /\ event' = {}
  /\ UNCHANGED <<memories, embedded, points, seed>>

\* The vector query; behind is what the index held beyond the rows (history).
VectorQuery ==
  LET rows == Best(points, 3 * TopK, Semantic)
  IN /\ call.pc = "lexical"
     /\ call' = [call EXCEPT !.pc = "queried", !.rows = rows, !.behind = points \ rows]
     /\ UNCHANGED <<memories, embedded, points, health, event, seed>>

\* Mutant: the rows of the index are trusted.
StillCurrentAny(rows) == rows

\* _recallable_head_ids: the ledger decides which rows are current.
StillCurrent(rows) == {i \in rows : Current(i)}

VectorFilter ==
  LET vector == Best(StillCurrent(call.rows), TopK, Semantic)
  IN /\ call.pc = "queried"
     /\ call' = [call EXCEPT !.pc = "gathered", !.used = TRUE, !.rows = {}, !.vector = vector,
                             !.behind = @ \cup (StillCurrent(call.rows) \ vector)]
     /\ health' = [health EXCEPT !.vector = "healthy"]
     /\ UNCHANGED <<memories, embedded, points, event, seed>>

\* The optional source fails at either step: the recall goes on without it.
VectorFails ==
  /\ call.pc \in {"lexical", "queried"}
  /\ call' = [call EXCEPT !.pc = "gathered", !.rows = {}]
  /\ health' = [health EXCEPT !.vector = "degraded"]
  /\ UNCHANGED <<memories, embedded, points, event, seed>>

\* _fuse: each signal is the strongest any source gave.
Score(i) == Lexical[i] + (IF i \in call.vector THEN Semantic[i] ELSE 0)
Scores == [i \in Memories |-> Score(i)]

\* Fuse and select, then read the freshness of the index.
FuseAndCheck ==
  LET ranked == {i \in call.lexical \cup call.vector : Score(i) >= MinScore}
  IN /\ call.pc = "gathered"
     /\ call' = [call EXCEPT !.pc = "fused", !.selected = Best(ranked, TopK, Scores),
                             !.stale = ~(CurrentHeads \subseteq embedded)]
     /\ UNCHANGED <<memories, embedded, points, health, event, seed>>

\* Freshness cannot be read: it is reported as stale.
FuseUnchecked ==
  LET ranked == {i \in call.lexical \cup call.vector : Score(i) >= MinScore}
  IN /\ call.pc = "gathered"
     /\ call' = [call EXCEPT !.pc = "fused", !.selected = Best(ranked, TopK, Scores),
                             !.stale = TRUE]
     /\ UNCHANGED <<memories, embedded, points, health, event, seed>>

-----------------------------------------------------------------------------
(* ContextCompiler.compile                                                 *)

\* used: the tokens of the items of S.
Spent(S) == Cardinality(UNION {{i} \X (1..Tokens[i]) : i \in S})

\* Mutant: the budget is compared before the item's cost is added.
FitsBefore(S, i) == Spent(S) <= Budget

\* Item i fits beside those of S.
Fits(S, i) == Spent(S) + Tokens[i] <= Budget

\* The items of S in the layer of i fill it.
LayerFull(S, i) == Cardinality({j \in S : LayerOf[j] = LayerOf[i]}) >= PerLayer

\* The layers in the recipe's order, the best item of each first.
Ahead(j, i) ==
  \/ LayerOf[j] < LayerOf[i]
  \/ /\ LayerOf[j] = LayerOf[i]
     /\ Score(j) > Score(i) \/ (Score(j) = Score(i) /\ j > i)

\* Each item in turn is taken, unless those taken ahead of it fill its layer or
\* leave no room; the loop goes on either way.
Compile(S) ==
  CHOOSE taken \in SUBSET S :
    \A i \in S : LET before == {j \in taken : Ahead(j, i)}
                 IN i \in taken <=> ~LayerFull(before, i) /\ Fits(before, i)

\* The response is given once its audit event is stored.
Respond ==
  LET context == Compile(call.selected)
  IN /\ call.pc = "fused"
     /\ event' = context
     /\ call' = [call EXCEPT !.pc = "answered", !.context = context,
                             !.lexical = {}, !.vector = {}]
     /\ UNCHANGED <<memories, embedded, points, health, seed>>

\* Without the audit event there is no response.
AuditFails ==
  /\ call.pc = "fused"
  /\ call' = NoCall
  /\ UNCHANGED <<memories, embedded, points, health, event, seed>>

\* RecallReplayService.get: the items of the event the ledger still has.
Replay == event \cap memories

-----------------------------------------------------------------------------
(* SessionSeedService.build                                                *)
SeedList ==
  LET rows == {i \in memories : LayerOf[i] \in SeedLayers}
  IN /\ seed.pc \in {"idle", "answered"}
     /\ seed' = [NoSeed EXCEPT !.pc = "checking", !.began = CurrentHeads, !.todo = rows]
     /\ UNCHANGED <<memories, embedded, points, health, call, event>>

\* The newest item first, and again those that fit beside the ones taken before.
SeedOf(rows) ==
  CHOOSE taken \in SUBSET rows :
    \A i \in rows : i \in taken <=> Fits({j \in taken : j > i}, i)

\* is_recallable_head, in a transaction of its own for every row.
SeedCheck ==
  /\ seed.pc = "checking" /\ seed.todo # {}
  /\ LET i == Min(seed.todo)
     IN seed' = [seed EXCEPT !.todo = @ \ {i},
                             !.rows = IF Current(i) THEN @ \cup {i} ELSE @]
  /\ UNCHANGED <<memories, embedded, points, health, call, event>>

SeedBuild ==
  /\ seed.pc = "checking" /\ seed.todo = {}
  /\ seed' = [seed EXCEPT !.pc = "answered", !.rows = {},
                         !.items = SeedOf(seed.rows)]
  /\ UNCHANGED <<memories, embedded, points, health, call, event>>

Next ==
  \/ \E i \in Memories : Retain(i) \/ Embed(i)
  \/ LexicalSearch \/ LexicalFails
  \/ VectorQuery \/ VectorFilter \/ VectorFails
  \/ FuseAndCheck \/ FuseUnchecked
  \/ Respond \/ AuditFails
  \/ SeedList \/ SeedCheck \/ SeedBuild

Spec == Init /\ [][Next]_vars

-----------------------------------------------------------------------------
TypeOK ==
  /\ memories \subseteq Memories
  /\ embedded \subseteq memories
  /\ points \subseteq embedded
  /\ call.pc \in {"idle", "lexical", "queried", "gathered", "fused", "answered"}
  /\ call.selected \cup call.lexical \cup call.rows \cup call.vector \subseteq Memories
  /\ seed.pc \in {"idle", "checking", "answered"}

\* Nothing that had been superseded when the recall began is in its answer,
\* whatever the index still holds of it.
NothingSuperseded == call.selected \cap call.gone = {}

\* A recall that used the vector index and reports it fresh has every item that
\* was current throughout, unless its answer is full, the item scores too low,
\* better rows crowded it out of the index's answer, or it was indexed between
\* the query and the freshness check.
FreshIsComplete ==
  call.pc = "answered" /\ call.used /\ ~call.stale /\ Cardinality(call.selected) < TopK =>
    \A i \in (call.began \cap CurrentHeads) \ (call.selected \cup call.behind) :
      Lexical[i] + Semantic[i] < MinScore

\* The context keeps its budget and the limits of its layers, leaves out a selected
\* item only for these, and its replay names exactly the items the agent was given.
ContextKeepsBudget ==
  call.pc = "answered" =>
    /\ Spent(call.context) <= Budget /\ call.context \subseteq call.selected
    /\ \A i \in call.selected :
         /\ Cardinality({j \in call.context : LayerOf[j] = LayerOf[i]}) <= PerLayer
         /\ i \in call.context \/ LayerFull(call.context, i) \/ ~Fits(call.context, i)
    /\ Replay = call.context

\* A seed keeps its budget, and an item of its layers that was current from
\* the listing on is in it unless it does not fit beside the others.
SeedIsCurrent ==
  seed.pc = "answered" =>
    /\ Spent(seed.items) <= Budget
    /\ \A i \in (seed.began \cap CurrentHeads) \ seed.items :
         LayerOf[i] \in SeedLayers => ~Fits(seed.items, i)

\* What an agent is told is current, and complete as far as it is called fresh, ...
RecallHonest == NothingSuperseded /\ FreshIsComplete

\* ... within its budget, and what the audit trail will say it was told.
AnswersFit == ContextKeepsBudget /\ SeedIsCurrent
=============================================================================
