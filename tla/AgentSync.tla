------------------------------ MODULE AgentSync ------------------------------
(***************************************************************************)
(* One session of an agent runtime with the memory plugin: the Hermes      *)
(* provider, the OpenClaw plugin, the OpenClaw CLI wrapper or the runtime- *)
(* neutral plugin.  A run recalls through the gate, calls tools, ends and  *)
(* is recorded by posts to the server.  A post may be lost on the way, or  *)
(* its reply may be; the plugins never retry, and the server answers a     *)
(* known idempotency key with the record it has.                           *)
(*                                                                         *)
(* A query is the set of the phrases the gate looks for that it contains.  *)
(* An event is its text and its error; "none" is no error.                 *)
(***************************************************************************)
EXTENDS Naturals, FiniteSets

CONSTANTS Runs,      \* runs of the session, each with its own runId
          Queries,   \* user turns
          Events     \* what tools and runs produce: [text, error]

VARIABLES runtime,   \* which plugin
          mode,      \* UAM_RECALL_MODE
          forced,    \* force_full_recall
          session,   \* has_live_context as the plugin sees it, and as it is
          agentRun,  \* each run's progress
          stored,    \* the server's records by idempotency key
          told       \* what the runtime was told is stored (history)

vars == <<runtime, mode, forced, session, agentRun, stored, told>>

Runtimes == {"hermes", "openclaw", "cli", "native"}
Phrases == {"memory", "continuation", "trivial", "blank"}
NoEvent == [text |-> "none", error |-> "none"]
Fresh == [pc |-> "new", query |-> {}, skipped |-> FALSE, live |-> "unknown",
          called |-> FALSE, event |-> NoEvent]
Kinds == {"tool", "turn", "summary"}
Keys == [kind : Kinds, scope : Runs \cup {"session", "any"},
         text : {e.text : e \in Events}, error : {e.error : e \in Events}]

TypeOK ==
  /\ runtime \in Runtimes /\ mode \in {"off", "adaptive", "always"} /\ forced \in BOOLEAN
  /\ session \in [live : BOOLEAN, turns : 0..Cardinality(Runs), declared : BOOLEAN]
  /\ agentRun \in [Runs -> [pc : {"new", "recall", "reason", "tool", "turn", "summary", "over"},
                            query : SUBSET Phrases, skipped : BOOLEAN, live : {"yes", "no", "unknown"},
                            called : BOOLEAN, event : Events \cup {NoEvent}]]
  /\ DOMAIN stored \subseteq Keys
  /\ \A k \in DOMAIN stored : stored[k] \in Events
  /\ told \subseteq Keys \X Events

Init ==
  /\ runtime \in Runtimes /\ mode \in {"off", "adaptive", "always"} /\ forced \in BOOLEAN
  /\ \E declared \in BOOLEAN :
       session = [live |-> declared, turns |-> 0, declared |-> declared]
  /\ agentRun = [r \in Runs |-> Fresh]
  /\ stored = [k \in {} |-> NoEvent] /\ told = {}

-----------------------------------------------------------------------------
(* evaluate_recall_gate: the rules in order, the first that applies wins.  *)
Forced(q) == "blank" \notin q /\ (forced \/ mode = "always")
Suppressed(q) == "blank" \in q \/ (~forced /\ mode = "off")
MentionsMemory(q) == "memory" \in q
Continues(q) == "continuation" \in q
SelfSufficient(q) == "trivial" \in q    \* greeting, sum, translation, short, self-contained

\* Mutant: the rules for turns that need no memory come first.
GateSkipsFirst(q, live) ==
  Forced(q) \/ (~Suppressed(q) /\ ~SelfSufficient(q) /\ (MentionsMemory(q) \/ ~Continues(q) \/ live = "no"))

Gate(q, live) ==
  \/ Forced(q)
  \/ /\ ~Suppressed(q)
     /\ \/ MentionsMemory(q)
        \/ IF Continues(q) THEN live = "no" ELSE ~SelfSufficient(q)

(* The wrapper recalls for every message; the others go through the gate.  *)
ShouldRecall(q, live) == runtime = "cli" \/ Gate(q, live)

(* Hermes serves one turn at a time, the hooks of the others are async.    *)
MayBegin == runtime = "hermes" => \A r \in Runs : agentRun[r].pc \in {"new", "over"}

(* What has_live_context can be: the provider's flag, whether the host has *)
(* messages of an earlier run, or nothing where the host says nothing.     *)
Lives ==
  LET known == IF runtime = "hermes" THEN session.live ELSE session.declared \/ session.turns > 0
  IN {IF known THEN "yes" ELSE "no"}
       \cup (IF runtime \in {"openclaw", "native"} THEN {"unknown"} ELSE {})

Begin(r, q) ==
  /\ agentRun[r].pc = "new" /\ MayBegin
  /\ \E live \in Lives :
       LET go == ShouldRecall(q, live) IN
       agentRun' = [agentRun EXCEPT ![r] = [Fresh EXCEPT !.pc = IF go THEN "recall" ELSE "reason",
                                                         !.query = q, !.skipped = ~go, !.live = live]]
  /\ UNCHANGED <<runtime, mode, forced, session, stored, told>>

(* The answer, an empty answer, or a failure: the plugins go on without    *)
(* memory, the neutral core raises and the host does not start the run.    *)
Recalled(r) ==
  /\ agentRun[r].pc = "recall"
  /\ \E pc \in {"reason", IF runtime = "native" THEN "over" ELSE "reason"} :
       agentRun' = [agentRun EXCEPT ![r].pc = pc]
  /\ UNCHANGED <<runtime, mode, forced, session, stored, told>>

-----------------------------------------------------------------------------
(* Idempotency keys: kind and scope, and a digest of the text.             *)
Scope(r, kind) == CASE runtime = "openclaw" -> r
                    [] runtime = "cli" \/ (runtime = "hermes" /\ kind = "tool") -> "any"
                    [] OTHER -> "session"
(* The neutral core digests the event's text without its error.            *)
Digested(e) == IF runtime = "native" THEN [e EXCEPT !.error = "none"] ELSE e

\* Mutant: every plugin leaves the error out of the digest.
KeyOfTextOnly(kind, r, e) ==
  [kind |-> kind, scope |-> Scope(r, kind), text |-> e.text, error |-> "none"]

KeyOf(kind, r, e) ==
  [kind |-> kind, scope |-> Scope(r, kind), text |-> Digested(e).text, error |-> Digested(e).error]

(* The server stores under a new key and answers a known one.              *)
Accept(k, e) == stored' = [x \in DOMAIN stored \cup {k} |-> IF x \in DOMAIN stored THEN stored[x] ELSE e]

(* Answered; applied but the reply lost; or lost on the way.               *)
Post(kind, r, e, onOk, onFailure) ==
  LET k == KeyOf(kind, r, e) IN
  \/ /\ Accept(k, e) /\ told' = told \cup {<<k, e>>}
     /\ agentRun' = [agentRun EXCEPT ![r].pc = onOk]
  \/ /\ Accept(k, e) /\ UNCHANGED told
     /\ agentRun' = [agentRun EXCEPT ![r].pc = onFailure]
  \/ /\ UNCHANGED <<stored, told>>
     /\ agentRun' = [agentRun EXCEPT ![r].pc = onFailure]

(* A proposal, a tool trace or an event; the wrapper sees none.  Whatever  *)
(* comes of the post, the run goes on.  Bound: one call per run.           *)
ToolCall(r, e) ==
  /\ agentRun[r].pc = "reason" /\ runtime # "cli" /\ ~agentRun[r].called
  /\ agentRun' = [agentRun EXCEPT ![r] = [Fresh EXCEPT !.pc = "tool", !.called = TRUE, !.event = e]]
  /\ UNCHANGED <<runtime, mode, forced, session, stored, told>>

Tool(r) ==
  /\ agentRun[r].pc = "tool"
  /\ Post("tool", r, agentRun[r].event, "reason", "reason")
  /\ UNCHANGED <<runtime, mode, forced, session>>

(* The run ends: sync_turn, agent_end or the wrapper's exit with success.  *)
(* Hermes notes the live context before it posts.                          *)
FirstPost == IF runtime \in {"hermes", "openclaw"} THEN "turn" ELSE "summary"
Finish(r, e) ==
  /\ agentRun[r].pc = "reason"
  /\ agentRun' = [agentRun EXCEPT ![r] = [Fresh EXCEPT !.pc = FirstPost, !.event = e]]
  /\ session' = [session EXCEPT !.live = TRUE, !.turns = @ + 1]
  /\ UNCHANGED <<runtime, mode, forced, stored, told>>

(* The run fails: nothing is recorded.                                     *)
RunFails(r) ==
  /\ agentRun[r].pc = "reason"
  /\ agentRun' = [agentRun EXCEPT ![r] = [Fresh EXCEPT !.pc = "over"]]
  /\ UNCHANGED <<runtime, mode, forced, session, stored, told>>

\* Mutant: the summary is posted even if the transcript was not.
AppendTurnAnyway(r) == Post("turn", r, agentRun[r].event, "summary", "summary")

(* OpenClaw posts the summary after the transcript, in one try block.      *)
AppendTurn(r) == Post("turn", r, agentRun[r].event,
                      IF runtime = "openclaw" THEN "summary" ELSE "over", "over")
Turn(r) ==
  /\ agentRun[r].pc = "turn"
  /\ AppendTurn(r)
  /\ UNCHANGED <<runtime, mode, forced, session>>

Summary(r) ==
  /\ agentRun[r].pc = "summary"
  /\ Post("summary", r, agentRun[r].event, "over", "over")
  /\ UNCHANGED <<runtime, mode, forced, session>>

(* Hermes' on_session_end summarises the last messages; a new initialize   *)
(* forgets the live context unless the host declares it.                   *)
SessionEnd(r, declared) ==
  /\ runtime = "hermes" /\ agentRun[r].pc = "over" /\ agentRun[r].event # NoEvent
  /\ \A q \in Runs : agentRun[q].pc \in {"new", "over"}
  /\ Post("summary", r, agentRun[r].event, "over", "over")
  /\ session' = [live |-> declared, turns |-> 0, declared |-> declared]
  /\ UNCHANGED <<runtime, mode, forced>>

Next ==
  \E r \in Runs :
    \/ \E q \in Queries : Begin(r, q)
    \/ \E e \in Events : ToolCall(r, e) \/ Finish(r, e)
    \/ Recalled(r) \/ Tool(r) \/ RunFails(r) \/ Turn(r) \/ Summary(r)
    \/ \E declared \in BOOLEAN : SessionEnd(r, declared)

Spec == Init /\ [][Next]_vars

-----------------------------------------------------------------------------
(* What a runtime was told is stored is stored, the neutral core's errors  *)
(* apart; OpenClaw's summary of a run is stored only with its transcript;  *)
(* a turn that mentions memory is answered without recall only where       *)
(* recall is switched off, and one that continues only with an earlier     *)
(* turn in context or under a host that does not say                       *)
(* (_event_idempotency_key, agent_end of index.js, evaluate_recall_gate,   *)
(* sync_turn).                                                             *)
AgentMemoryKept ==
  /\ \A p \in told :
       /\ p[1] \in DOMAIN stored
       /\ stored[p[1]].text = p[2].text
       /\ runtime # "native" => stored[p[1]] = p[2]
  /\ runtime = "openclaw" =>
       \A k \in DOMAIN stored : k.kind = "summary" =>
         \E j \in DOMAIN stored : j.kind = "turn" /\ j.scope = k.scope
  /\ \A r \in Runs :
       LET a == agentRun[r] IN
       a.skipped /\ "blank" \notin a.query /\ (forced \/ mode # "off") =>
         /\ "memory" \notin a.query
         /\ a.query = {"continuation"} => a.live # "no"
  /\ session.live => session.declared \/ session.turns > 0
=============================================================================
