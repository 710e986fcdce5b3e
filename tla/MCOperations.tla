---------------------------- MODULE MCOperations ----------------------------
(***************************************************************************)
(* Model-checking instance of Operations.  The components share no state,  *)
(* so every reachable state of one of them is reached in a behaviour in    *)
(* which the others stay in an initial state: the variable part names the  *)
(* component that runs.  The embedding workers run twice, once without     *)
(* faults beside a reindex or migration and once with faults and without:  *)
(* maintenance touches nothing that transport does.                        *)
(***************************************************************************)
EXTENDS Operations

VARIABLE part

vars == <<part, operationsVars>>

PartNames == (Parts \ {"indexing"}) \cup {"reindexing", "redelivery"}
Component == IF part \in {"reindexing", "redelivery"} THEN "indexing" ELSE part

\* A component with one initial state waits in it; two others are told apart.
\* The thread of the access instance is at first the agent's the key is not bound to;
\* recall is forced where the mode alone would switch it off, and the modes differ
\* in one runtime only: the gate is the same code in all of them.
Init ==
  /\ part \in PartNames
  /\ OperationsInit
  /\ threadOwner = "a2"
  /\ part = "collection" \/ dimension = Unset
  /\ part = "agents" \/ <<runtime, mode, forced, session.live>> = <<"hermes", "off", FALSE, FALSE>>
  /\ forced => mode = "off"
  /\ mode = "adaptive" \/ runtime = "hermes"

Next ==
  /\ StepOf(Component) /\ OthersThan(Component)
  /\ part = "reindexing" => faults' = faults
  /\ part = "redelivery" => job' = job
  /\ UNCHANGED part

Spec == Init /\ [][Next]_vars

-----------------------------------------------------------------------------
(* The values of the constants that a .cfg cannot spell out.               *)

\* Two workers of one kind, so that one may answer for the other.
OneKind == [w \in MonitoredWorkers |-> "embedding"]

\* An item with two revisions, one of them private and one hidden.
ItemParent == [i \in Items |-> IF i = "m1" THEN "none" ELSE "m1"]
ItemOwner == [i \in Items |-> IF i = "m2" THEN "a" ELSE "none"]

\* An API on the old model, a worker on the new one, a migration to another size.
ProcessModel == [p \in Processes |-> IF p = "api" THEN "old" ELSE "new"]
ProcessDim == [p \in Processes |-> IF p = "mig" THEN 2 ELSE 1]

\* A server that is reconfigured in the middle of a key rotation.
ItemWords == <<{"x", "y"}, {"x"}>>

\* Item 2 replaces item 1; item 3 is in the core layer.
ItemSupersedes == <<0, 1, 0>>
LexicalScore == <<2, 0, 0>>
SemanticScore == <<3, 2, 1>>
ItemLayer == <<3, 3, 1>>
ItemTokens == <<1, 2, 2>>

\* Two events of one instant and a later one.
EventTimes == <<1, 1, 2>>

\* An editor beside the agents; texts with a patch fence, a heading and a system line.
NoteText == <<"fence json", "y">>
NoteTexts == {<<"x">>, <<"{", "x", "}", "y", "##", "x">>}

\* A text and a document of two pages, the first blank until the parser is
\* replaced; chunks with and without overlap.
Plain == << <<"x", ".", " ", "x", "x", " ", "n", "n", "x", " ">> >>
Pages == [d \in Documents |->
  IF d = "text"
  THEN <<Plain, Plain>>
  ELSE << << <<" ">>, <<"x", "x", "x", "x", "x">> >>,
          << <<"x">>, <<"x", ".", " ", "n", "x">> >> >>]
ChunkShapes == {[size |-> 4, overlap |-> 1], [size |-> 3, overlap |-> 0]}

\* A belief that is repeated, contradicted and then restored.
FactSlot == <<"s", "s", "s", "s">>
FactValue == <<"old", "old", "new", "old">>

\* Two runs of one session; a turn that succeeds and one that fails.
RunEvents == {[text |-> "x", error |-> "none"], [text |-> "x", error |-> "e"]}

\* An operator in a browser and an agent with a bound key; a configuration
\* that demotes the agent's key.
PerKey(op, ag) == [k \in ApiKeys |-> IF k = "op" THEN op ELSE ag]
KeyConfigs == {PerKey("operator", "agent"), PerKey("operator", "read")}
KeyBound == PerKey("none", "a1")
Ask(key, route, csrf, agent, thread, inside) ==
  [key |-> key, route |-> route, csrf |-> csrf, agent |-> agent,
   thread |-> thread, inside |-> inside]
ClientRequests == [c \in Clients |->
  IF c = "c1"
  THEN {Ask("none", "revoke", TRUE, "none", FALSE, TRUE),
        Ask("none", "revoke", FALSE, "none", FALSE, TRUE),
        Ask("none", "seed", FALSE, "none", FALSE, TRUE),
        Ask("op", "provision", FALSE, "a1", TRUE, TRUE)}
  ELSE {Ask("ag", "retain", FALSE, "a1", TRUE, TRUE),
        Ask("ag", "retain", FALSE, "a2", TRUE, TRUE),
        Ask("ag", "checkpoint", FALSE, "none", TRUE, FALSE),
        Ask("ag", "revoke", FALSE, "none", FALSE, TRUE)}]

\* Two reports, one of which may skip a step, of two builds and models.
Passed(skipped) == [failed |-> {}, skipped |-> skipped]
ReportOutcomes == [a \in Artifacts |->
  IF a = "embedding" THEN {Passed({})} ELSE {Passed({}), Passed({"model-settings-probe"})}]
=============================================================================
