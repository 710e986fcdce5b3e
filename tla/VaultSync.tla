------------------------------ MODULE VaultSync ------------------------------
(***************************************************************************)
(* The Markdown vault of one memory: editors export its notes, edit the    *)
(* bodies offline and import them back, archive them, or patch the memory  *)
(* directly, while agents supersede it through the API.  Every write is    *)
(* supersede_if_current: an idempotency key, then a compare-and-set on the *)
(* head of the revision chain.                                             *)
(*                                                                         *)
(* The chain is a sequence of immutable items; the index is both item id   *)
(* and revision.  A note is a file named after its item.                   *)
(***************************************************************************)
EXTENDS Naturals, Sequences
LOCAL INSTANCE SequencesExt

CONSTANTS Editors,    \* people with a checkout of the vault
          Texts,      \* texts people write: sequences of lines
          FirstText,  \* the text the memory was retained with
          MaxRev      \* bound: revisions of the memory

VARIABLES chain,      \* the items: text, status, and the item each one replaces
          keys,       \* idempotency keys used, and the item each one created
          note,       \* the note each editor has
          request,    \* the import, archive or patch an editor has in flight
          outcome     \* what the editor was last told

vars == <<chain, keys, note, request, outcome>>

(* The lines the parser tells apart from prose: a heading of a generated   *)
(* section, a line that looks like a system field or a vector, one that    *)
(* opens or ends a bracketed payload, one that opens or ends a fence.      *)
Heading == "##"
Field == "status: ..."
Open == "{"
Close == "}"
FenceOpen == "fence json"
Fence == "fence"
Empty == <<>>

(* _sanitize_editable_body: drops such lines and, from an opening line on, *)
(* everything up to the end of the payload or fence, if there is one.      *)
SanitizeLine(st, line) ==
  IF st.fence THEN [st EXCEPT !.fence = line \notin {Fence, FenceOpen}]
  ELSE IF st.depth > 0
       THEN [st EXCEPT !.depth = @ + (IF line = Open THEN 1 ELSE 0) - (IF line = Close THEN 1 ELSE 0)]
  ELSE CASE line = FenceOpen -> [st EXCEPT !.fence = TRUE]
         [] line = Open -> [st EXCEPT !.depth = 1]
         [] line \in {Heading, Field} -> st
         [] OTHER -> [st EXCEPT !.kept = Append(@, line)]
Sanitized(text) ==
  FoldLeft(SanitizeLine, [kept |-> Empty, fence |-> FALSE, depth |-> 0], text).kept

(* _parse_markdown_note: the body ends at the first generated section.     *)
BeforeHeading(lines) ==
  LET ends == {i \in DOMAIN lines : lines[i] = Heading}
  IN  IF ends = {} THEN lines
      ELSE SubSeq(lines, 1, (CHOOSE i \in ends : \A j \in ends : i <= j) - 1)
ParsedBody(note_lines) == Sanitized(BeforeHeading(note_lines))

Revs == 1..MaxRev
Key(kind, i, t) == <<kind, i, t>>
Latest == Len(chain)
NoNote == [item |-> 0, status |-> "none", body |-> Empty]
NoRequest == [kind |-> "none", item |-> 0, text |-> Empty]
NoOutcome == [action |-> "none", item |-> 0, new |-> 0, text |-> Empty, created |-> FALSE]

TypeOK ==
  /\ Latest \in Revs
  /\ \A i \in 1..Latest : chain[i].status \in {"active", "archived"} /\ chain[i].base \in 0..Latest
  /\ \A k \in DOMAIN keys : k[1] \in {"import", "archive", "patch"} /\ keys[k] \in 1..Latest
  /\ \A e \in Editors :
       /\ note[e].item \in 0..Latest
       /\ note[e].status \in {"none", "active", "archived", "superseded"}
       /\ request[e].kind \in {"none", "import", "archive", "patch"}
       /\ {request[e].item, outcome[e].item, outcome[e].new} \subseteq 0..Latest
       /\ outcome[e].action \in {"none", "skip", "unchanged", "error", "conflict",
                                 "import", "archive", "patch"}

Init ==
  /\ chain = <<[text |-> FirstText, status |-> "active", base |-> 0]>>
  /\ keys = <<>>
  /\ note = [e \in Editors |-> NoNote]
  /\ request = [e \in Editors |-> NoRequest]
  /\ outcome = [e \in Editors |-> NoOutcome]

-----------------------------------------------------------------------------
(* The export renders every item, an older one as superseded.              *)
ExportedStatus(i) == IF i < Latest THEN "superseded" ELSE chain[i].status

Export(e, i) ==
  /\ request[e] = NoRequest
  /\ note' = [note EXCEPT ![e] = [item |-> i, status |-> ExportedStatus(i),
                                  body |-> chain[i].text]]
  /\ outcome' = [outcome EXCEPT ![e] = NoOutcome]
  /\ UNCHANGED <<chain, keys, request>>

Edit(e, t) ==
  /\ note[e] # NoNote /\ request[e] = NoRequest /\ note[e].body # t
  /\ note' = [note EXCEPT ![e].body = t]
  /\ UNCHANGED <<chain, keys, request, outcome>>

Told(e, action) == outcome' = [outcome EXCEPT ![e] = [NoOutcome EXCEPT !.action = action]]

(* _plan_file_import: the item's own revision never changes, so a stale    *)
(* note is only found out when the change is applied.                      *)
Plan(e, action, kind) ==
  /\ note[e] # NoNote /\ request[e] = NoRequest
  /\ IF action = kind
     THEN /\ request' = [request EXCEPT ![e] = [kind |-> kind, item |-> note[e].item,
                                                text |-> ParsedBody(note[e].body)]]
          /\ outcome' = [outcome EXCEPT ![e] = NoOutcome]
     ELSE Told(e, action) /\ UNCHANGED request
  /\ note' = [note EXCEPT ![e] = NoNote]
  /\ UNCHANGED <<chain, keys>>

ImportAction(n) ==
  IF n.status = "superseded" THEN "skip"
  ELSE IF chain[n.item].text = ParsedBody(n.body) THEN "unchanged" ELSE "import"
PlanImport(e) == Plan(e, ImportAction(note[e]), "import")

ArchiveAction(n) == IF n.status \in {"archived", "superseded"} THEN "unchanged" ELSE "archive"
PlanArchive(e) == Plan(e, ArchiveAction(note[e]), "archive")

(* patch_memory names an item and its revision, no note.                   *)
PlanPatch(e, i, t) ==
  /\ request[e] = NoRequest
  /\ chain[i].status # "archived" /\ Sanitized(t) \notin {Empty, chain[i].text}
  /\ request' = [request EXCEPT ![e] = [kind |-> "patch", item |-> i, text |-> Sanitized(t)]]
  /\ note' = [note EXCEPT ![e] = NoNote]
  /\ outcome' = [outcome EXCEPT ![e] = NoOutcome]
  /\ UNCHANGED <<chain, keys>>

-----------------------------------------------------------------------------
(* Imports and archives are keyed by file and revision, patches by what    *)
(* they produce too.                                                       *)
ImportKey(r) == Key(r.kind, r.item, Empty)
\* Mutant: a patch is keyed by item and revision alone.
PatchKeyPlain(r) == Key(r.kind, r.item, Empty)

PatchKey(r) == Key(r.kind, r.item, r.text)
KeyOf(r) == IF r.kind = "patch" THEN PatchKey(r) ELSE ImportKey(r)

\* Mutant: a text edit makes the memory active again.
StatusAfterActive(i, kind) == IF kind = "archive" THEN "archived" ELSE "active"

(* MemoryItem.supersede keeps the status unless the archive sets it.       *)
StatusAfter(i, kind) == IF kind = "archive" THEN "archived" ELSE chain[i].status

\* Mutant: the item's own revision is compared, which always matches.
IsHeadByRevision(i) == chain[i].base + 1 = i

(* The compare-and-set: the item must be the head of its chain.            *)
IsHead(i) == i = Latest

(* The editor is told, or the reply is lost and the request is sent again. *)
Replied(e, reply) ==
  \/ /\ outcome' = [outcome EXCEPT ![e] = reply]
     /\ request' = [request EXCEPT ![e] = NoRequest]
  \/ UNCHANGED <<outcome, request>>
Made(r, new, created) ==
  [action |-> r.kind, item |-> r.item, new |-> new, text |-> r.text, created |-> created]

(* supersede_if_current for the request in flight.  An empty text is       *)
(* refused before the transaction and aborts the whole import.             *)
Apply(e) ==
  LET r == request[e]
      k == KeyOf(r) IN
  /\ r # NoRequest
  /\ \/ /\ r.text = Empty
        /\ Replied(e, [NoOutcome EXCEPT !.action = "error"])
        /\ UNCHANGED <<chain, keys>>
     \/ /\ r.text # Empty /\ k \in DOMAIN keys
        /\ Replied(e, Made(r, keys[k], FALSE))
        /\ UNCHANGED <<chain, keys>>
     \/ /\ r.text # Empty /\ k \notin DOMAIN keys /\ ~IsHead(r.item)
        /\ Replied(e, [NoOutcome EXCEPT !.action = "conflict"])
        /\ UNCHANGED <<chain, keys>>
     \/ /\ r.text # Empty /\ k \notin DOMAIN keys /\ IsHead(r.item) /\ Latest < MaxRev
        /\ chain' = Append(chain, [text |-> r.text, status |-> StatusAfter(r.item, r.kind),
                                   base |-> r.item])
        /\ keys' = [x \in DOMAIN keys \cup {k} |-> IF x = k THEN Latest + 1 ELSE keys[x]]
        /\ Replied(e, Made(r, Latest + 1, TRUE))
  /\ UNCHANGED <<note>>

(* The request is lost before it is applied: an earlier file of the import *)
(* raised, or the connection broke.                                        *)
Abort(e) ==
  /\ request[e] # NoRequest
  /\ request' = [request EXCEPT ![e] = NoRequest]
  /\ UNCHANGED <<chain, keys, note, outcome>>

(* An agent supersedes the head through the API, without a key.            *)
AgentSupersede(t) ==
  /\ Latest < MaxRev /\ t # Empty
  /\ chain' = Append(chain, [text |-> t, status |-> chain[Latest].status, base |-> Latest])
  /\ UNCHANGED <<keys, note, request, outcome>>

Next ==
  \/ \E e \in Editors, i \in 1..Latest : Export(e, i)
  \/ \E e \in Editors, t \in Texts : Edit(e, t)
  \/ \E e \in Editors : PlanImport(e) \/ PlanArchive(e) \/ Apply(e) \/ Abort(e)
  \/ \E e \in Editors, i \in 1..Latest, t \in Texts : PlanPatch(e, i, t)
  \/ \E t \in Texts : AgentSupersede(t)

Spec == Init /\ [][Next]_vars

-----------------------------------------------------------------------------
(* VaultHealthService: every replacement's revision follows its parent's.  *)
Healthy == \A i \in 2..Latest : chain[i].base + 1 = i

(* No edit is taken for another one and no history is rewritten: every     *)
(* revision replaces the head of its moment, an archived memory stays      *)
(* archived, and an editor told that a change was made finds the text in   *)
(* the item named - for patches and archives always, for an import unless  *)
(* an earlier import of the same note answered for it, in which case the   *)
(* item named still replaces the note's own (apply_import, archive_file,   *)
(* patch_memory, supersede_if_current).                                    *)
VaultEditsKept ==
  /\ Healthy
  /\ \A i \in 2..Latest : chain[i - 1].status = "archived" => chain[i].status = "archived"
  /\ \A e \in Editors :
       LET o == outcome[e] IN
       /\ o.action \in {"import", "archive", "patch"} => chain[o.new].base = o.item
       /\ o.action = "patch" \/ o.created => chain[o.new].text = o.text
       /\ o.action = "archive" => chain[o.new].status = "archived"
=============================================================================
