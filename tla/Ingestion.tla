------------------------------ MODULE Ingestion ------------------------------
(***************************************************************************)
(* Ingestion of documents: the text of each page is cut into overlapping   *)
(* chunks and every chunk is retained under a key of its place in the      *)
(* document.  A call may fail after any of its retains and is repeated by  *)
(* the client, perhaps with other chunk sizes; the parser that extracts    *)
(* the pages may be replaced while the documents' checksums stay.          *)
(*                                                                         *)
(* A text is a sequence of marks: "x" a letter, "." a full stop, " " a     *)
(* space and "n" a line end.  Offsets count from 0, as in the code.        *)
(***************************************************************************)
EXTENDS Integers, Sequences, FiniteSets, SequencesExt

CONSTANTS Documents,   \* documents, each its own checksum and origin
          PagesOf,     \* PagesOf[d][v]: the pages that parser version v extracts
          Shapes,      \* [size, overlap] of the chunks
          Callers,     \* clients of the ingestion endpoints
          MaxCalls     \* bound on the calls each client makes

VARIABLES parser,      \* version of the parser, 1 or 2
          chunks,      \* memories by idempotency key: text and parser version
          call,        \* each client's call
          ingested     \* finished calls: document, shape, parser version (history)

vars == <<parser, chunks, call, ingested>>

-----------------------------------------------------------------------------
Blank == {" ", "n"}

(* str.strip *)
Strip(t) ==
  LET solid == {i \in DOMAIN t : t[i] \notin Blank} IN
  IF solid = {} THEN <<>> ELSE SubSeq(t, Min(solid), Max(solid))

(* Spaces before a line end go, and the blanks around the whole text.      *)
Normalized(text) ==
  LET t == Strip(text)
      Trails(i) == \E j \in i + 1 .. Len(t) : t[j] = "n" /\ \A k \in i .. j - 1 : t[k] = " "
      kept == SelectSeq([i \in DOMAIN t |-> i], LAMBDA i : ~Trails(i))
  IN [i \in DOMAIN kept |-> t[kept[i]]]

(* str.rfind of two marks within lo..hi; -1 if there is none.              *)
RFind(t, a, b, lo, hi) ==
  Max({-1} \cup {i \in lo .. hi - 2 : t[i + 1] = a /\ t[i + 2] = b})

(* The end of the chunk from start: after the last paragraph or sentence   *)
(* that ends in its second half, if the text goes on.  A sentence that was *)
(* not found counts as one that ends at offset 1.                          *)
Boundary(t, start, size) ==
  LET hard == start + size
      paragraph == RFind(t, "n", "n", start + size \div 2, hard)
  IN Max({IF paragraph >= 0 THEN paragraph + 2 ELSE -1,
          RFind(t, ".", " ", start + size \div 2, hard) + 2})

End(t, start, size) ==
  IF start + size < Len(t)
  THEN IF Boundary(t, start, size) > start THEN Boundary(t, start, size) ELSE start + size
  ELSE Len(t)

\* Mutant: the overlap moves the next chunk forward.
NextStartSkipping(start, end, overlap) == Max({start + 1, end + overlap})

NextStart(start, end, overlap) == Max({start + 1, end - overlap})

ChunkText(t, start, end) == Strip(SubSeq(t, start + 1, end))

-----------------------------------------------------------------------------
\* Mutant: a chunk is known by its number alone.
KeyOfIndex(d, page, index, start, end) ==
  [doc |-> d, page |-> page, index |-> index, start |-> 0, end |-> 0]

(* The key names checksum and origin (the page is part of the origin), the *)
(* chunk's number and its offsets; neither its text nor the parser.        *)
KeyOf(d, page, index, start, end) ==
  [doc |-> d, page |-> page, index |-> index, start |-> start, end |-> end]

NoCall == [pc |-> "idle", doc |-> "none", shape |-> [size |-> 1, overlap |-> 0], pages |-> <<>>,
           version |-> 0, page |-> 1, start |-> 0, ids |-> <<>>, index |-> 0,
           created |-> 0, repeat |-> FALSE, made |-> 0]

Init ==
  /\ parser = 1
  /\ chunks = [k \in {} |-> <<>>]
  /\ call = [c \in Callers |-> NoCall]
  /\ ingested = {}

(* The pages are extracted and normalised; a document without any text is  *)
(* refused before anything is stored.                                      *)
Ingest(c, d, shape) ==
  LET pages == [p \in DOMAIN PagesOf[d][parser] |-> Normalized(PagesOf[d][parser][p])] IN
  /\ call[c].pc \in {"idle", "answered"} /\ call[c].made < MaxCalls
  /\ \E p \in DOMAIN pages : pages[p] # <<>>
  /\ call' = [call EXCEPT ![c] =
       [NoCall EXCEPT !.pc = "chunking", !.doc = d, !.shape = shape, !.pages = pages,
                      !.version = parser, !.made = call[c].made + 1,
                      !.repeat = [doc |-> d, shape |-> shape, version |-> parser] \in ingested]]
  /\ UNCHANGED <<parser, chunks, ingested>>

(* The next page, or the answer.                                           *)
PageDone(a) ==
  IF a.page < Len(a.pages) THEN [a EXCEPT !.page = @ + 1, !.start = 0, !.index = 0]
                           ELSE [a EXCEPT !.pc = "answered"]

(* One round of TextChunker.split and the retain of its chunk, which       *)
(* answers a known key with the memory it has.  A blank chunk is dropped   *)
(* and an empty page skipped.                                              *)
RetainChunk(c) ==
  LET a == call[c]
      t == a.pages[a.page]
      end == End(t, a.start, a.shape.size)
      text == ChunkText(t, a.start, end)
      key == KeyOf(a.doc, a.page, a.index, a.start, end)
      kept == IF text = <<>> THEN a
              ELSE [a EXCEPT !.index = @ + 1, !.ids = Append(@, [key |-> key, start |-> a.start, end |-> end]),
                             !.created = IF key \in DOMAIN chunks THEN @ ELSE @ + 1]
      next == IF end >= Len(t) THEN PageDone(kept)
              ELSE [kept EXCEPT !.start = NextStart(a.start, end, a.shape.overlap)]
  IN
  /\ a.pc = "chunking"
  /\ call' = [call EXCEPT ![c] = next]
  /\ chunks' = IF text = <<>> \/ key \in DOMAIN chunks THEN chunks
               ELSE [k \in DOMAIN chunks \cup {key} |->
                       IF k = key THEN [text |-> text, version |-> a.version] ELSE chunks[k]]
  /\ ingested' = IF next.pc = "answered"
                 THEN ingested \cup {[doc |-> a.doc, shape |-> a.shape, version |-> a.version]}
                 ELSE ingested
  /\ UNCHANGED parser

(* A retain fails, or the process dies: what was retained stays.           *)
IngestFails(c) ==
  /\ call[c].pc = "chunking"
  /\ call' = [call EXCEPT ![c] = [NoCall EXCEPT !.made = call[c].made]]
  /\ UNCHANGED <<parser, chunks, ingested>>

(* A release with another version of the parser; calls under way go on     *)
(* with the pages they have.                                               *)
NewParser ==
  /\ parser = 1
  /\ parser' = 2
  /\ UNCHANGED <<chunks, call, ingested>>

Next ==
  \/ \E c \in Callers :
       \/ \E d \in Documents, shape \in Shapes : Ingest(c, d, shape)
       \/ RetainChunk(c) \/ IngestFails(c)
  \/ NewParser

Spec == Init /\ [][Next]_vars

-----------------------------------------------------------------------------
TypeOK ==
  /\ parser \in {1, 2}
  /\ \A k \in DOMAIN chunks : k.doc \in Documents /\ chunks[k].version \in {1, 2}
  /\ \A c \in Callers : /\ call[c].pc \in {"idle", "chunking", "answered"}
                        /\ call[c].made \in 0 .. MaxCalls
                        /\ call[c].doc \in Documents \cup {"none"}
  /\ ingested \subseteq [doc : Documents, shape : Shapes, version : {1, 2}]

(* A call that was answered has every letter of every page in a memory it  *)
(* names, none of them longer than a chunk; each of them holds the text of *)
(* its place, unless it was stored by another version of the parser; and   *)
(* the repetition of a finished call stores nothing (TextChunker.split,    *)
(* ingest_text, ingest_pdf).                                               *)
DocumentKept ==
  \A c \in Callers :
    LET a == call[c] IN
    a.pc = "answered" =>
      /\ \A p \in DOMAIN a.pages : \A i \in DOMAIN a.pages[p] :
           a.pages[p][i] \notin Blank =>
             \E n \in DOMAIN a.ids : a.ids[n].key.page = p /\ a.ids[n].start < i /\ i <= a.ids[n].end
      /\ \A n \in DOMAIN a.ids :
           LET id == a.ids[n] IN
           /\ id.key \in DOMAIN chunks /\ id.end - id.start <= a.shape.size
           /\ \/ chunks[id.key].text = ChunkText(a.pages[id.key.page], id.start, id.end)
              \/ chunks[id.key].version # a.version
      /\ a.repeat => a.created = 0
=============================================================================
