-------------------------- MODULE VectorCollection --------------------------
(***************************************************************************)
(* The embedding identity of one Qdrant collection.  Every process that    *)
(* connects creates the collection if it is missing, compares its own      *)
(* dimension and model with the metadata point, and, where there is none,  *)
(* scans the points and writes one.  Nothing makes these calls atomic.     *)
(***************************************************************************)
EXTENDS Naturals, FiniteSets

CONSTANTS Clients,      \* processes that connect: API, worker, migration
          ModelOf,      \* the model each one is configured with
          DimOf,        \* and its dimension
          None

VARIABLES dimension,    \* of the collection, None before it exists
          metadata,     \* model of the metadata point, or None
          vectors,      \* models of the stored points
          client,       \* phase of each process
          adopted       \* processes that wrote the metadata point (history)

vars == <<dimension, metadata, vectors, client, adopted>>

Models == {ModelOf[p] : p \in Clients}
Dims == {DimOf[p] : p \in Clients}

TypeOK ==
  /\ dimension \in Dims \cup {None}
  /\ metadata \in Models \cup {None}
  /\ vectors \subseteq Models \cup {"unknown"}
  /\ client \in [Clients -> {"off", "missing", "exists", "unmarked", "scanned", "on", "refused"}]
  /\ adopted \subseteq Clients

(* A legacy collection may hold points with or without a model name.       *)
Init ==
  /\ metadata = None
  /\ \/ dimension = None /\ vectors = {}
     \/ dimension \in Dims /\ vectors \in SUBSET (Models \cup {"unknown"})
  /\ client = [p \in Clients |-> "off"]
  /\ adopted = {}

Enter(p, phase) == client' = [client EXCEPT ![p] = phase]

(* get_collections *)
Look(p) ==
  /\ client[p] = "off"
  /\ Enter(p, IF dimension = None THEN "missing" ELSE "exists")
  /\ UNCHANGED <<dimension, metadata, vectors, adopted>>

(* create_collection, refused by the server if another process was first.  *)
Create(p) ==
  /\ client[p] = "missing"
  /\ IF dimension = None
     THEN dimension' = DimOf[p] /\ Enter(p, "exists")
     ELSE UNCHANGED dimension /\ Enter(p, "refused")
  /\ UNCHANGED <<metadata, vectors, adopted>>

(* The dimension, then the metadata point: it matches, it does not, or it  *)
(* is not there.                                                           *)
Identify(p) ==
  /\ client[p] = "exists"
  /\ Enter(p, IF dimension # DimOf[p] \/ metadata \notin {None, ModelOf[p]} THEN "refused"
              ELSE IF metadata = None THEN "unmarked" ELSE "on")
  /\ UNCHANGED <<dimension, metadata, vectors, adopted>>

\* Mutant: points without a model name are ignored.
AdoptableLegacy(p) == vectors \subseteq {ModelOf[p], "unknown"}

(* Points without a model, or of another model, refuse the collection.     *)
Adoptable(p) == vectors \subseteq {ModelOf[p]}

Scan(p) ==
  /\ client[p] = "unmarked"
  /\ Enter(p, IF Adoptable(p) THEN "scanned" ELSE "refused")
  /\ UNCHANGED <<dimension, metadata, vectors, adopted>>

Adopt(p) ==
  /\ client[p] = "scanned"
  /\ metadata' = ModelOf[p]
  /\ adopted' = adopted \cup {p}
  /\ Enter(p, "on")
  /\ UNCHANGED <<dimension, vectors>>

(* _validate_write_model holds by then: a connected process writes only    *)
(* the model it connected with.                                            *)
Write(p) ==
  /\ client[p] = "on"
  /\ vectors' = vectors \cup {ModelOf[p]}
  /\ UNCHANGED <<dimension, metadata, client, adopted>>

Next == \E p \in Clients :
  Look(p) \/ Create(p) \/ Identify(p) \/ Scan(p) \/ Adopt(p) \/ Write(p)

Spec == Init /\ [][Next]_vars

-----------------------------------------------------------------------------
(* A connected process sees only vectors of its own model and dimension,   *)
(* unless two processes of different models adopted the collection at the  *)
(* same time, neither of them seeing the other's metadata point            *)
(* (_validate_collection_identity, _scan_existing_model_names).            *)
OneIdentity ==
  \A p \in Clients : client[p] = "on" =>
    /\ dimension = DimOf[p]
    /\ \/ vectors \subseteq {ModelOf[p]} /\ metadata = ModelOf[p]
       \/ \E q, r \in adopted : ModelOf[q] # ModelOf[r]
=============================================================================
