------------------------------ MODULE ApiAccess ------------------------------
(***************************************************************************)
(* Who may do what over HTTP: API servers configured with keys and their   *)
(* scopes, the key registry they mirror them into, browser sessions, the   *)
(* authorization middleware with its separate reads of registry and        *)
(* threads, and the operator endpoints that change both while other        *)
(* requests are between their checks and their handlers.                   *)
(*                                                                         *)
(* A key stands for its secret and its fingerprint; a session cookie for   *)
(* the claims it carries.                                                  *)
(***************************************************************************)
EXTENDS Naturals, FiniteSets

CONSTANTS Servers,      \* API processes
          Clients,      \* requests in flight at a time
          ApiKeys,      \* bearer keys
          Configs,      \* UAM_API_KEYS of a start: scope of each key, or "none"
          Bound,        \* UAM_API_PRINCIPAL_BINDINGS_JSON: agent of each key, or "none"
          AgentIds,     \* agents
          Requests,     \* the requests each client makes
          MaxStarts     \* bound: starts of servers

VARIABLES registry,     \* api_key_registry
          server,       \* each process: its configuration and its start-up
          cookie,       \* each client's session cookie: the key it names
          call,         \* each client's request
          threadOwner,  \* owner_agent_id of the thread
          starts,       \* servers started so far
          revived,      \* keys whose revocation a start overwrote (history)
          withdrawn     \* keys ever revoked (history)

vars == <<registry, server, cookie, call, threadOwner, starts, revived, withdrawn>>

Scopes == {"operator", "agent", "read", "write"}
NoKeyRow == [known |-> FALSE, scope |-> "none", revoked |-> FALSE]
KeyRows == [known : BOOLEAN, scope : Scopes \cup {"none"}, revoked : BOOLEAN]
Down == [up |-> FALSE, config |-> [k \in ApiKeys |-> "none"], todo |-> {}, read |-> <<>>]
Routes == {"seed", "recall", "retain", "checkpoint", "revoke", "provision"}
(* A request: the bearer key or "none" where the session cookie is sent,   *)
(* the route, whether the CSRF header matches, the agent named, whether it *)
(* names the thread, and whether tenant and workspace are the bound ones.  *)
Shapes == [key : ApiKeys \cup {"none"}, route : Routes, csrf : BOOLEAN,
           agent : AgentIds \cup {"none"}, thread : BOOLEAN, inside : BOOLEAN]
NoCall == [pc |-> "none", at |-> "none", key |-> "none", req |-> <<>>,
           late |-> FALSE, moved |-> FALSE]

TypeOK ==
  /\ registry \in [ApiKeys -> KeyRows]
  /\ \A s \in Servers : /\ server[s].up \in BOOLEAN /\ server[s].todo \subseteq ApiKeys
                        /\ server[s].config \in [ApiKeys -> Scopes \cup {"none"}]
                        /\ server[s].read = <<>> \/ server[s].read[1] \in KeyRows
  /\ cookie \in [Clients -> ApiKeys \cup {"none"}]
  /\ \A c \in Clients : /\ call[c].pc \in {"none", "check", "bind", "handle"}
                        /\ call[c].at \in Servers \cup {"none"} /\ call[c].key \in ApiKeys \cup {"none"}
                        /\ call[c].req = <<>> \/ call[c].req \in Shapes
                        /\ call[c].late \in BOOLEAN /\ call[c].moved \in BOOLEAN
  /\ threadOwner \in AgentIds \cup {"none"}
  /\ starts \in 0..MaxStarts /\ revived \subseteq ApiKeys /\ withdrawn \subseteq ApiKeys

Init ==
  /\ registry = [k \in ApiKeys |-> NoKeyRow]
  /\ server = [s \in Servers |-> Down]
  /\ cookie = [c \in Clients |-> "none"] /\ call = [c \in Clients |-> NoCall]
  /\ threadOwner \in AgentIds \cup {"none"} /\ starts = 0 /\ revived = {} /\ withdrawn = {}

-----------------------------------------------------------------------------
(* create_app, with UAM_REQUIRE_IDENTITY_BINDINGS set: a (re)started       *)
(* process refuses agent keys without a binding and mirrors its keys one   *)
(* by one, each with a read and, where something changed, a later write.   *)
Start(s, config) ==
  /\ starts < MaxStarts /\ starts' = starts + 1
  /\ \A k \in ApiKeys : config[k] = "agent" => Bound[k] # "none"
  /\ server' = [server EXCEPT ![s] = [up |-> FALSE, config |-> config, read |-> <<>>,
                                      todo |-> {k \in ApiKeys : config[k] # "none"}]]
  /\ call' = [c \in Clients |-> IF call[c].at = s THEN NoCall ELSE call[c]]
  /\ UNCHANGED <<registry, cookie, threadOwner, revived, withdrawn>>

(* The keys are taken in the order they are listed.                        *)
NextKey(s) == CHOOSE k \in server[s].todo : TRUE
Mirrored(s) == server' = [server EXCEPT ![s].read = <<>>, ![s].todo = @ \ {NextKey(s)},
                                        ![s].up = (server[s].todo = {NextKey(s)})]

EnsureRead(s) ==
  /\ server[s].todo # {} /\ server[s].read = <<>>
  /\ LET row == registry[NextKey(s)] IN
     IF row.known /\ row.scope = server[s].config[NextKey(s)]
     THEN Mirrored(s)
     ELSE server' = [server EXCEPT ![s].read = <<row>>]
  /\ UNCHANGED <<registry, cookie, call, threadOwner, starts, revived, withdrawn>>

(* The updated record carries the revocation that was read; the upsert     *)
(* takes it over.                                                          *)
Updated(row, scope) == [known |-> TRUE, scope |-> scope, revoked |-> row.revoked]

EnsureSave(s) ==
  /\ server[s].todo # {} /\ server[s].read # <<>>
  /\ LET k == NextKey(s)
         row == server[s].read[1] IN
     /\ registry' = [registry EXCEPT ![k] = Updated(row, server[s].config[k])]
     /\ IF registry[k].revoked /\ ~row.revoked
        THEN /\ revived' = revived \cup {k}
             /\ call' = [c \in Clients |-> [call[c] EXCEPT !.late = @ /\ call[c].key # k]]
        ELSE UNCHANGED <<revived, call>>
  /\ Mirrored(s)
  /\ UNCHANGED <<cookie, threadOwner, starts, withdrawn>>

-----------------------------------------------------------------------------
(* _required_scope_for_request and _scope_allowed.                         *)
Required(route) == CASE route \in {"revoke", "provision"} -> "operator"
                     [] route \in {"seed", "recall"} -> "read"
                     [] OTHER -> "write"

\* Mutant: an agent key may do what an operator may.
AllowsAgent(scope, required) == scope \in {"operator", "agent", required}

Allows(scope, required) ==
  \/ scope \in {"operator", required}
  \/ scope = "agent" /\ required \in {"read", "write"}

(* A request arrives with a bearer key or with the client's cookie.        *)
Arrive(c, s, req) ==
  /\ call[c] = NoCall /\ server[s].up
  /\ LET k == IF req.key = "none" THEN cookie[c] ELSE req.key IN
     /\ k # "none"
     /\ call' = [call EXCEPT ![c] = [pc |-> "check", at |-> s, key |-> k, req |-> req,
                                     late |-> registry[k].revoked, moved |-> FALSE]]
  /\ UNCHANGED <<registry, server, cookie, threadOwner, starts, revived, withdrawn>>

(* principal_for_credential / principal_for_session_claims, revoked,       *)
(* _scope_allowed and the CSRF check: everything up to the binding.        *)
Revoked(k) == registry[k].revoked
Safe(route) == route = "seed"
Authenticated(a) ==
  /\ server[a.at].config[a.key] # "none"
  /\ ~Revoked(a.key)
  /\ Allows(server[a.at].config[a.key], Required(a.req.route))
  /\ a.req.key = "none" /\ ~Safe(a.req.route) => a.req.csrf

Check(c) ==
  /\ call[c].pc = "check"
  /\ call' = [call EXCEPT ![c] = IF Authenticated(@) THEN [@ EXCEPT !.pc = "bind"] ELSE NoCall]
  /\ UNCHANGED <<registry, server, cookie, threadOwner, starts, revived, withdrawn>>

(* _agent_binding_error, for keys with the agent scope: the bound tenant   *)
(* and workspace, the bound agent, and a thread that is the agent's.       *)
Attributed(route) == route = "retain"
WithinBinding(a) ==
  server[a.at].config[a.key] = "agent" =>
    /\ Bound[a.key] # "none" /\ a.req.inside
    /\ a.req.agent \in {"none", Bound[a.key]}
    /\ Attributed(a.req.route) => a.req.agent # "none"
    /\ a.req.thread => threadOwner = Bound[a.key]

\* Mutant: the thread is checked against the agent the request names.
BindAsNamed(a) ==
  server[a.at].config[a.key] = "agent" => a.req.inside /\ (a.req.thread => threadOwner = a.req.agent)

Binding(a) == WithinBinding(a)

Bind(c) ==
  /\ call[c].pc = "bind"
  /\ call' = [call EXCEPT ![c] = IF Binding(@) THEN [@ EXCEPT !.pc = "handle"] ELSE NoCall]
  /\ UNCHANGED <<registry, server, cookie, threadOwner, starts, revived, withdrawn>>

(* The handlers.  Recall, retain and checkpoint change what other modules  *)
(* model.                                                                  *)
Done(c) == [call EXCEPT ![c] = NoCall]

Serve(c) ==
  /\ call[c].pc = "handle" /\ call[c].req.route \notin {"revoke", "provision"}
  /\ call' = Done(c)
  /\ UNCHANGED <<registry, server, cookie, threadOwner, starts, revived, withdrawn>>

(* An unknown key is a 404.                                                *)
Revoke(c, k) ==
  /\ call[c].pc = "handle" /\ call[c].req.route = "revoke"
  /\ registry[k].known
  /\ registry' = [registry EXCEPT ![k].revoked = TRUE]
  /\ withdrawn' = withdrawn \cup {k} /\ revived' = revived \ {k}
  /\ call' = Done(c)
  /\ UNCHANGED <<server, cookie, threadOwner, starts>>

(* provision_agent_thread creates the thread or moves it to the agent.     *)
Provision(c, a) ==
  /\ call[c].pc = "handle" /\ call[c].req.route = "provision"
  /\ threadOwner' = a
  /\ call' = [d \in Clients |-> IF d = c THEN NoCall
                                ELSE IF call[d].pc = "handle" /\ a # threadOwner
                                     THEN [call[d] EXCEPT !.moved = TRUE] ELSE call[d]]
  /\ UNCHANGED <<registry, server, cookie, starts, revived, withdrawn>>

(* POST and DELETE /v1/ui/session, and the expiry of a session.            *)
Browser(c) == \E req \in Requests[c] : req.key = "none"

Login(c, s, k) ==
  /\ Browser(c)
  /\ call[c] = NoCall /\ server[s].up /\ cookie[c] = "none"
  /\ server[s].config[k] # "none" /\ ~Revoked(k)
  /\ Allows(server[s].config[k], "operator")
  /\ cookie' = [cookie EXCEPT ![c] = k]
  /\ UNCHANGED <<registry, server, call, threadOwner, starts, revived, withdrawn>>

Logout(c) ==
  /\ cookie[c] # "none" /\ call[c] = NoCall
  /\ cookie' = [cookie EXCEPT ![c] = "none"]
  /\ UNCHANGED <<registry, server, call, threadOwner, starts, revived, withdrawn>>

Next ==
  \/ \E s \in Servers : EnsureRead(s) \/ EnsureSave(s) \/ (\E g \in Configs : Start(s, g))
  \/ \E c \in Clients :
       \/ \E s \in Servers, req \in Requests[c] : Arrive(c, s, req)
       \/ Check(c) \/ Bind(c) \/ Serve(c) \/ Logout(c)
       \/ \E k \in ApiKeys : Revoke(c, k)
       \/ \E a \in AgentIds : Provision(c, a)
       \/ \E s \in Servers, k \in ApiKeys : Login(c, s, k)

Spec == Init /\ [][Next]_vars

-----------------------------------------------------------------------------
(* A handler runs only for a key its server is configured with, that was   *)
(* not revoked when the request arrived, whose scope covers the route; an  *)
(* agent key's handler runs only within its binding, on a thread that is   *)
(* its agent's unless it was moved since the check.  A revocation lasts,   *)
(* except one made between the read and the write with which a starting    *)
(* server updates the key's scopes (require_api_key, _agent_binding_error, *)
(* ensure_configured_key, save_api_key_record).                            *)
AccessKept ==
  /\ \A c \in Clients :
       LET a == call[c]
           scope == server[a.at].config[a.key] IN
       a.pc = "handle" =>
         /\ scope # "none" /\ ~a.late
         /\ a.req.route \in {"revoke", "provision"} => scope = "operator"
         /\ scope = "read" => a.req.route \in {"seed", "recall"}
         /\ scope = "agent" =>
              /\ a.req.inside /\ a.req.agent \in {"none", Bound[a.key]}
              /\ a.req.thread => threadOwner = Bound[a.key] \/ a.moved
  /\ \A k \in withdrawn : registry[k].revoked \/ k \in revived
=============================================================================
