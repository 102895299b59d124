---------------------------- MODULE Application ----------------------------
(***************************************************************************)
(* oml::core::Application (src/core/Application.cpp) with the objects it   *)
(* owns: the backends that BackendRegistry makes, their Ort::Env, and the  *)
(* model sessions, which are shared with what clients hold.                *)
(*                                                                         *)
(* One thread calls create, initialize, createPipeline, getSession and     *)
(* shutdown.  Pipelines and sessions it hands out are used and dropped by  *)
(* other threads at any time, also while initialize is under way.          *)
(*                                                                         *)
(* A shared_ptr is modelled by the set of its owners: an object dies with  *)
(* the last of them.  The owners of a session are the entry of sessions_   *)
(* (named by its model) and the clients; those of an Ort::Env are the      *)
(* backend that made it (and gives it its name) and its sessions.          *)
(***************************************************************************)
EXTENDS Integers, Sequences

CONSTANTS
  Names,       \* backend names that configurations mention
  Registered,  \* the names that have a factory in BackendRegistry
  Onnx,        \* those of ONNXBackend; the others load no model
  Models,      \* model names
  Configs,     \* what the configuration files may say
  Backends,    \* identities of backend objects
  Sessions,    \* identities of session objects
  Clients,     \* places that hold what getSession and createPipeline return
  None

ASSUME ApplicationAssumption ==
  /\ Onnx \subseteq Registered /\ Registered \subseteq Names
  /\ Configs \subseteq [default : Names, backends : Seq(Names),
                        models : Seq([name : Models, backend : Names])]
  /\ \A cfg \in Configs : \A i, j \in 1..Len(cfg.models) :
       cfg.models[i].name = cfg.models[j].name => i = j
  /\ Backends \intersect Sessions = {} /\ Models \intersect Clients = {}
  /\ None \notin Names \union Models \union Configs \union Backends \union Sessions
  /\ None \notin [model : Models, env : Backends, native : BOOLEAN]

VARIABLES
  config,       \* what the ConfigManager of the application holds; None: no application
  initialized,  \* initialized_
  next,         \* initialize: the next backend or model, 0 outside
  backends,     \* backends_, None where there is no entry
  sessions,     \* sessions_, None where there is no entry
  nameOf,       \* nameOf[b]: the name of backend object b, None if there is none
  envOwners,    \* envOwners[b]: the owners of the Ort::Env that b made
  owners,       \* owners[s]: the owners of session s
  data,         \* data[s]: its model, the backend that made its env_, and whether
                \* session_ is not null; None: there is no session s
  holds,        \* holds[c]: the session that client c has, by itself or in a pipeline
  use           \* use[c]: what c does with it

app == <<config, initialized, next, backends, sessions>>
objects == <<nameOf, envOwners, owners, data>>
handles == <<holds, use>>
vars == <<app, objects, handles>>

Init ==
  /\ config = None /\ initialized = FALSE /\ next = 0
  /\ backends = [n \in Names |-> None]
  /\ sessions = [m \in Models |-> None]
  /\ nameOf = [b \in Backends |-> None]
  /\ envOwners = [b \in Backends |-> {}]
  /\ owners = [s \in Sessions |-> {}]
  /\ data = [s \in Sessions |-> None]
  /\ holds = [c \in Clients |-> None]
  /\ use = [c \in Clients |-> "nothing"]

-----------------------------------------------------------------------------
(* The lists that initialize() walks. *)

\* Without declared backends the default one is used.
Declared == IF config.backends = <<>> THEN <<config.default>> ELSE config.backends

Calls == config # None /\ next = 0
AtBackend == next \in 1..Len(Declared)
AtModel == next \in (Len(Declared) + 1)..(Len(Declared) + Len(config.models))
Entry == config.models[next - Len(Declared)]

\* Given the owners that the sessions have left, what is left of the sessions,
\* and of the owners of the environments: ~ONNXModelSession gives up env_.
Living(objs, left) == [s \in Sessions |-> IF left[s] = {} THEN None ELSE objs[s]]
Survivors(envs, left) ==
  [b \in Backends |-> envs[b] \ {s \in Sessions : left[s] = {}}]

-----------------------------------------------------------------------------
(***************************************************************************)
(* create, initialize                                                      *)
(***************************************************************************)

\* create() reads all files; if it throws there is no application.
Create(cfg) ==
  /\ config = None
  /\ config' = cfg
  /\ UNCHANGED <<initialized, next, backends, sessions, objects, handles>>

InitializeBegin ==
  /\ Calls /\ ~initialized
  /\ next' = 1
  /\ UNCHANGED <<config, initialized, backends, sessions, objects, handles>>

\* createBackend and initialize of the next declared backend; an earlier
\* backend of that name is destroyed by the assignment to backends_[name].
BackendReady(b) ==
  LET name == Declared[next] IN
  /\ config # None /\ AtBackend
  /\ name \in Registered
  /\ nameOf[b] = None /\ envOwners[b] = {}
  /\ nameOf' = [e \in Backends |-> IF e = b THEN name
                                   ELSE IF e = backends[name] THEN None ELSE nameOf[e]]
  /\ envOwners' = [e \in Backends |->
                     IF e = b THEN IF name \in Onnx THEN {b} ELSE {}
                              ELSE envOwners[e] \ {backends[name]}]
  /\ backends' = [backends EXCEPT ![name] = b]
  /\ next' = next + 1
  /\ UNCHANGED <<config, initialized, sessions, owners, data, handles>>

\* loadModel of the next model by its backend, which must be there and know
\* how to; an earlier session of the model loses the entry of sessions_.
Load(s, envs) ==
  LET m == Entry.name
      b == backends[Entry.backend]
      made == [model |-> m, env |-> b, native |-> TRUE]
      left == [x \in Sessions |-> IF x = s THEN {m} ELSE owners[x] \ {m}]
  IN
  /\ b # None /\ nameOf[b] \in Onnx
  /\ owners[s] = {}
  /\ owners' = left
  /\ data' = Living([data EXCEPT ![s] = made], left)
  /\ envOwners' = Survivors(envs, left)
  /\ sessions' = [sessions EXCEPT ![m] = s]
  /\ next' = next + 1
  /\ UNCHANGED <<config, initialized, backends, nameOf, handles>>

\* The environment of the next model's backend, shared by session s as well.
Shared(s) ==
  [b \in Backends |-> IF b = backends[Entry.backend] THEN envOwners[b] \union {s}
                                                     ELSE envOwners[b]]

\* Mutation: the session refers to the environment without sharing it.
BorrowsEnv(s) == config # None /\ AtModel /\ Load(s, envOwners)

\* Mutation: a retry that keeps the sessions it finds.
KeepsOldSession(s) ==
  /\ config # None /\ AtModel
  /\ IF sessions[Entry.name] = None
     THEN Load(s, Shared(s))
     ELSE /\ next' = next + 1
          /\ UNCHANGED <<config, initialized, backends, sessions, objects, handles>>

ModelLoaded(s) == config # None /\ AtModel /\ Load(s, Shared(s))

\* Anything may throw: a backend without factory, a model whose backend is not
\* there or a placeholder, a file that is missing, ONNX Runtime itself.  What
\* was made so far stays.
InitializeThrows ==
  /\ config # None /\ (AtBackend \/ AtModel)
  /\ next' = 0
  /\ UNCHANGED <<config, initialized, backends, sessions, objects, handles>>

InitializeReturns ==
  /\ config # None /\ next # 0 /\ ~AtBackend /\ ~AtModel
  /\ next' = 0 /\ initialized' = TRUE
  /\ UNCHANGED <<config, backends, sessions, objects, handles>>

-----------------------------------------------------------------------------
(***************************************************************************)
(* shutdown and the destructor, which calls it                             *)
(***************************************************************************)

\* Mutation: shutdown without sessions_.clear().
KeepsSessions ==
  /\ backends' = [n \in Names |-> None]
  /\ initialized' = FALSE
  /\ nameOf' = [b \in Backends |-> None]
  /\ envOwners' = [b \in Backends |-> envOwners[b] \ Backends]
  /\ UNCHANGED <<next, sessions, owners, data, handles>>

Clear ==
  /\ sessions' = [m \in Models |-> None]
  /\ backends' = [n \in Names |-> None]
  /\ initialized' = FALSE
  /\ nameOf' = [b \in Backends |-> None]
  /\ owners' = [s \in Sessions |-> owners[s] \ Models]
  /\ envOwners' = Survivors([b \in Backends |-> envOwners[b] \ Backends], owners')
  /\ data' = Living(data, owners')
  /\ UNCHANGED <<next, handles>>

Shutdown == Calls /\ Clear /\ UNCHANGED config
Destroy == Calls /\ Clear /\ config' = None

-----------------------------------------------------------------------------
(***************************************************************************)
(* What clients get, and what they do with it                              *)
(***************************************************************************)

\* Mutation: the session that was not found is handed out all the same.
HandUnchecked(c, m, what) ==
  /\ holds[c] = None
  /\ holds' = [holds EXCEPT ![c] = sessions[m]]
  /\ use' = [use EXCEPT ![c] = what]
  /\ owners' = [s \in Sessions |-> IF s = sessions[m] THEN owners[s] \union {c}
                                                     ELSE owners[s]]
  /\ UNCHANGED <<app, nameOf, envOwners, data>>

Hand(c, m, what) ==
  /\ holds[c] = None
  /\ sessions[m] # None
  /\ holds' = [holds EXCEPT ![c] = sessions[m]]
  /\ use' = [use EXCEPT ![c] = what]
  /\ owners' = [owners EXCEPT ![sessions[m]] = @ \union {c}]
  /\ UNCHANGED <<app, nameOf, envOwners, data>>

\* getSession() does not ask whether the application is initialized.
GetSession(c, m) == Calls /\ Hand(c, m, "session")

\* The InferenceStage of the pipeline shares the session.  The constructor of
\* PostprocessStage throws if the labels are missing; then nothing changes.
CreatePipeline(c, m) == Calls /\ initialized /\ Hand(c, m, "pipeline")

\* InferenceStage::process, in session_->run() of the session.
RunBegin(c) ==
  /\ use[c] = "pipeline"
  /\ use' = [use EXCEPT ![c] = "running"]
  /\ UNCHANGED <<app, objects, holds>>

RunEnd(c) ==
  /\ use[c] = "running"
  /\ use' = [use EXCEPT ![c] = "pipeline"]
  /\ UNCHANGED <<app, objects, holds>>

\* The pipeline or the shared_ptr of the session is destroyed.
Drop(c) ==
  /\ use[c] \in {"session", "pipeline", "released"}
  /\ owners' = [s \in Sessions |-> owners[s] \ {c}]
  /\ envOwners' = Survivors(envOwners, owners')
  /\ data' = Living(data, owners')
  /\ holds' = [holds EXCEPT ![c] = None]
  /\ use' = [use EXCEPT ![c] = "nothing"]
  /\ UNCHANGED <<app, nameOf>>

\* release(): "After release() the session must not be used again"
\* (IModelSession.h:29-30), so only the last owner may call it.
Release(c) ==
  /\ use[c] = "session" /\ owners[holds[c]] = {c}
  /\ data' = [data EXCEPT ![holds[c]].native = FALSE]
  /\ use' = [use EXCEPT ![c] = "released"]
  /\ UNCHANGED <<app, nameOf, envOwners, owners, holds>>

-----------------------------------------------------------------------------
Initialize ==
  \/ InitializeBegin \/ InitializeThrows \/ InitializeReturns
  \/ \E b \in Backends : BackendReady(b)
  \/ \E s \in Sessions : ModelLoaded(s)

ClientStep(c) ==
  \/ \E m \in Models : GetSession(c, m) \/ CreatePipeline(c, m)
  \/ RunBegin(c) \/ RunEnd(c) \/ Drop(c) \/ Release(c)

Next ==
  \/ \E cfg \in Configs : Create(cfg)
  \/ Initialize \/ Shutdown \/ Destroy
  \/ \E c \in Clients : ClientStep(c)

Spec == Init /\ [][Next]_vars

-----------------------------------------------------------------------------
(***************************************************************************)
(* Properties                                                              *)
(***************************************************************************)

TypeOK ==
  /\ config \in Configs \union {None} /\ initialized \in BOOLEAN /\ next \in Nat
  /\ backends \in [Names -> Backends \union {None}]
  /\ sessions \in [Models -> Sessions \union {None}]
  /\ nameOf \in [Backends -> Names \union {None}]
  /\ envOwners \in [Backends -> SUBSET (Backends \union Sessions)]
  /\ owners \in [Sessions -> SUBSET (Models \union Clients)]
  /\ data \in [Sessions -> [model : Models, env : Backends, native : BOOLEAN] \union {None}]
  /\ holds \in [Clients -> Sessions \union {None}]
  /\ use \in [Clients -> {"nothing", "session", "pipeline", "running", "released"}]
  /\ \A c \in Clients : use[c] = "nothing" <=> holds[c] = None

\* A session or a pipeline that was handed out stays usable as long as it is
\* kept, in the middle of a run too: neither shutdown(), nor the destructor, nor
\* an initialize() that fails or replaces the session takes it or its Ort::Env
\* away ("sessions can be created, moved and destroyed independently",
\* IModelSession.h:13-14).
HandlesStayUsable ==
  \A c \in Clients : use[c] \in {"session", "pipeline", "running"} =>
    /\ c \in owners[holds[c]]
    /\ data[holds[c]].native
    /\ envOwners[data[holds[c]].env] # {}

\* However many initialize() failed before: when initialized_ is set, every
\* declared backend is there, and every declared model has a session of its
\* own, made by the backend of its name that is there now.
InitializedIsComplete ==
  initialized =>
    /\ config # None
    /\ \A i \in 1..Len(Declared) :
         backends[Declared[i]] # None /\ nameOf[backends[Declared[i]]] = Declared[i]
    /\ \A i \in 1..Len(config.models) :
         LET m == config.models[i].name
             b == backends[config.models[i].backend]
         IN  /\ sessions[m] # None /\ data[sessions[m]].model = m
             /\ b # None /\ data[sessions[m]].env = b
             /\ b \in envOwners[b]

\* When the application is gone and no client keeps anything, no backend, no
\* environment and no session is left, whatever failed on the way.
NothingLeaks ==
  config = None /\ (\A c \in Clients : holds[c] = None) =>
    /\ \A b \in Backends : nameOf[b] = None /\ envOwners[b] = {}
    /\ \A s \in Sessions : owners[s] = {}

=============================================================================
