---------------------------- MODULE ModelManager ----------------------------
(***************************************************************************)
(* ModelManager of the demo (modelManager.cpp): the models of the registry *)
(* are loaded when they are first asked for, and kept.  A client loads and *)
(* selects models by any name and makes pipelines of them.                 *)
(***************************************************************************)
EXTENDS Integers

CONSTANTS
  Names,       \* names that a client may ask for
  registry,    \* the models of the registry, with the task in their model.json
  Inferences,  \* identities of Inference objects, each with an ONNX session
  None

ASSUME ManagerAssumption ==
  /\ DOMAIN registry \subseteq Names
  /\ None \notin Inferences \union Names

VARIABLES
  models,   \* models_, None where there is no entry
  current,  \* current_
  made,     \* made[o]: the name of the model that Inference o was made for
  pipe      \* inference_ of the client's pipeline, None if it has no pipeline

manager == <<models, current, made, pipe>>

ManagerInit ==
  /\ models = [n \in Names |-> None]
  /\ current = None
  /\ made = [o \in Inferences |-> None]
  /\ pipe = None

\* Mutation: load() without the look into models_.
LoadsAgain(n, o) ==
  /\ n \in DOMAIN registry
  /\ made[o] = None
  /\ models' = [models EXCEPT ![n] = o]
  /\ made' = [made EXCEPT ![o] = n]

\* load(n) returns o: the one in models_, or a new one.  It throws, and changes
\* nothing, if n is not in the registry, and so do ModelLoader and Inference if
\* a file is missing or wrong.
Loaded(n, o) ==
  /\ n \in DOMAIN registry
  /\ IF models[n] # None
     THEN o = models[n] /\ UNCHANGED <<models, made>>
     ELSE /\ made[o] = None
          /\ models' = [models EXCEPT ![n] = o]
          /\ made' = [made EXCEPT ![o] = n]

LoadModel(n, o) == Loaded(n, o) /\ UNCHANGED <<current, pipe>>

Select(n, o) == Loaded(n, o) /\ current' = o /\ UNCHANGED pipe

\* PipelineFactory::create with what load(), get() or current() returned; it
\* throws for a task it does not know.  The pipeline before is destroyed.
CreatePipeline(o) ==
  /\ o = current \/ \E n \in Names : o = models[n]
  /\ o # None
  /\ registry[made[o]] \in {"classification", "detection"}
  /\ pipe' = o
  /\ UNCHANGED <<models, current, made>>

ManagerNext ==
  \/ \E n \in Names, o \in Inferences : LoadModel(n, o) \/ Select(n, o)
  \/ \E o \in Inferences : CreatePipeline(o)

ManagerSpec == ManagerInit /\ [][ManagerNext]_manager

\* However models were loaded, selected and used, there is one session for a
\* model: what the client runs, itself or as current_, is the entry of models_
\* under the name that it was made for, and no two names share one ("so ONNX
\* Runtime does not allocate duplicate memory for models that are referenced
\* multiple times", modelManager.cpp:13-14).
OneSessionPerModel ==
  /\ \A o \in {current, pipe} \ {None} :
       made[o] \in DOMAIN registry /\ models[made[o]] = o
  /\ \A n \in Names : models[n] # None => made[models[n]] = n

=============================================================================
