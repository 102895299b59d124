------------------------- MODULE ApplicationProofs -------------------------
(***************************************************************************)
(* Proofs about Application: for all configurations, any number of models, *)
(* backends, sessions and clients.                                         *)
(***************************************************************************)
EXTENDS Application, TLAPS

(***************************************************************************)
(* The inductive invariant.  Owners are what they are said to be: exactly  *)
(* the entries of sessions_ and the clients that refer to a session, the   *)
(* living sessions of an environment, and its backend.                     *)
(***************************************************************************)
SessionOwners ==
  \A s \in Sessions :
    /\ \A m \in Models : m \in owners[s] <=> sessions[m] = s
    /\ \A c \in Clients : c \in owners[s] <=> holds[c] = s
    /\ data[s] = None <=> owners[s] = {}

EnvOwners ==
  \A b \in Backends :
    /\ \A s \in Sessions : s \in envOwners[b] <=> data[s] # None /\ data[s].env = b
    /\ \A e \in Backends : e \in envOwners[b] <=> e = b /\ nameOf[b] \in Onnx

BackendEntries ==
  \A b \in Backends, n \in Names : nameOf[b] = n <=> backends[n] = b

\* The session of a model is one of that model, and nobody released it.
SessionEntries ==
  \A m \in Models : sessions[m] # None =>
    data[sessions[m]].model = m /\ data[sessions[m]].native

\* A session that may be used has its Ort::Session.
HeldNative ==
  \A c \in Clients :
    use[c] \in {"session", "pipeline", "running"} => data[holds[c]].native

\* No application, nothing in it.
NothingWithoutApplication ==
  config = None =>
    /\ next = 0 /\ ~initialized
    /\ \A n \in Names : backends[n] = None
    /\ \A m \in Models : sessions[m] = None

\* The backends and models that initialize() is done with.
BackendsDone(k) == \A i \in 1..Len(Declared) : i <= k => backends[Declared[i]] # None
ModelDone(i) ==
  LET m == config.models[i].name
      b == backends[config.models[i].backend]
  IN  /\ sessions[m] # None
      /\ b # None /\ nameOf[b] \in Onnx
      /\ data[sessions[m]].env = b
ModelsDone(k) == \A i \in 1..Len(config.models) : i <= k => ModelDone(i)

Progress ==
  config # None =>
    /\ next # 0 => ~initialized
    /\ next # 0 => BackendsDone(next - 1) /\ ModelsDone(next - 1 - Len(Declared))
    /\ initialized => BackendsDone(Len(Declared)) /\ ModelsDone(Len(config.models))

IInv ==
  /\ TypeOK /\ SessionOwners /\ EnvOwners /\ BackendEntries /\ SessionEntries
  /\ HeldNative /\ NothingWithoutApplication /\ Progress


-----------------------------------------------------------------------------
LEMMA SeqElement ==
  ASSUME NEW S, NEW q \in Seq(S), NEW i \in 1..Len(q)
  PROVE  q[i] \in S
  OBVIOUS

\* What a loaded configuration consists of.
LEMMA ConfigParts ==
  ASSUME TypeOK, config # None
  PROVE  /\ config \in [default : Names, backends : Seq(Names),
                        models : Seq([name : Models, backend : Names])]
         /\ Declared \in Seq(Names) /\ Len(Declared) \in Nat
         /\ Len(config.models) \in Nat
         /\ \A i \in 1..Len(Declared) : Declared[i] \in Names
         /\ \A i \in 1..Len(config.models) :
              /\ config.models[i] \in [name : Models, backend : Names]
              /\ config.models[i].name \in Models
              /\ config.models[i].backend \in Names
         /\ \A i, j \in 1..Len(config.models) :
              config.models[i].name = config.models[j].name => i = j
<1>1. config \in Configs
  BY DEF TypeOK
<1>2. config \in [default : Names, backends : Seq(Names),
                  models : Seq([name : Models, backend : Names])]
  BY <1>1, ApplicationAssumption
<1>3. Declared \in Seq(Names)
  <2>1. CASE config.backends = <<>>
    <3>1. config.default \in Names
      BY <1>2
    <3>2. QED
      BY <2>1, <3>1 DEF Declared
  <2>2. CASE config.backends # <<>>
    BY <1>2, <2>2 DEF Declared
  <2>3. QED
    BY <2>1, <2>2
<1>4. config.models \in Seq([name : Models, backend : Names])
  BY <1>2
<1>5. \A i \in 1..Len(config.models) : config.models[i] \in [name : Models, backend : Names]
  BY <1>4, SeqElement
<1>6. \A i \in 1..Len(config.models) :
        config.models[i].name \in Models /\ config.models[i].backend \in Names
  BY <1>5
<1>7. \A i \in 1..Len(Declared) : Declared[i] \in Names
  BY <1>3, SeqElement
<1>8. \A i, j \in 1..Len(config.models) :
        config.models[i].name = config.models[j].name => i = j
  BY <1>1, ApplicationAssumption
<1>9. Len(Declared) \in Nat /\ Len(config.models) \in Nat
  BY <1>3, <1>4
<1>10. QED
  BY <1>2, <1>3, <1>5, <1>6, <1>7, <1>8, <1>9

\* Entry is one of them.
LEMMA EntryParts ==
  ASSUME TypeOK, config # None, AtModel
  PROVE  /\ next - Len(Declared) \in 1..Len(config.models)
         /\ Entry.name \in Models /\ Entry.backend \in Names
<1>1. next - Len(Declared) \in 1..Len(config.models)
  BY ConfigParts DEF AtModel, TypeOK
<1>2. QED
  BY <1>1, ConfigParts DEF Entry

-----------------------------------------------------------------------------
(***************************************************************************)
(* Init and each action                                                    *)
(***************************************************************************)

LEMMA InitInvariant == Init => IInv
<1> SUFFICES ASSUME Init PROVE IInv
  OBVIOUS
<1>1. TypeOK
  BY DEF Init, TypeOK
<1>2. SessionOwners /\ EnvOwners /\ BackendEntries /\ SessionEntries
  BY ApplicationAssumption
  DEF Init, SessionOwners, EnvOwners, BackendEntries, SessionEntries
<1>3. HeldNative /\ NothingWithoutApplication /\ Progress
  BY DEF Init, HeldNative, NothingWithoutApplication, Progress
<1>4. QED
  BY <1>1, <1>2, <1>3 DEF IInv

\* A step that leaves config, the entries and the objects alone keeps what
\* initialize() is done with.
LEMMA DoneUnchanged ==
  ASSUME UNCHANGED <<config, backends, sessions, nameOf, data>>
  PROVE  \A k : /\ BackendsDone(k)' <=> BackendsDone(k)
                /\ ModelsDone(k)' <=> ModelsDone(k)
  BY DEF BackendsDone, ModelsDone, ModelDone, Declared

LEMMA CreateInvariant ==
  ASSUME IInv, NEW cfg \in Configs, Create(cfg)
  PROVE  IInv'
<1> USE DEF Create
<1>1. TypeOK'
  BY DEF IInv, TypeOK, objects, handles
<1>2. SessionOwners' /\ EnvOwners' /\ BackendEntries' /\ SessionEntries' /\ HeldNative'
  BY DEF IInv, SessionOwners, EnvOwners, BackendEntries, SessionEntries, HeldNative,
         objects, handles
<1>3. NothingWithoutApplication' /\ Progress'
  BY DEF IInv, NothingWithoutApplication, Progress
<1>4. QED
  BY <1>1, <1>2, <1>3 DEF IInv

\* The steps of initialize() that only move next and initialized_.
LEMMA InitializeMovesInvariant ==
  ASSUME IInv, InitializeBegin \/ InitializeThrows \/ InitializeReturns
  PROVE  IInv'
<1>0. UNCHANGED <<config, backends, sessions, objects, handles>>
  BY DEF InitializeBegin, InitializeThrows, InitializeReturns
<1>1. TypeOK'
  <2>1. next' \in Nat
    BY DEF InitializeBegin, InitializeThrows, InitializeReturns
  <2>2. initialized' = initialized \/ initialized' = TRUE
    BY DEF InitializeBegin, InitializeThrows, InitializeReturns
  <2>3. initialized' \in BOOLEAN
    BY <2>2 DEF IInv, TypeOK
  <2>4. QED
    BY <1>0, <2>1, <2>3 DEF IInv, TypeOK, objects, handles
<1>2. SessionOwners' /\ EnvOwners' /\ BackendEntries' /\ SessionEntries' /\ HeldNative'
  BY <1>0 DEF IInv, SessionOwners, EnvOwners, BackendEntries, SessionEntries, HeldNative,
              objects, handles
<1>3. NothingWithoutApplication'
  BY <1>0 DEF IInv, NothingWithoutApplication, InitializeBegin, InitializeThrows,
              InitializeReturns, Calls
<1>4. Progress'
  <2> SUFFICES ASSUME config # None PROVE Progress'
    BY <1>0 DEF Progress
  <2>0. /\ Len(Declared) \in Nat /\ Len(config.models) \in Nat
        /\ Declared' = Declared /\ next \in Nat /\ TypeOK
    BY <1>0, ConfigParts DEF IInv, TypeOK, Declared
  <2>1. \A k : /\ BackendsDone(k)' <=> BackendsDone(k)
               /\ ModelsDone(k)' <=> ModelsDone(k)
    BY <1>0, DoneUnchanged DEF objects
  <2>2. CASE InitializeBegin
    <3>1. next' = 1 /\ ~initialized'
      BY <2>2 DEF InitializeBegin
    <3>2. BackendsDone(0) /\ ModelsDone(0 - Len(Declared))
      BY <2>0 DEF BackendsDone, ModelsDone
    <3>3. QED
      BY <2>0, <2>1, <3>1, <3>2 DEF Progress
  <2>3. CASE InitializeThrows
    BY <1>0, <2>0, <2>1, <2>3 DEF InitializeThrows, Progress, IInv
  <2>4. CASE InitializeReturns
    <3>1. next # 0 /\ ~(next \in 1..Len(Declared))
          /\ ~(next \in (Len(Declared) + 1)..(Len(Declared) + Len(config.models)))
      BY <2>4 DEF InitializeReturns, AtBackend, AtModel
    <3>2. next > Len(Declared) + Len(config.models)
      BY <2>0, <3>1
    <3>3. BackendsDone(next - 1) /\ ModelsDone(next - 1 - Len(Declared))
      BY <3>1 DEF IInv, Progress
    <3>4. BackendsDone(Len(Declared))
      BY <2>0, <3>2, <3>3 DEF BackendsDone
    <3>5. ModelsDone(Len(config.models))
      BY <2>0, <3>2, <3>3 DEF ModelsDone
    <3>6. next' = 0 /\ config' = config
      BY <2>4 DEF InitializeReturns
    <3>7. QED
      BY <2>0, <2>1, <3>4, <3>5, <3>6 DEF Progress
  <2>5. QED
    BY <2>2, <2>3, <2>4
<1>5. QED
  BY <1>1, <1>2, <1>3, <1>4 DEF IInv


\* createBackend: a new backend in the place of the one of its name.
LEMMA BackendReadyInvariant ==
  ASSUME IInv, NEW b \in Backends, BackendReady(b)
  PROVE  IInv'
<1> DEFINE name == Declared[next]
           old == backends[name]
<1>0. /\ TypeOK /\ SessionOwners /\ EnvOwners /\ BackendEntries /\ SessionEntries
      /\ HeldNative /\ NothingWithoutApplication /\ Progress
  BY DEF IInv
<1>1. /\ config # None /\ AtBackend /\ name \in Registered
      /\ nameOf[b] = None /\ envOwners[b] = {}
      /\ nameOf' = [e \in Backends |-> IF e = b THEN name
                                       ELSE IF e = old THEN None ELSE nameOf[e]]
      /\ envOwners' = [e \in Backends |->
                         IF e = b THEN IF name \in Onnx THEN {b} ELSE {}
                                  ELSE envOwners[e] \ {old}]
      /\ backends' = [backends EXCEPT ![name] = b]
      /\ next' = next + 1
      /\ UNCHANGED <<config, initialized, sessions, owners, data, holds, use>>
  BY DEF BackendReady, handles
<1>2. name \in Names /\ name # None /\ b # None /\ old \in Backends \union {None}
  BY <1>0, <1>1, ApplicationAssumption DEF TypeOK
<1>3. TypeOK'
  <2>1. nameOf' \in [Backends -> Names \union {None}]
    BY <1>0, <1>1, <1>2 DEF TypeOK
  <2>2. envOwners' \in [Backends -> SUBSET (Backends \union Sessions)]
    BY <1>0, <1>1 DEF TypeOK
  <2>3. backends' \in [Names -> Backends \union {None}]
    BY <1>0, <1>1 DEF TypeOK
  <2>4. next' \in Nat
    BY <1>0, <1>1 DEF TypeOK
  <2>5. QED
    BY <1>0, <1>1, <2>1, <2>2, <2>3, <2>4 DEF TypeOK
<1>4. SessionOwners' /\ SessionEntries' /\ HeldNative'
  BY <1>0, <1>1 DEF SessionOwners, SessionEntries, HeldNative
<1>5. BackendEntries'
  BY <1>0, <1>1, <1>2, ApplicationAssumption DEF BackendEntries, TypeOK
<1>6. EnvOwners'
  <2> SUFFICES ASSUME NEW x \in Backends
               PROVE  /\ \A s \in Sessions : s \in envOwners'[x] <=> data[s] # None /\ data[s].env = x
                      /\ \A e \in Backends : e \in envOwners'[x] <=> e = x /\ nameOf'[x] \in Onnx
    BY <1>1 DEF EnvOwners
  <2>1. CASE x = b
    <3>1. \A s \in Sessions : s \notin envOwners'[x]
      BY <1>1, <2>1, ApplicationAssumption
    <3>2. \A s \in Sessions : ~(data[s] # None /\ data[s].env = x)
      BY <1>0, <1>1, <2>1 DEF EnvOwners
    <3>3. QED
      BY <1>1, <2>1, <3>1, <3>2
  <2>2. CASE x # b
    <3>1. envOwners'[x] = envOwners[x] \ {old}
      BY <1>1, <2>2
    <3>2. \A s \in Sessions : s # old
      BY <1>2, ApplicationAssumption
    <3>3. CASE x = old
      <4>1. nameOf'[x] \notin Onnx
        BY <1>1, <2>2, <3>3, ApplicationAssumption
      <4>2. QED
        BY <1>0, <3>1, <3>2, <3>3, <4>1 DEF EnvOwners
    <3>4. CASE x # old
      BY <1>0, <1>1, <2>2, <3>1, <3>2, <3>4 DEF EnvOwners
    <3>5. QED
      BY <3>3, <3>4
  <2>3. QED
    BY <2>1, <2>2
<1>7. NothingWithoutApplication'
  BY <1>1 DEF NothingWithoutApplication
<1>8. Progress'
  <2>0. /\ Len(Declared) \in Nat /\ next \in 1..Len(Declared) /\ Declared' = Declared
        /\ \A i \in 1..Len(Declared) : Declared[i] \in Names
    BY <1>0, <1>1, ConfigParts DEF AtBackend, Declared
  <2>1. ~initialized'
    BY <1>0, <1>1, <2>0 DEF Progress
  <2>2. BackendsDone(next - 1)'
    <3> SUFFICES ASSUME NEW i \in 1..Len(Declared), i <= next
                 PROVE  backends'[Declared[i]] # None
      BY <1>1, <2>0 DEF BackendsDone
    <3>1. CASE i = next
      BY <1>0, <1>1, <1>2, <3>1 DEF TypeOK
    <3>2. CASE i # next
      <4>1. backends[Declared[i]] # None
        BY <1>0, <1>1, <2>0, <3>2 DEF Progress, BackendsDone
      <4>2. QED
        BY <1>0, <1>1, <1>2, <2>0, <4>1 DEF TypeOK
    <3>3. QED
      BY <3>1, <3>2
  <2>3. ModelsDone(next - 1 - Len(Declared))'
    <3>1. (next - 1 - Len(Declared))' <= 0
      BY <1>1, <2>0
    <3>2. \A i \in 1..Len(config.models) : ~(i <= (next - 1 - Len(Declared))')
      BY <1>1, <2>0, <3>1
    <3>3. QED
      BY <1>1, <3>2 DEF ModelsDone
  <2>4. QED
    BY <1>1, <2>0, <2>1, <2>2, <2>3 DEF Progress
<1>9. QED
  BY <1>3, <1>4, <1>5, <1>6, <1>7, <1>8 DEF IInv


\* loadModel: a new session in the place of the one of its model.
LEMMA ModelLoadedInvariant ==
  ASSUME IInv, NEW s \in Sessions, ModelLoaded(s)
  PROVE  IInv'
<1> DEFINE m == Entry.name
           b == backends[Entry.backend]
           made == [model |-> m, env |-> b, native |-> TRUE]
           left == [x \in Sessions |-> IF x = s THEN {m} ELSE owners[x] \ {m}]
<1>0. /\ TypeOK /\ SessionOwners /\ EnvOwners /\ BackendEntries /\ SessionEntries
      /\ HeldNative /\ NothingWithoutApplication /\ Progress
  BY DEF IInv
<1>1. /\ config # None /\ AtModel /\ b # None /\ nameOf[b] \in Onnx /\ owners[s] = {}
      /\ owners' = left
      /\ data' = [x \in Sessions |-> IF left[x] = {} THEN None
                                     ELSE [data EXCEPT ![s] = made][x]]
      /\ envOwners' = [e \in Backends |-> Shared(s)[e] \ {x \in Sessions : left[x] = {}}]
      /\ sessions' = [sessions EXCEPT ![m] = s]
      /\ next' = next + 1
      /\ UNCHANGED <<config, initialized, backends, nameOf, holds, use>>
  BY DEF ModelLoaded, Load, Living, Survivors, handles
<1>2. m \in Models /\ Entry.backend \in Names /\ b \in Backends /\ s # None
  BY <1>0, <1>1, EntryParts, ApplicationAssumption DEF TypeOK
<1>3. made \in [model : Models, env : Backends, native : BOOLEAN] /\ made # None
  <2>1. made \in [model : Models, env : Backends, native : BOOLEAN]
    BY <1>2
  <2>2. QED
    BY <2>1, ApplicationAssumption
<1>4. data[s] = None
  BY <1>0, <1>1 DEF SessionOwners
<1>5. \A x \in Sessions :
        data'[x] = IF x = s THEN made ELSE IF owners[x] \ {m} = {} THEN None ELSE data[x]
  BY <1>0, <1>1 DEF TypeOK
<1>6. TypeOK'
  <2>1. owners' \in [Sessions -> SUBSET (Models \union Clients)]
    BY <1>0, <1>1, <1>2 DEF TypeOK
  <2>2. data' \in [Sessions -> [model : Models, env : Backends, native : BOOLEAN] \union {None}]
    <3>1. \A x \in Sessions :
            data'[x] \in [model : Models, env : Backends, native : BOOLEAN] \union {None}
      BY <1>0, <1>3, <1>5 DEF TypeOK
    <3>2. QED
      BY <1>1, <3>1
  <2>3. envOwners' \in [Backends -> SUBSET (Backends \union Sessions)]
    BY <1>0, <1>1 DEF TypeOK, Shared
  <2>4. sessions' \in [Models -> Sessions \union {None}]
    BY <1>0, <1>1 DEF TypeOK
  <2>5. next' \in Nat
    BY <1>0, <1>1 DEF TypeOK
  <2>6. QED
    BY <1>0, <1>1, <2>1, <2>2, <2>3, <2>4, <2>5 DEF TypeOK
<1>7. SessionOwners'
  <2> SUFFICES ASSUME NEW x \in Sessions
               PROVE  /\ \A n \in Models : n \in owners'[x] <=> sessions'[n] = x
                      /\ \A c \in Clients : c \in owners'[x] <=> holds[c] = x
                      /\ data'[x] = None <=> owners'[x] = {}
    BY <1>1 DEF SessionOwners
  <2>1. \A n \in Models : n \in owners'[x] <=> sessions'[n] = x
    BY <1>0, <1>1, <1>2 DEF SessionOwners, TypeOK
  <2>2. \A c \in Clients : c \in owners'[x] <=> holds[c] = x
    BY <1>0, <1>1, <1>2, ApplicationAssumption DEF SessionOwners
  <2>3. data'[x] = None <=> owners'[x] = {}
    BY <1>0, <1>1, <1>3, <1>5 DEF SessionOwners
  <2>4. QED
    BY <2>1, <2>2, <2>3
<1>8. EnvOwners'
  <2> SUFFICES ASSUME NEW e \in Backends
               PROVE  /\ \A x \in Sessions :
                           x \in envOwners'[e] <=> data'[x] # None /\ data'[x].env = e
                      /\ \A f \in Backends : f \in envOwners'[e] <=> f = e /\ nameOf[e] \in Onnx
    BY <1>1 DEF EnvOwners
  <2>0. envOwners'[e] = (IF e = b THEN envOwners[e] \union {s} ELSE envOwners[e])
                          \ {x \in Sessions : left[x] = {}}
    BY <1>1 DEF Shared
  <2>1. ASSUME NEW x \in Sessions
        PROVE  x \in envOwners'[e] <=> data'[x] # None /\ data'[x].env = e
    <3>1. CASE x = s
      <4>1. left[x] # {} /\ x \notin envOwners[e]
        BY <1>0, <1>4, <3>1 DEF EnvOwners
      <4>2. x \in envOwners'[e] <=> e = b
        BY <2>0, <3>1, <4>1
      <4>3. QED
        BY <1>3, <1>5, <3>1, <4>2
    <3>2. CASE x # s
      <4>1. left[x] = owners[x] \ {m}
        BY <3>2
      <4>2. x \in envOwners'[e] <=> x \in envOwners[e] /\ owners[x] \ {m} # {}
        BY <2>0, <3>2, <4>1
      <4>3. QED
        BY <1>0, <1>5, <3>2, <4>2 DEF EnvOwners
    <3>3. QED
      BY <3>1, <3>2
  <2>2. \A f \in Backends : f \in envOwners'[e] <=> f = e /\ nameOf[e] \in Onnx
    BY <1>0, <2>0, ApplicationAssumption DEF EnvOwners
  <2>3. QED
    BY <2>1, <2>2
<1>9. BackendEntries'
  BY <1>0, <1>1 DEF BackendEntries
<1>10. SessionEntries'
  <2> SUFFICES ASSUME NEW n \in Models, sessions'[n] # None
               PROVE  data'[sessions'[n]].model = n /\ data'[sessions'[n]].native
    BY DEF SessionEntries
  <2>1. CASE n = m
    BY <1>0, <1>1, <1>2, <1>5, <2>1 DEF TypeOK
  <2>2. CASE n # m
    <3>1. /\ sessions'[n] = sessions[n] /\ sessions[n] \in Sessions
          /\ n \in owners[sessions[n]]
      BY <1>0, <1>1, <2>2 DEF TypeOK, SessionOwners
    <3>2. data'[sessions[n]] = data[sessions[n]]
      BY <1>1, <1>5, <2>2, <3>1
    <3>3. QED
      BY <1>0, <3>1, <3>2 DEF SessionEntries
  <2>3. QED
    BY <2>1, <2>2
<1>11. HeldNative'
  <2> SUFFICES ASSUME NEW c \in Clients, use[c] \in {"session", "pipeline", "running"}
               PROVE  data'[holds[c]].native
    BY <1>1 DEF HeldNative
  <2>1. holds[c] \in Sessions /\ c \in owners[holds[c]]
    BY <1>0 DEF TypeOK, SessionOwners
  <2>2. holds[c] # s /\ c \in owners[holds[c]] \ {m}
    BY <1>1, <1>2, <2>1, ApplicationAssumption
  <2>3. data'[holds[c]] = data[holds[c]]
    BY <1>5, <2>1, <2>2
  <2>4. QED
    BY <1>0, <2>3 DEF HeldNative
<1>12. NothingWithoutApplication'
  BY <1>1 DEF NothingWithoutApplication
<1>13. Progress'
  <2>0. /\ Len(Declared) \in Nat /\ Len(config.models) \in Nat /\ Declared' = Declared
        /\ next \in (Len(Declared) + 1)..(Len(Declared) + Len(config.models))
        /\ next - Len(Declared) \in 1..Len(config.models)
    BY <1>0, <1>1, ConfigParts, EntryParts DEF AtModel, Declared
  <2>1. ~initialized' /\ BackendsDone(next - 1) /\ ModelsDone(next - 1 - Len(Declared))
    BY <1>0, <1>1, <2>0 DEF Progress
  <2>2. BackendsDone(next - 1)'
    <3>1. BackendsDone(Len(Declared))
      BY <2>0, <2>1 DEF BackendsDone
    <3>2. QED
      BY <1>1, <2>0, <3>1 DEF BackendsDone
  <2>3. ModelsDone(next - 1 - Len(Declared))'
    <3> SUFFICES ASSUME NEW i \in 1..Len(config.models), i <= next - Len(Declared)
                 PROVE  ModelDone(i)'
      BY <1>1, <2>0 DEF ModelsDone
    <3>1. config.models[i].name \in Models /\ config.models[i].backend \in Names
      BY <1>0, <1>1, ConfigParts
    <3>2. CASE i = next - Len(Declared)
      <4>1. config.models[i] = Entry
        BY <3>2 DEF Entry
      <4>2. sessions'[m] = s /\ data'[s] = made
        BY <1>0, <1>1, <1>2, <1>5 DEF TypeOK
      <4>3. /\ config'.models[i].name = m /\ config'.models[i].backend = Entry.backend
            /\ backends'[Entry.backend] = b /\ nameOf'[b] \in Onnx
        BY <1>1, <4>1
      <4>4. sessions'[m] # None /\ data'[sessions'[m]].env = b
        BY <1>2, <4>2
      <4> HIDE DEF m, b, made
      <4>5. QED
        BY <1>1, <4>3, <4>4 DEF ModelDone
    <3>3. CASE i # next - Len(Declared)
      <4>1. i <= next - 1 - Len(Declared)
        BY <2>0, <3>3
      <4>2. ModelDone(i)
        BY <2>1, <4>1 DEF ModelsDone
      <4>3. config.models[i].name # m
        BY <1>0, <1>1, <2>0, <3>3, ConfigParts DEF Entry
      <4>4. /\ sessions'[config.models[i].name] = sessions[config.models[i].name]
            /\ sessions[config.models[i].name] \in Sessions
        BY <1>0, <1>1, <3>1, <4>2, <4>3 DEF TypeOK, ModelDone
      <4>5. data'[sessions[config.models[i].name]] = data[sessions[config.models[i].name]]
        BY <1>0, <1>1, <1>5, <3>1, <4>3, <4>4 DEF SessionOwners
      <4>6. QED
        BY <1>1, <4>2, <4>4, <4>5 DEF ModelDone
    <3>4. QED
      BY <3>2, <3>3
  <2>4. QED
    BY <1>1, <2>0, <2>1, <2>2, <2>3 DEF Progress
<1>14. QED
  BY <1>6, <1>7, <1>8, <1>9, <1>10, <1>11, <1>12, <1>13 DEF IInv


\* shutdown() and the destructor: the entries give up what they own.
LEMMA ClearInvariant ==
  ASSUME IInv, Shutdown \/ Destroy
  PROVE  IInv'
<1>0. /\ TypeOK /\ SessionOwners /\ EnvOwners /\ BackendEntries /\ SessionEntries
      /\ HeldNative /\ NothingWithoutApplication /\ Progress
  BY DEF IInv
<1>1. /\ sessions' = [m \in Models |-> None] /\ backends' = [n \in Names |-> None]
      /\ initialized' = FALSE /\ next = 0 /\ next' = 0
      /\ nameOf' = [b \in Backends |-> None]
      /\ owners' = [s \in Sessions |-> owners[s] \ Models]
      /\ envOwners' = [b \in Backends |-> [x \in Backends |-> envOwners[x] \ Backends][b]
                                            \ {s \in Sessions : owners'[s] = {}}]
      /\ data' = [s \in Sessions |-> IF owners'[s] = {} THEN None ELSE data[s]]
      /\ UNCHANGED <<holds, use>>
      /\ config' = config \/ config' = None
  BY DEF Shutdown, Destroy, Clear, Calls, Survivors, Living, handles
<1>2. TypeOK'
  <2>1. owners' \in [Sessions -> SUBSET (Models \union Clients)]
    BY <1>0, <1>1 DEF TypeOK
  <2>2. envOwners' \in [Backends -> SUBSET (Backends \union Sessions)]
    BY <1>0, <1>1 DEF TypeOK
  <2>3. data' \in [Sessions -> [model : Models, env : Backends, native : BOOLEAN] \union {None}]
    BY <1>0, <1>1 DEF TypeOK
  <2>4. config' \in Configs \union {None}
    BY <1>0, <1>1 DEF TypeOK
  <2>5. initialized' \in BOOLEAN /\ next' \in Nat
    BY <1>1
  <2>6. QED
    BY <1>0, <1>1, <2>1, <2>2, <2>3, <2>4, <2>5 DEF TypeOK
<1>3. SessionOwners'
  <2> SUFFICES ASSUME NEW s \in Sessions
               PROVE  /\ \A m \in Models : m \in owners'[s] <=> sessions'[m] = s
                      /\ \A c \in Clients : c \in owners'[s] <=> holds[c] = s
                      /\ data'[s] = None <=> owners'[s] = {}
    BY <1>1 DEF SessionOwners
  <2>1. \A m \in Models : m \in owners'[s] <=> sessions'[m] = s
    BY <1>1, ApplicationAssumption
  <2>2. \A c \in Clients : c \in owners'[s] <=> holds[c] = s
    BY <1>0, <1>1, ApplicationAssumption DEF SessionOwners
  <2>3. data'[s] = None <=> owners'[s] = {}
    BY <1>0, <1>1 DEF SessionOwners
  <2>4. QED
    BY <2>1, <2>2, <2>3
<1>4. EnvOwners'
  BY <1>0, <1>1, ApplicationAssumption DEF EnvOwners
<1>5. BackendEntries' /\ SessionEntries'
  BY <1>1, ApplicationAssumption DEF BackendEntries, SessionEntries
<1>6. HeldNative'
  <2> SUFFICES ASSUME NEW c \in Clients, use[c] \in {"session", "pipeline", "running"}
               PROVE  data'[holds[c]].native
    BY <1>1 DEF HeldNative
  <2>1. holds[c] \in Sessions /\ c \in owners[holds[c]]
    BY <1>0 DEF TypeOK, SessionOwners
  <2>2. c \in owners'[holds[c]]
    BY <1>1, <2>1, ApplicationAssumption
  <2>3. QED
    BY <1>0, <1>1, <2>1, <2>2 DEF HeldNative
<1>7. NothingWithoutApplication' /\ Progress'
  BY <1>1 DEF NothingWithoutApplication, Progress
<1>8. QED
  BY <1>2, <1>3, <1>4, <1>5, <1>6, <1>7 DEF IInv

\* getSession() and createPipeline(): one more owner.
LEMMA HandInvariant ==
  ASSUME IInv, NEW c \in Clients, NEW m \in Models, NEW what \in {"session", "pipeline"},
         Hand(c, m, what)
  PROVE  IInv'
<1>0. /\ TypeOK /\ SessionOwners /\ EnvOwners /\ BackendEntries /\ SessionEntries
      /\ HeldNative /\ NothingWithoutApplication /\ Progress
  BY DEF IInv
<1>1. /\ holds[c] = None /\ sessions[m] # None
      /\ holds' = [holds EXCEPT ![c] = sessions[m]]
      /\ use' = [use EXCEPT ![c] = what]
      /\ owners' = [owners EXCEPT ![sessions[m]] = @ \union {c}]
      /\ UNCHANGED <<config, initialized, next, backends, sessions, nameOf, envOwners, data>>
  BY DEF Hand, app
<1>2. sessions[m] \in Sessions
  BY <1>0, <1>1 DEF TypeOK
<1>3. TypeOK'
  <2>1. owners' \in [Sessions -> SUBSET (Models \union Clients)]
    BY <1>0, <1>1, <1>2 DEF TypeOK
  <2>2. holds' \in [Clients -> Sessions \union {None}]
    BY <1>0, <1>1, <1>2 DEF TypeOK
  <2>3. use' \in [Clients -> {"nothing", "session", "pipeline", "running", "released"}]
    BY <1>0, <1>1 DEF TypeOK
  <2>4. \A d \in Clients : use'[d] = "nothing" <=> holds'[d] = None
    BY <1>0, <1>1 DEF TypeOK
  <2>5. QED
    BY <1>0, <1>1, <2>1, <2>2, <2>3, <2>4 DEF TypeOK
<1>4. SessionOwners'
  <2> SUFFICES ASSUME NEW s \in Sessions
               PROVE  /\ \A n \in Models : n \in owners'[s] <=> sessions[n] = s
                      /\ \A d \in Clients : d \in owners'[s] <=> holds'[d] = s
                      /\ data[s] = None <=> owners'[s] = {}
    BY <1>1 DEF SessionOwners
  <2>1. owners'[s] = IF s = sessions[m] THEN owners[s] \union {c} ELSE owners[s]
    BY <1>0, <1>1, <1>2 DEF TypeOK
  <2>2. \A n \in Models : n \in owners'[s] <=> sessions[n] = s
    BY <1>0, <2>1, ApplicationAssumption DEF SessionOwners
  <2>3. \A d \in Clients : d \in owners'[s] <=> holds'[d] = s
    BY <1>0, <1>1, <2>1, ApplicationAssumption DEF SessionOwners, TypeOK
  <2>4. data[s] = None <=> owners'[s] = {}
    BY <1>0, <2>1 DEF SessionOwners
  <2>5. QED
    BY <2>2, <2>3, <2>4
<1>5. HeldNative'
  BY <1>0, <1>1 DEF HeldNative, SessionEntries, TypeOK
<1>6. EnvOwners' /\ BackendEntries' /\ SessionEntries' /\ NothingWithoutApplication'
  BY <1>0, <1>1 DEF EnvOwners, BackendEntries, SessionEntries, NothingWithoutApplication
<1>7. Progress'
  BY <1>0, <1>1, DoneUnchanged DEF Progress, Declared
<1>8. QED
  BY <1>3, <1>4, <1>5, <1>6, <1>7 DEF IInv


\* A run of the inference stage begins or ends.
LEMMA RunInvariant ==
  ASSUME IInv, NEW c \in Clients, RunBegin(c) \/ RunEnd(c)
  PROVE  IInv'
<1>0. /\ TypeOK /\ SessionOwners /\ EnvOwners /\ BackendEntries /\ SessionEntries
      /\ HeldNative /\ NothingWithoutApplication /\ Progress
  BY DEF IInv
<1>1. /\ use[c] \in {"pipeline", "running"}
      /\ \E what \in {"pipeline", "running"} : use' = [use EXCEPT ![c] = what]
      /\ UNCHANGED <<config, initialized, next, backends, sessions, nameOf, envOwners,
                     owners, data, holds>>
  BY DEF RunBegin, RunEnd, app, objects
<1>2. TypeOK'
  <2>1. use' \in [Clients -> {"nothing", "session", "pipeline", "running", "released"}]
    BY <1>0, <1>1 DEF TypeOK
  <2>2. \A d \in Clients : use'[d] = "nothing" <=> holds[d] = None
    BY <1>0, <1>1 DEF TypeOK
  <2>3. QED
    BY <1>0, <1>1, <2>1, <2>2 DEF TypeOK
<1>3. HeldNative'
  BY <1>0, <1>1 DEF HeldNative, TypeOK
<1>4. SessionOwners' /\ EnvOwners' /\ BackendEntries' /\ SessionEntries'
      /\ NothingWithoutApplication'
  BY <1>0, <1>1 DEF SessionOwners, EnvOwners, BackendEntries, SessionEntries,
                    NothingWithoutApplication
<1>5. Progress'
  BY <1>0, <1>1, DoneUnchanged DEF Progress, Declared
<1>6. QED
  BY <1>2, <1>3, <1>4, <1>5 DEF IInv

\* A pipeline or a shared_ptr goes: one owner less.
LEMMA DropInvariant ==
  ASSUME IInv, NEW c \in Clients, Drop(c)
  PROVE  IInv'
<1>0. /\ TypeOK /\ SessionOwners /\ EnvOwners /\ BackendEntries /\ SessionEntries
      /\ HeldNative /\ NothingWithoutApplication /\ Progress
  BY DEF IInv
<1>1. /\ owners' = [s \in Sessions |-> owners[s] \ {c}]
      /\ envOwners' = [b \in Backends |-> envOwners[b] \ {s \in Sessions : owners'[s] = {}}]
      /\ data' = [s \in Sessions |-> IF owners'[s] = {} THEN None ELSE data[s]]
      /\ holds' = [holds EXCEPT ![c] = None]
      /\ use' = [use EXCEPT ![c] = "nothing"]
      /\ UNCHANGED <<config, initialized, next, backends, sessions, nameOf>>
  BY DEF Drop, Survivors, Living, app
<1>2. TypeOK'
  <2>1. owners' \in [Sessions -> SUBSET (Models \union Clients)]
    BY <1>0, <1>1 DEF TypeOK
  <2>2. envOwners' \in [Backends -> SUBSET (Backends \union Sessions)]
    BY <1>0, <1>1 DEF TypeOK
  <2>3. data' \in [Sessions -> [model : Models, env : Backends, native : BOOLEAN] \union {None}]
    BY <1>0, <1>1 DEF TypeOK
  <2>4. holds' \in [Clients -> Sessions \union {None}]
    BY <1>0, <1>1 DEF TypeOK
  <2>5. use' \in [Clients -> {"nothing", "session", "pipeline", "running", "released"}]
    BY <1>0, <1>1 DEF TypeOK
  <2>6. \A d \in Clients : use'[d] = "nothing" <=> holds'[d] = None
    BY <1>0, <1>1 DEF TypeOK
  <2>7. QED
    BY <1>0, <1>1, <2>1, <2>2, <2>3, <2>4, <2>5, <2>6 DEF TypeOK
<1>3. SessionOwners'
  <2> SUFFICES ASSUME NEW s \in Sessions
               PROVE  /\ \A m \in Models : m \in owners'[s] <=> sessions[m] = s
                      /\ \A d \in Clients : d \in owners'[s] <=> holds'[d] = s
                      /\ data'[s] = None <=> owners'[s] = {}
    BY <1>1 DEF SessionOwners
  <2>1. \A m \in Models : m \in owners'[s] <=> sessions[m] = s
    BY <1>0, <1>1, ApplicationAssumption DEF SessionOwners
  <2>2. \A d \in Clients : d \in owners'[s] <=> holds'[d] = s
    BY <1>0, <1>1, ApplicationAssumption DEF SessionOwners, TypeOK
  <2>3. data'[s] = None <=> owners'[s] = {}
    BY <1>0, <1>1 DEF SessionOwners
  <2>4. QED
    BY <2>1, <2>2, <2>3
<1>4. EnvOwners'
  BY <1>0, <1>1, ApplicationAssumption DEF EnvOwners
<1>5. BackendEntries' /\ NothingWithoutApplication'
  BY <1>0, <1>1 DEF BackendEntries, NothingWithoutApplication
<1>6. \A m \in Models : sessions[m] # None => data'[sessions[m]] = data[sessions[m]]
  <2> SUFFICES ASSUME NEW m \in Models, sessions[m] # None
               PROVE  data'[sessions[m]] = data[sessions[m]]
    OBVIOUS
  <2>1. sessions[m] \in Sessions /\ m \in owners[sessions[m]] /\ m # c
    BY <1>0, ApplicationAssumption DEF TypeOK, SessionOwners
  <2>2. owners'[sessions[m]] # {}
    BY <1>1, <2>1
  <2>3. QED
    BY <1>1, <2>1, <2>2
<1>7. SessionEntries'
  <2> SUFFICES ASSUME NEW m \in Models, sessions[m] # None
               PROVE  data'[sessions[m]].model = m /\ data'[sessions[m]].native
    BY <1>1 DEF SessionEntries
  <2>1. data'[sessions[m]] = data[sessions[m]]
    BY <1>6
  <2>2. QED
    BY <1>0, <2>1 DEF SessionEntries
<1>8. HeldNative'
  <2> SUFFICES ASSUME NEW d \in Clients, use'[d] \in {"session", "pipeline", "running"}
               PROVE  data'[holds'[d]].native
    BY DEF HeldNative
  <2>1. d # c /\ holds'[d] = holds[d] /\ use[d] = use'[d]
    BY <1>0, <1>1 DEF TypeOK
  <2>2. holds[d] \in Sessions /\ d \in owners[holds[d]]
    BY <1>0, <2>1 DEF TypeOK, SessionOwners
  <2>3. owners'[holds[d]] # {}
    BY <1>1, <2>1, <2>2
  <2>4. QED
    BY <1>0, <1>1, <2>1, <2>2, <2>3 DEF HeldNative
<1>9. Progress'
  <2> SUFFICES ASSUME config # None PROVE Progress'
    BY <1>1 DEF Progress
  <2>1. \A i \in 1..Len(config.models) : config.models[i].name \in Models
    BY <1>0, ConfigParts
  <2>2. \A i \in 1..Len(config.models) : ModelDone(i) => ModelDone(i)'
    BY <1>1, <1>6, <2>1 DEF ModelDone
  <2>3. \A k : BackendsDone(k)' <=> BackendsDone(k)
    BY <1>1 DEF BackendsDone, Declared
  <2>4. \A k : ModelsDone(k) => ModelsDone(k)'
    BY <1>1, <2>2 DEF ModelsDone
  <2>5. QED
    BY <1>0, <1>1, <2>3, <2>4 DEF Progress, Declared
<1>10. QED
  BY <1>2, <1>3, <1>4, <1>5, <1>7, <1>8, <1>9 DEF IInv

\* The last owner releases the session.
LEMMA ReleaseInvariant ==
  ASSUME IInv, NEW c \in Clients, Release(c)
  PROVE  IInv'
<1> DEFINE h == holds[c]
<1>0. /\ TypeOK /\ SessionOwners /\ EnvOwners /\ BackendEntries /\ SessionEntries
      /\ HeldNative /\ NothingWithoutApplication /\ Progress
  BY DEF IInv
<1>1. /\ use[c] = "session" /\ owners[h] = {c}
      /\ data' = [data EXCEPT ![h].native = FALSE]
      /\ use' = [use EXCEPT ![c] = "released"]
      /\ UNCHANGED <<config, initialized, next, backends, sessions, nameOf, envOwners,
                     owners, holds>>
  BY DEF Release, app
<1>2. h \in Sessions /\ data[h] # None
  BY <1>0, <1>1 DEF TypeOK, SessionOwners
<1>3. data[h] \in [model : Models, env : Backends, native : BOOLEAN]
  BY <1>0, <1>2 DEF TypeOK
<1>4. /\ \A s \in Sessions : s # h => data'[s] = data[s]
      /\ data'[h] = [data[h] EXCEPT !.native = FALSE]
      /\ DOMAIN data' = Sessions
  BY <1>0, <1>1, <1>2 DEF TypeOK
<1>5. /\ data'[h] \in [model : Models, env : Backends, native : BOOLEAN]
      /\ data'[h].env = data[h].env
  BY <1>3, <1>4
<1>6. data'[h] # None
  BY <1>5, ApplicationAssumption
<1>7. \A s \in Sessions : (data'[s] = None <=> data[s] = None)
                          /\ (data[s] # None => data'[s].env = data[s].env)
  BY <1>2, <1>4, <1>5, <1>6
<1>8. TypeOK'
  <2>1. data' \in [Sessions -> [model : Models, env : Backends, native : BOOLEAN] \union {None}]
    BY <1>0, <1>1, <1>4, <1>5 DEF TypeOK
  <2>2. use' \in [Clients -> {"nothing", "session", "pipeline", "running", "released"}]
    BY <1>0, <1>1 DEF TypeOK
  <2>3. \A d \in Clients : use'[d] = "nothing" <=> holds[d] = None
    BY <1>0, <1>1 DEF TypeOK
  <2>4. QED
    BY <1>0, <1>1, <2>1, <2>2, <2>3 DEF TypeOK
<1>9. SessionOwners' /\ EnvOwners'
  BY <1>0, <1>1, <1>7 DEF SessionOwners, EnvOwners
<1>10. \A m \in Models : sessions[m] # None => sessions[m] \in Sessions /\ sessions[m] # h
  BY <1>0, <1>1, ApplicationAssumption DEF TypeOK, SessionOwners
<1>11. SessionEntries'
  <2> SUFFICES ASSUME NEW m \in Models, sessions[m] # None
               PROVE  data'[sessions[m]].model = m /\ data'[sessions[m]].native
    BY <1>1 DEF SessionEntries
  <2>1. data'[sessions[m]] = data[sessions[m]]
    BY <1>4, <1>10
  <2>2. QED
    BY <1>0, <2>1 DEF SessionEntries
<1>12. HeldNative'
  <2> SUFFICES ASSUME NEW d \in Clients, use'[d] \in {"session", "pipeline", "running"}
               PROVE  data'[holds[d]].native
    BY <1>1 DEF HeldNative
  <2>1. d # c /\ use[d] = use'[d]
    BY <1>0, <1>1 DEF TypeOK
  <2>2. holds[d] \in Sessions /\ d \in owners[holds[d]]
    BY <1>0, <2>1 DEF TypeOK, SessionOwners
  <2>3. holds[d] # h
    BY <1>1, <2>1, <2>2
  <2>4. QED
    BY <1>0, <1>4, <2>1, <2>2, <2>3 DEF HeldNative
<1>13. BackendEntries' /\ NothingWithoutApplication'
  BY <1>0, <1>1 DEF BackendEntries, NothingWithoutApplication
<1>14. Progress'
  <2> SUFFICES ASSUME config # None PROVE Progress'
    BY <1>1 DEF Progress
  <2>1. \A i \in 1..Len(config.models) : config.models[i].name \in Models
    BY <1>0, ConfigParts
  <2>2. \A i \in 1..Len(config.models) : ModelDone(i) => ModelDone(i)'
    BY <1>1, <1>4, <1>10, <2>1 DEF ModelDone
  <2>3. \A k : BackendsDone(k)' <=> BackendsDone(k)
    BY <1>1 DEF BackendsDone, Declared
  <2>4. \A k : ModelsDone(k) => ModelsDone(k)'
    BY <1>1, <2>2 DEF ModelsDone
  <2>5. QED
    BY <1>0, <1>1, <2>3, <2>4 DEF Progress, Declared
<1>15. QED
  BY <1>8, <1>9, <1>11, <1>12, <1>13, <1>14 DEF IInv

-----------------------------------------------------------------------------
(***************************************************************************)
(* Theorems                                                                *)
(***************************************************************************)

\* The owners of sessions and environments are what refers to them, and
\* initialize() has made what it has passed.
THEOREM Invariance == Spec => []IInv
<1>1. Init => IInv
  BY InitInvariant
<1>2. IInv /\ [Next]_vars => IInv'
  <2> SUFFICES ASSUME IInv, [Next]_vars PROVE IInv'
    OBVIOUS
  <2>1. ASSUME NEW cfg \in Configs, Create(cfg) PROVE IInv'
    BY <2>1, CreateInvariant
  <2>2. CASE Initialize
    BY <2>2, InitializeMovesInvariant, BackendReadyInvariant, ModelLoadedInvariant
    DEF Initialize
  <2>3. CASE Shutdown \/ Destroy
    BY <2>3, ClearInvariant
  <2>4. ASSUME NEW c \in Clients, ClientStep(c) PROVE IInv'
    <3>1. ASSUME NEW m \in Models, GetSession(c, m) PROVE IInv'
      BY <3>1, HandInvariant DEF GetSession
    <3>2. ASSUME NEW m \in Models, CreatePipeline(c, m) PROVE IInv'
      BY <3>2, HandInvariant DEF CreatePipeline
    <3>3. QED
      BY <2>4, <3>1, <3>2, RunInvariant, DropInvariant, ReleaseInvariant DEF ClientStep
  <2>5. CASE UNCHANGED vars
    <3>1. UNCHANGED <<config, initialized, next, backends, sessions, nameOf, envOwners,
                      owners, data, holds, use>>
      BY <2>5 DEF vars, app, objects, handles
    <3>2. TypeOK' /\ SessionOwners' /\ EnvOwners' /\ BackendEntries'
      BY <3>1 DEF IInv, TypeOK, SessionOwners, EnvOwners, BackendEntries
    <3>3. SessionEntries' /\ HeldNative' /\ NothingWithoutApplication'
      BY <3>1 DEF IInv, SessionEntries, HeldNative, NothingWithoutApplication
    <3>4. Progress'
      BY <3>1, DoneUnchanged DEF IInv, Progress, Declared
    <3>5. QED
      BY <3>2, <3>3, <3>4 DEF IInv
  <2>6. QED
    BY <2>1, <2>2, <2>3, <2>4, <2>5 DEF Next
<1>3. QED
  BY <1>1, <1>2, PTL DEF Spec

\* The type invariant.
THEOREM TypeCorrect == Spec => []TypeOK
<1>1. IInv => TypeOK
  BY DEF IInv
<1>2. QED
  BY <1>1, Invariance, PTL

\* Whatever shutdown(), the destructor or another initialize() do, a session or
\* a pipeline that a client keeps stays usable.
THEOREM HandlesStayUsableHolds == Spec => []HandlesStayUsable
<1>1. IInv => HandlesStayUsable
  <2> SUFFICES ASSUME IInv, NEW c \in Clients, use[c] \in {"session", "pipeline", "running"}
               PROVE  /\ c \in owners[holds[c]]
                      /\ data[holds[c]].native
                      /\ envOwners[data[holds[c]].env] # {}
    BY DEF HandlesStayUsable
  <2>1. holds[c] \in Sessions /\ c \in owners[holds[c]]
    BY DEF IInv, TypeOK, SessionOwners
  <2>2. data[holds[c]] # None /\ data[holds[c]].env \in Backends
    BY <2>1 DEF IInv, TypeOK, SessionOwners
  <2>3. holds[c] \in envOwners[data[holds[c]].env]
    BY <2>1, <2>2 DEF IInv, EnvOwners
  <2>4. QED
    BY <2>1, <2>3 DEF IInv, HeldNative
<1>2. QED
  BY <1>1, Invariance, PTL

\* An initialized application has every declared backend and the session of
\* every declared model, made by the backend that is there, after any number of
\* failed attempts.
THEOREM InitializedIsCompleteHolds == Spec => []InitializedIsComplete
<1>1. IInv => InitializedIsComplete
  <2> SUFFICES ASSUME IInv, initialized PROVE InitializedIsComplete
    BY DEF InitializedIsComplete
  <2>1. config # None /\ TypeOK
    BY DEF IInv, NothingWithoutApplication
  <2>2. BackendsDone(Len(Declared)) /\ ModelsDone(Len(config.models))
    BY <2>1 DEF IInv, Progress
  <2>3. ASSUME NEW i \in 1..Len(Declared)
        PROVE  backends[Declared[i]] # None /\ nameOf[backends[Declared[i]]] = Declared[i]
    <3>1. Declared[i] \in Names /\ i <= Len(Declared)
      BY <2>1, ConfigParts
    <3>2. backends[Declared[i]] # None
      BY <2>2, <3>1 DEF BackendsDone
    <3>3. QED
      BY <2>1, <3>1, <3>2 DEF IInv, TypeOK, BackendEntries
  <2>4. ASSUME NEW i \in 1..Len(config.models)
        PROVE  LET m == config.models[i].name
                   b == backends[config.models[i].backend]
               IN  /\ sessions[m] # None /\ data[sessions[m]].model = m
                   /\ b # None /\ data[sessions[m]].env = b
                   /\ b \in envOwners[b]
    <3> DEFINE m == config.models[i].name
               b == backends[config.models[i].backend]
    <3>1. i <= Len(config.models) /\ m \in Models /\ config.models[i].backend \in Names
      BY <2>1, ConfigParts
    <3>2. sessions[m] # None /\ b # None /\ nameOf[b] \in Onnx /\ data[sessions[m]].env = b
      BY <2>2, <3>1 DEF ModelsDone, ModelDone
    <3>3. b \in Backends
      BY <2>1, <3>1, <3>2 DEF TypeOK
    <3>4. b \in envOwners[b]
      BY <3>2, <3>3 DEF IInv, EnvOwners
    <3>5. data[sessions[m]].model = m
      BY <3>1, <3>2 DEF IInv, SessionEntries
    <3>6. QED
      BY <3>2, <3>4, <3>5
  <2>5. QED
    BY <2>1, <2>3, <2>4 DEF InitializedIsComplete
<1>2. QED
  BY <1>1, Invariance, PTL

\* Nothing is left of an application that nobody uses any more.
THEOREM NothingLeaksHolds == Spec => []NothingLeaks
<1>1. IInv => NothingLeaks
  <2> SUFFICES ASSUME IInv, config = None, \A c \in Clients : holds[c] = None
               PROVE  /\ \A b \in Backends : nameOf[b] = None /\ envOwners[b] = {}
                      /\ \A s \in Sessions : owners[s] = {}
    BY DEF NothingLeaks
  <2>1. \A s \in Sessions : owners[s] = {} /\ data[s] = None
    <3> SUFFICES ASSUME NEW s \in Sessions PROVE owners[s] = {} /\ data[s] = None
      OBVIOUS
    <3>1. s # None
      BY ApplicationAssumption
    <3>2. \A m \in Models : m \notin owners[s]
      BY <3>1 DEF IInv, SessionOwners, NothingWithoutApplication
    <3>3. \A c \in Clients : c \notin owners[s]
      BY <3>1 DEF IInv, SessionOwners
    <3>4. owners[s] \subseteq Models \union Clients
      BY DEF IInv, TypeOK
    <3>5. owners[s] = {}
      BY <3>2, <3>3, <3>4
    <3>6. QED
      BY <3>5 DEF IInv, SessionOwners
  <2>2. \A b \in Backends : nameOf[b] = None
    BY ApplicationAssumption DEF IInv, TypeOK, BackendEntries, NothingWithoutApplication
  <2>3. \A b \in Backends : envOwners[b] = {}
    <3> SUFFICES ASSUME NEW b \in Backends PROVE envOwners[b] = {}
      OBVIOUS
    <3>1. \A s \in Sessions : s \notin envOwners[b]
      BY <2>1 DEF IInv, EnvOwners
    <3>2. \A e \in Backends : e \notin envOwners[b]
      BY <2>2, ApplicationAssumption DEF IInv, EnvOwners
    <3>3. envOwners[b] \subseteq Backends \union Sessions
      BY DEF IInv, TypeOK
    <3>4. QED
      BY <3>1, <3>2, <3>3
  <2>4. QED
    BY <2>1, <2>2, <2>3
<1>2. QED
  BY <1>1, Invariance, PTL

=============================================================================
