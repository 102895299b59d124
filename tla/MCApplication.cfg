CONSTANTS
  onnx = onnx  tensorrt = tensorrt  other = other
  ma = ma  mb = mb
  b1 = b1  b2 = b2  b3 = b3  b4 = b4
  s1 = s1  s2 = s2  s3 = s3  s4 = s4
  c1 = c1  c2 = c2
  None = None
  Names <- AllNames
  Registered <- RegisteredNames
  Onnx <- OnnxNames
  Models <- TwoModels
  Configs <- SomeConfigs
  Backends <- FourBackends
  Sessions <- FourSessions
  Clients <- TwoClients
SPECIFICATION Spec
SYMMETRY Symmetry
INVARIANTS
  TypeOK
  HandlesStayUsable
  InitializedIsComplete
  NothingLeaks
CHECK_DEADLOCK FALSE
