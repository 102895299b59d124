--------------------------- MODULE MCApplication ---------------------------
(* An instance of Application for TLC. *)
EXTENDS Application, TLC

CONSTANTS onnx, tensorrt, other, ma, mb, b1, b2, b3, b4, s1, s2, s3, s4, c1, c2

AllNames == {onnx, tensorrt, other}
RegisteredNames == {onnx, tensorrt}
OnnxNames == {onnx}
TwoModels == {ma, mb}
FourBackends == {b1, b2, b3, b4}
FourSessions == {s1, s2, s3, s4}
TwoClients == {c1, c2}

On(m, n) == [name |-> m, backend |-> n]
Config(ns, ms) == [default |-> onnx, backends |-> ns, models |-> ms]

\* The shipped registry (no backends declared), one backend listed twice, a
\* second backend that serves no model or one that it cannot load, and a
\* backend nobody registered.
SomeConfigs ==
  { Config(<<>>, <<On(ma, onnx), On(mb, onnx)>>),
    Config(<<onnx, onnx>>, <<On(ma, onnx)>>),
    Config(<<tensorrt, onnx>>, <<On(ma, onnx), On(mb, onnx)>>),
    Config(<<onnx, tensorrt>>, <<On(ma, onnx), On(mb, tensorrt)>>),
    Config(<<onnx, other>>, <<On(ma, onnx)>>) }

Symmetry ==
  Permutations(Backends) \union Permutations(Sessions) \union Permutations(Clients)

=============================================================================
