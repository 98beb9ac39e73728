--------------------------- MODULE MCInferenceKeys ---------------------------
(***************************************************************************)
(* The store of keys, for TLC: two models, one the configuration lacks,    *)
(* and requests whose items partly fail, repeat a model, or are invalid.   *)
(***************************************************************************)
EXTENDS InferenceKeys

KeyAsk(action, items) == [action |-> action, items |-> items]
KeyItem(m, k) == [model |-> m, key |-> k]
MCKeyRequests ==
  {KeyAsk("set", <<KeyItem("m1", "k1"), KeyItem("gone", "k0"), KeyItem("m1", "k3"), KeyItem("m2", "k2")>>),
   KeyAsk("set", <<KeyItem("m2", "k4")>>), KeyAsk("delete", <<KeyItem("m1", ""), KeyItem("gone", "")>>),
   KeyAsk("set", <<KeyItem("m1", "k1"), KeyItem("m2", "")>>), KeyAsk("set", <<>>),
   KeyAsk("set", <<KeyItem("gone", "k0")>>)}
=============================================================================
