----------------------------- MODULE MCLifecycle -----------------------------
(***************************************************************************)
(* Lifecycle for TLC: two workers with a hook between them that may fail,  *)
(* and two holders of their handles; a server of each kind after a worker; *)
(* two servers and a holder that drops its wait.                           *)
(***************************************************************************)
EXTENDS Lifecycle

CONSTANTS w1, w2, h1, u1, u2

MCKind == [s \in Servers |-> s]
MCApps ==
  {[start |-> <<w1, h1, w2>>, stop |-> <<w1, h1, w2>>, order |-> <<"http">>, users |-> {u1, u2}],
   [start |-> <<w1>>, stop |-> <<w1>>, order |-> <<"http", "grpc", "ws">>, users |-> {}],
   [start |-> <<w1>>, stop |-> <<w1>>, order |-> <<"ws", "grpc">>, users |-> {u1}]}
=============================================================================
