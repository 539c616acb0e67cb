---------------------------- MODULE MCEmbeddings ----------------------------
(* Embeddings.tla on a small instance.                                     *)
EXTENDS Embeddings

\* a tunnel first and the proxy alone next; beside it a model of another
\* channel, without a proxy, or of none
MCOrders == [r1 |-> {<<"tunnel", "plain">>}, r2 |-> {<<>>, <<"direct">>}]
=============================================================================
