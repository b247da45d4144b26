----------------------------- MODULE MCItchParser -----------------------------
(* Small instances of ItchParser for TLC.                                  *)
EXTENDS ItchParser

\* The replay engine registers every callback; a parser may lack some.
AllCallbacks == {Callback[t] : t \in DOMAIN Callback}

MCCallbackSets == {AllCallbacks, AllCallbacks \ {"on_order_delete", "on_add_order"}}

MCLengthErrors == {-1, 0, 1}

=============================================================================
