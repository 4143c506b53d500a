----------------------------- MODULE MCExchange -----------------------------
(***************************************************************************)
(* Small instances of ExchangeAudit for TLC: every route, and the one of   *)
(* a streaming chat client of a model on zen's Responses surface.          *)
(***************************************************************************)
EXTENDS ExchangeAudit

EveryRoute == Translating

ZenResponsesStream ==
  {[client |-> "chat", upstream |-> "responses", stream |-> TRUE, zen |-> TRUE]}
=============================================================================
