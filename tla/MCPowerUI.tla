----------------------------- MODULE MCPowerUI -----------------------------
(* PowerUI for TLC: two query texts, so that a measurement can be mistaken   *)
(* for that of another query.                                               *)
EXTENDS PowerUI

TwoQueries == {"q1", "q2"}
=============================================================================
