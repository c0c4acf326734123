----------------------------- MODULE MCSessions -----------------------------
(* Instances of Sessions for TLC.                                          *)
EXTENDS Sessions, TLC

NoStreaming == {}
RecordSymmetry == Permutations(Client) \cup Permutations(Session)
TurnSymmetry == Permutations(Client) \cup Permutations(ToolId)
=============================================================================
