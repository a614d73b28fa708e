----------------------------- MODULE MCSnatchd -----------------------------
(* One transaction program and one name that is not configured.            *)
EXTENDS Snatchd

MCTps == {"apingd"}
MCNoName == "-"
=============================================================================
