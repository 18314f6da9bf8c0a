------------------------------ MODULE MCSandbox ------------------------------
(* Two launches on one provider, of which one also asks for capability();    *)
(* the daemon h2 enforces every host property, h1 has no memory limit.      *)
EXTENDS Sandbox

CONSTANTS e1, e2, h1, h2

MCLacks == [h \in {h1, h2} |-> IF h = h1 THEN {"memory-limit"} ELSE {}]
=============================================================================
