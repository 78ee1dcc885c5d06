--------------------------- MODULE MCCppDBDemoMT ---------------------------
EXTENDS CppDBDemoMT

(* The workers main() starts, in their order.                              *)
DemoPhases == <<"write", "write", "read">>
=============================================================================
