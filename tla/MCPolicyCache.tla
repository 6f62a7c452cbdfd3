--------------------------- MODULE MCPolicyCache ---------------------------
(***************************************************************************)
(* Small instances of PolicyCache for TLC.  A content that parses and is   *)
(* replaced by another (v1, v2), and one that does not parse (bad), are    *)
(* all the contents the properties tell apart.                             *)
(***************************************************************************)
EXTENDS PolicyCache

CONSTANTS v1, v2, bad

MCContents == {v1, v2, bad}
MCUnparsable == {bad}
============================================================================
