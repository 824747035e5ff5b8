---------------------------- MODULE MCAppSessions ----------------------------
(***************************************************************************)
(* A small instance of AppSessions: a game that asks for a prefix mode of  *)
(* its own, whose card is tapped, and a tool opened in the file browser.   *)
(***************************************************************************)
EXTENDS AppSessions

CONSTANTS game, tool, reuse, unity

MCPrefixOf == [a \in App |-> IF a = game THEN unity ELSE reuse]

\* an engine of which anything may be expected, and one that starts and runs
AnyMove == EngineState \X EngineState
GoodStart == {<<"PREPARING", "READY">>}
=============================================================================
