------------------------------- MODULE MCSleep -------------------------------
(* One user of each lock, two frequency users, four handlers of three      *)
(* levels for a table of three.                                            *)
EXTENDS Sleep

CONSTANTS h1, h2, h3, h4

MCPmUser == (h1 :> 0) @@ (h2 :> 1) @@ (h3 :> 1) @@ (h4 :> 2)
MCHandlers == {h1, h2, h3, h4}
=============================================================================
