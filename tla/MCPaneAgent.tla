------------------------------ MODULE MCPaneAgent -------------------------------
(* The constants are model values and numbers, given in the .cfg files.    *)
EXTENDS PaneAgent
=============================================================================
