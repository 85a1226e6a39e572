------------------------------- MODULE MCPtyActor -------------------------------
(* Two asynchronous writers and a try_write_user_input contending for a    *)
(* channel of two inputs, while handoffs begin, fail, time out and are     *)
(* rolled back.                                                            *)
EXTENDS PtyActor
CONSTANTS t1, t2
================================================================================
