---------------------------- MODULE MCToolExecution ----------------------------
(* Two calls: a tool that runs one program and an in-process tool.          *)
EXTENDS ToolExecution, TLC

CONSTANTS shell, edit

TwoTools == (shell :> 1) @@ (edit :> 0)
================================================================================
