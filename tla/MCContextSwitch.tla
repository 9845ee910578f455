-------------------------- MODULE MCContextSwitch --------------------------
(* Two VMThreads, so that one is switched to while the other is suspended   *)
(* with its registers saved; two depths of stack at which code may switch.  *)
EXTENDS ContextSwitch
=============================================================================
