---------------------------- MODULE MCCoroutine ----------------------------
(* Four coroutines: enough for a chain of three with a sibling that is      *)
(* passed on, dropped or awaited second.                                    *)
EXTENDS Coroutine
=============================================================================
