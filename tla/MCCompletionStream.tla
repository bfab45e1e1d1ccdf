---- MODULE MCCompletionStream ----
(* The instances of CompletionStream that are model-checked. *)
EXTENDS CompletionStream

\* Two tool calls.
MCIndices == {0, 1}
====
