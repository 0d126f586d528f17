--------------------------- MODULE MCEditorFiles ---------------------------
(* EditorFiles for TLC: two files, three commands. *)
EXTENDS EditorFiles, TLC

CONSTANTS a, b, c1, c2, c3
MCPaths == {a, b}
MCCalls == {c1, c2, c3}
Alike == Permutations(MCPaths) \cup Permutations(MCCalls)

=============================================================================
