-------------------------- MODULE MCPluginCompiler --------------------------
(* Two entries, of which one imports the other until an edit; the other has *)
(* a version that is broken.                                                *)
EXTENDS PluginCompiler

CONSTANTS a, b
TwoFiles == {a, b}
TwoVersions == {0, 1}
OneImport ==
  [f \in TwoFiles |-> [v \in TwoVersions |-> IF f = a /\ v = 0 THEN {b} ELSE {}]]
BrokenOther == {<<b, 1>>}
AllFirst == {[f \in TwoFiles |-> 0]}
Other == {b}

Host(plugin, serving, declares) ==
  [plugin |-> plugin, serving |-> serving, declares |-> declares]
Server == Host("vite", TRUE, TRUE)
Hosting == {Server, Host("vite", FALSE, FALSE), Host("esbuild", FALSE, FALSE)}
=============================================================================
