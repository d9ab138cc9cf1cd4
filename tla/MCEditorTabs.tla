---------------------------- MODULE MCEditorTabs ----------------------------
EXTENDS EditorTabs, TLC
Symmetry == Permutations(RunCalls) \cup Permutations(Tabs)
=============================================================================
