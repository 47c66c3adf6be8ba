------------------------------ MODULE MCDashboard ------------------------------
EXTENDS Dashboard, TLC

MCDirs == {".", "d"}
MCParentOf == [d \in MCDirs |-> "."]
MCPaths == {"f"}
MCDirOf == [p \in MCPaths |-> "."]

\* No definition tells edits apart, nor the page's sockets before their use.
Symmetry == Permutations(Edits) \cup Permutations(PageSockets)
================================================================================
