---------------------------- MODULE MCSshTunnels ----------------------------
EXTENDS SshTunnels, TLC
Symmetry == Permutations(Callers) \cup Permutations(Connections)
              \cup Permutations(Tunnels) \cup Permutations(Ports)
=============================================================================
