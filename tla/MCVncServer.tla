---------------------------- MODULE MCVncServer ----------------------------
(* Instances of VncServer for TLC. *)
EXTENDS VncServer, TLC

Setting(always, never, disconnect, query) ==
  [alwaysShared |-> always, neverShared |-> never,
   disconnectClients |-> disconnect, queryConnect |-> query]

\* Every combination of the sharing parameters; without QueryConnect a
\* connection may be queried or not, so that its behaviours include those with.
AllPolicies == {Setting(a, n, d, FALSE) : a, n, d \in BOOLEAN}

\* The server's defaults, with the query.
DefaultPolicies == {Setting(FALSE, FALSE, TRUE, TRUE)}

SockSymmetry == Permutations(Socks)
=============================================================================
