---------------------------- MODULE MCAgentWatchers -----------------------------
EXTENDS AgentWatchers

Req(k, b, u, t) == [kind |-> k, by |-> b, until |-> u, timeout |-> t]
MCRequests ==
  {Req("wait", "pane", {"Idle"}, "none"), Req("prompt", "pane", {"Idle", "Done"}, "none"),
   Req("prompt", "name", {"Working"}, "short")}
MCFilters == {None, "Idle"}
=============================================================================
