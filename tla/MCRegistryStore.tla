--------------------------- MODULE MCRegistryStore ---------------------------
EXTENDS RegistryStore, TLC

CONSTANTS ta, tb

AgentRecord(tenant, public, mcp) ==
  [status |-> "unknown", tenant |-> tenant, public |-> public, mcp |-> mcp]

\* A private agent of one tenant without MCP, and a public one of another with it.
SomeRecords == {AgentRecord(ta, FALSE, FALSE), AgentRecord(tb, TRUE, TRUE)}

Searching(tenant, public, status, mcp) ==
  [tenant |-> tenant, public |-> public, status |-> status, mcp |-> mcp]

\* A tenant's search by status, an administrator's search of agents without MCP, a
\* public search.
SomeQueries ==
  {Searching(ta, FALSE, "unknown", "any"), Searching(None, FALSE, None, "no"),
   Searching(None, TRUE, None, "any")}

Symmetry == Permutations(Writer)
=============================================================================
