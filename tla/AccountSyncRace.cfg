SPECIFICATION Spec
SYMMETRY Sym
CONSTANTS
  Handlers = {h1, h2}
  AcctSets <- MCAcctSets
  Ports <- MCPorts
  Bases = {b1}
  Free = Free
INVARIANT OneInboundPerAccount
