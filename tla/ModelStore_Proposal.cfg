SPECIFICATION Spec
CONSTANTS
  c1 = c1
  t1 = t1
  m1 = m1
  m2 = m2
  i1 = i1
  None = None
  Clients = {c1}
  Proposers = {c1}
  Tools = {t1}
  Models = {m1, m2}
  Records = {i1}
  MaxFaults = 0
INVARIANT ProposalIsOnWhatTheAgentRead
