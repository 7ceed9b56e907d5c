SPECIFICATION DeskSpec
CONSTANTS
  Agents = {ann, bob}
  MaxConcurrent = 1
  Desks = {d1}
  MaxDeskFaults = 1
INVARIANT AgentRepliesRouted
CHECK_DEADLOCK FALSE
