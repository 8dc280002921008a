SPECIFICATION Spec
CONSTANTS
  Projects = {p}
  RoleOrder <- MCRoleOrder
  lead = lead
  codex = codex
  Requests = {s, t}
  Ops = {"start", "fresh", "stop", "delete", "start-all", "stop-all", "shutdown", "dev", "docker"}
  MaxFaults = 1
  Nobody = Nobody
INVARIANTS
  TypeOK
PROPERTIES
  OkMeansQuiet
  BuildNotOverDev
  Answered
CHECK_DEADLOCK FALSE
