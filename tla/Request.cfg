SPECIFICATION Spec
CONSTANTS
  EdgeTasks <- MCEdgeTasks
  ViewTasks <- MCViewTasks
  OverloadTasks <- MCOverloadTasks
  MergeTasks <- MCMergeTasks
  GateTasks <- MCGateTasks
  TableRows <- MCTableRows
  Truth <- MCTruth
INVARIANTS
  TreesReadBack
  ParametersReachTheirPlace
  EdgesSound
  PlansMeaningful
  CallsDecided
  
  ReadsAsMeant
  WritesAsMeant
