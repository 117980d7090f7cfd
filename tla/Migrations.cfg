SPECIFICATION Spec
CONSTANTS
  Replicas = {r1, r2}
  Accounts = {a1}
  MaxFailures = 2
  MaxStops = 2
INVARIANTS SchemaIsVersion ServingSchemaComplete
PROPERTIES RollbackKeepsAccounts RefusedOnlyForAccounts EveryReplicaServes
