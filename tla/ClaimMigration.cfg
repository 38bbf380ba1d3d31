CONSTANTS
  t1 = t1
  t2 = t2
  Tabs <- MCTabs
  None = None
  Prompts = {TRUE}
  MaxEdits = 1
  MaxMounts = 1
SPECIFICATION Spec
CHECK_DEADLOCK FALSE
PROPERTY MigrationKeepsProjects
