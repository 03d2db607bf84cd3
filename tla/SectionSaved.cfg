CONSTANTS
  Keys = {"runtime", "mcp", "system_prompt", "hooks"}
  Values = {"v1", "v2"}
  MaxSaves = 3
SPECIFICATION Spec
INVARIANTS SavedIsLoaded
CHECK_DEADLOCK FALSE
