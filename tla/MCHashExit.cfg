CONSTANTS
  Uses <- HashUses
  FixedLens <- MCFixedLens
SPECIFICATION ToolSpec
INVARIANTS ExitCodesDocumented
