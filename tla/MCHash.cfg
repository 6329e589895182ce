CONSTANTS
  Uses <- HashUses
  FixedLens <- MCFixedLens
SPECIFICATION ToolSpec
INVARIANTS ToolTypeOK ToolAnswerExact ToolTriedExact ToolNeverPanics
PROPERTIES ToolEnds
