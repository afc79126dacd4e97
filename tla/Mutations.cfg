SPECIFICATION Spec
INVARIANTS
  OnlyDefeatedBreak
  DefeatsShow
