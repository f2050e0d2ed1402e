SPECIFICATION Spec
CONSTANTS
  Values <- MCValues
  MaxLength = 3
  EmptyPortals = FALSE
INVARIANTS DomShowsTree OnlyChangesHaveEffects
