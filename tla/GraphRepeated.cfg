SPECIFICATION Spec
CONSTANTS
  Types <- Three
  MaxNavs = 2
  Models <- AllModels
INVARIANT PrincipalsFirst
CHECK_DEADLOCK FALSE
