SPECIFICATION Spec
CONSTANTS
  Types <- Three
  MaxNavs = 2
  Models <- AllModels
INVARIANT TypeOK
INVARIANT EveryTypeOnce
INVARIANT PopsInOrder
INVARIANT PlainPrincipalsFirst
CHECK_DEADLOCK FALSE
