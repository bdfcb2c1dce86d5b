SPECIFICATION Spec
CONSTANTS
  Scripts <- MCScripts
  Firms <- MCFirms
  AccountSets <- MCAccountSets
  MaxPages = 2
  Tolerant <- MCTolerant
  TextOnEmpty <- MCTextOnEmpty
  TextErrors <- MCTextErrors
INVARIANTS
  ZeroIsWhole
  JsonWhenAsked
PROPERTIES
  FirmIsProbed
