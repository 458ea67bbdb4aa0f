SPECIFICATION Spec
CONSTANTS
  NumRelays = 4
  CursorMod = 12
  Weight <- MCWeight
  Priority <- MCPriority
  InRotation <- MCInRotation
  DetailOf <- MCDetailOf
  Details <- MCDetails
  Rules <- MCRules
  Hash <- MCHash
  Requests <- MCRequests
  Routings <- MCRoutings
INVARIANTS RoutedWell DebtBounded StickyShare
CHECK_DEADLOCK FALSE
