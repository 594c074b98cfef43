SPECIFICATION Spec
CONSTANTS
  Choices <- SomeChoices
  MaxEdits = 2
INVARIANT FamilyApplies
CHECK_DEADLOCK FALSE
