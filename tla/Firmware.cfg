SPECIFICATION FairSpec
CONSTANTS
  ImageLength = 3
  Old = Old
  Foreign = Foreign
  Part = Part
  Limit <- FewOfEach
INVARIANTS CopiedPrefix ReceivedInOrder
PROPERTIES ImplementsSlot ImageInstalled
CHECK_DEADLOCK FALSE
