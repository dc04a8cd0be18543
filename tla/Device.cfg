SPECIFICATION Spec
CONSTANTS
  Clients <- MCClients
  MaxAsks <- MCMaxAsks
  Garblers <- MCGarblers
  Leavers <- MCLeavers
  Slots = 2
  MaxTime = 1
INVARIANTS AnswersInOrder NoDescriptorLost
PROPERTIES PutOutIdlest Answered
