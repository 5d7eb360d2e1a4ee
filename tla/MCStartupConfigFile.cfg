SPECIFICATION Spec
CONSTANTS
  Word <- MCWord
  Invocations <- MCInvocations
  Less <- MCLess
INVARIANT
  ConfigFileTaken
