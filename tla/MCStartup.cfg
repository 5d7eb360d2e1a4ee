SPECIFICATION Spec
CONSTANTS
  Word <- MCWord
  Invocations <- MCInvocations
  Less <- MCLess
INVARIANTS
  TypeOK
  OptionsHonoured
  ArgvPermuted
  StrongestWins
  EveryMistakeTold
  LoadedIfSound
  TestAsDescribed
  ReadAsWritten
