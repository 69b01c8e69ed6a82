SPECIFICATION Spec
CONSTANTS
  Sizes = {1, 5}
  Pieces = {1, 2, 3, 4}
  IntLimit = 64
INVARIANTS
  TypeOK
  MergedIsMaximal
  AnswersAreExact
  OutSpaceIsNextGap
  BitfieldSound
  BitfieldRoundTrip
PROPERTY ChangesAreAsAsked
