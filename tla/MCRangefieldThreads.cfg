SPECIFICATION Spec
CONSTANTS
  t1 = t1
  t2 = t2
  Thread = {t1, t2}
  Ops = {"check_range", "range_to_bitfield", "is_full"}
  Size = 4
  Piece = 2
  Blocks <- MCBlocks
  Questions <- MCQuestions
INVARIANT AnswersLinearize
PROPERTY RecordedBytesStay
