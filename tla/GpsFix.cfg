SPECIFICATION FixSpec
CONSTANT MaxSentences = 5
INVARIANTS SentOnce OnePosition
