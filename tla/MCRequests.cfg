CONSTANTS
  Requests = {r1, r2, r3}
  Throwing = {r3}
  Texts = {"a", "b"}
  MaxUpdaters = 5
  MaxDecay = 2
  Long = Long
  Some = Some
  Empty = Empty
SPECIFICATION AllSpec
INVARIANTS
  CompletesOnce
  CountExact
  RequestsSound
  PageUsable
PROPERTIES
  AnswersHandled
CHECK_DEADLOCK FALSE
