\* The messages around the days, weeks, months and years that begin, and questions
\* about a date with a two-digit year among the others.
CONSTANTS
  t1 = t1
  t2 = t2
  t3 = t3
  v1 = v1
  Texts = {t1}
  Voices = {v1}
  Neutral = 2
  Weight <- WeightOf
  Trusted = {}
  TopK = 1
  RrfK = 60
  MaxRebuilds = 0
  Questions <- SomeQuestions
  Clocks <- SomeClocks
  Pasts <- SomePasts
  MaxListed = 1
SPECIFICATION AnswerSpec
INVARIANT DatesAreCovered
CHECK_DEADLOCK FALSE
