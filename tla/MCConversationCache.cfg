SPECIFICATION Spec
CONSTANTS
  ann = ann  bob = bob  c1 = c1
  Workers = {w1}
  Users = {ann, bob}
  Handlers = {h1, h2}
  Convs = {c1}
  Owner <- MCOwner
  MaxSize = 2
  DefaultTTL = 1
  MaxVersion = 1
INVARIANTS
  IndexExact
  HitsAreOwn
  StaleOnlyWhenOvertaken
PROPERTIES
  StaleAnswersDieOut
