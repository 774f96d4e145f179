SPECIFICATION Spec
CONSTANTS
  r1 = r1
  r2 = r2
  r3 = r3
  u1 = u1
  u2 = u2
  Requests <- RequestsAre
  Users <- UsersAre
  UserOf <- UserOfIs
  Window = 1
  NoTitle = NoTitle
INVARIANT
  QuestionsFirst
