SPECIFICATION ContentSpec
CONSTANTS
  Parts = {"dictionary"}
  Words = {w1, w2}
  w1 = w1
  Base = {w2}
  Operators = {o1, o2}
  Editing = {o1, o2}
  Signed = {s1, s2}
  Guests = {g1}
  MaxSeq = 3
  DictDeltaMaxRows = 1
  TauntIds = {t1, t2}
  AvatarIds = {v1}
  NoAvatar = NoAvatar
  r2 = r2
  e2 = e2
  Readers = {r1, r2}
  CatalogEditors = {e1, e2}
  Wearers = {p1}
  CatalogTTL = 2
  MaxTexts = 2
  Users = {u1, u2}
  u1 = u1
  u2 = u2
  Tokens = {d1, d2}
  d1 = d1
  d2 = d2
  Campaigns = {c1, c2}
  c1 = c1
  NotifPushWorkers = 2
  Audiences <- MCAudiences
  Text <- MCText
INVARIANTS EditsAreLive
CHECK_DEADLOCK FALSE
