SPECIFICATION DemoSpec
CONSTANTS
  Slots = {h1, h2}
  Keys = {k1, k2, r1, r2, r3, r4}
  Sids = {s1, r1, r2, r3, r4}
  Intents = {free, held, dear}
  Bonds = {bond1, r1, r2, r3, r4}
  Bodies <- MCBodies
  Cap <- MCCap
  Bonded = {held}
  DemoMax = 1
  MaxSends = 2
  MaxFaults = 1
  None = None
  RunIds <- MCRunIds
  RunBody <- MCRunBody
  DailyLimit = 3
  Mixed = FALSE
  r1 = r1
  r2 = r2
  r3 = r3
  r4 = r4
  s1 = s1
  free = free
  held = held
  dear = dear
  bond1 = bond1
INVARIANTS DemoTypeOK AnsweredTokenWorks OneAnswerPerKey HalfMadeOnlyByFault StoryIsClean PaidAndBonded SponsorIsSerialized ClaimHasHolder
PROPERTIES AnswerIsWrittenOnce
CHECK_DEADLOCK FALSE
