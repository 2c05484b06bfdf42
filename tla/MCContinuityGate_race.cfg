\* Two workers on one store, three gate calls, then one reader.
SPECIFICATION Spec
CONSTANTS
  s1 = s1 o1 = o1 o2 = o2 o3 = o3 o4 = o4 o5 = o5 requires = requires invents = invents
  first = first twoNew = twoNew second = second later = later
  twice = twice forbidden = forbidden invented = invented junk = junk
  NoCandidate = NoCandidate
  AssertionsOf <- MCAssertionsOf
  Triples <- MCTriples
  SeedRelations <- MCSeed
  SubjectIds <- MCSubjects
  ObjectIds <- MCObjects
  UniverseRelations <- MCRelations
  AllowedRelations <- MCRelations
  ValidCombinations <- MCCombinations
  ForbiddenAssertions <- MCForbidden
  Ids <- MCIds
  Workers = {w1, w2}
  Readers = {r1}
  Candidates = {first, second, later}
  Scopes = {"live_plumbing"}
  MaxListed = 2
  MaxSubmissions = 3
INVARIANTS ReplayedOnce AcceptedIsListed
PROPERTIES RefusalIsFinal
CONSTRAINT ReadersComeAfter
CHECK_DEADLOCK FALSE
