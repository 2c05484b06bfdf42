\* One worker at a time, killed or failing anywhere, and one reader.
SPECIFICATION FairSpec
CONSTANTS
  s1 = s1 o1 = o1 o2 = o2 o3 = o3 o4 = o4 o5 = o5 requires = requires invents = invents
  first = first twoNew = twoNew second = second later = later
  twice = twice forbidden = forbidden invented = invented junk = junk
  NoCandidate = NoCandidate
  AssertionsOf <- MCAssertionsOf
  Triples <- MCTriples
  SeedRelations <- MCSeed
  SubjectIds <- MCSubjects
  ObjectIds <- MCObjects
  UniverseRelations <- MCRelations
  AllowedRelations <- MCRelations
  ValidCombinations <- MCCombinations
  ForbiddenAssertions <- MCForbidden
  Ids <- MCIds
  Workers = {w1}
  Readers = {r1}
  Candidates = {first, twoNew, second, twice, forbidden, invented}
  Scopes = {"live_plumbing"}
  MaxListed = 2
  MaxSubmissions = 2
INVARIANTS TypeOK HistoryReplays AcceptedOnce ReceiptHasEvent ReplaySeesPrefixes
PROPERTIES LogSpec CallsSettle
