SPECIFICATION AnswersSpec
CONSTANTS
  e = e
  f = f
  Null = Null
  Refused = Refused
  NoEnd = NoEnd
  Scale = 840
  TieRows = 2
  MaxLookback = 3
  DefaultLookback = 2
  Now = 4
  TopicRank <- MCTopicRank
  TextLength <- MCTextLength
  EntityWorlds <- MCEntityWorlds
  EntityQuestions <- MCEntityQuestions
  CounterRows <- MCCounterRows
  CounterQuestions <- MCCounterQuestions
  ArchiveRows <- MCArchiveRows
  ExportQuestions <- MCExportQuestions
  LatestQuestions <- MCLatestQuestions
  MappingSets <- MCMappingSets
  MappedTopics <- MCMappedTopics
INVARIANTS EntityReadExact CounterExact ExportExact LatestExact MostSpecific
