SPECIFICATION PipelineSpec
CONSTANTS
  l1 = l1
  Lane = {l1}
  NoCursor = NoCursor
  LastRecord = 2
  Hidden = {}
  Bounded = TRUE
  MaxTime = 3
  MaxChanges = 2
  MaxJobs = 1
  MaxDisturbances = 1
  s1 = s1
  s2 = s2
  p1 = p1
  p2 = p2
  p3 = p3
  p4 = p4
  t1 = t1
  t2 = t2
  Stream = {s1, s2}
  Master <- SomeMasters
  RequiredStream = {s1, s2}
  Transform = {p1, p2, p3, p4}
  StreamOf <- SomeStreams
  Recent = {p1, p2, p3}
  Final = {p4}
  Mapper = {t1, t2}
  NoMapper = NoMapper
  NoTransform = NoTransform
  Absent = Absent
  MaxTries = 2
  MaxCount = 4
  Layouts <- SomeLayouts
CHECK_DEADLOCK FALSE
INVARIANTS
  CoverageIsExact
  BudgetIsSpentOnFailures
PROPERTIES
  EveryChangeLands
  EveryTransformEnds
