SPECIFICATION UtilSpec
CONSTANTS
  Thread = {t1, t2, t3}
  User = {u1, u2, u3}  MaxCount = 3
  Work = {w1, w2}  TimerWork = {r1, r2}
  repeats <- MCRepeats  periodic <- MCPeriodic  threadNum = 2  MaxPending = 1
  Caller = {c1, c2, c3}  Instance = {i1, i2}  ReleasesLate = FALSE
  Reader = {s1, s2}  Key = {k1, k2}  File = {f1, f2}  NoValue = NoValue
  Value <- MCValue
  Byte = {0, 1}  Newline = 1  memInc = 2  maxSize = 3  SizeT = 16
  MaxCall = 2  Offset <- MCOffset
  Sanity = 3  MaxSegment = 3  MaxAppended = 6
  Entry = {e1, e2, e3}  Header = {h1, h2}  NULL = NULL
  ByteBits = 2  FirstSize = 1  Widths = {1, 2}  MaxBytes = 3
  Asker = {a1, a2}  svrid <- MCSvrid  Servers = 4  sequenceMax = 2
  ClockGoesBack = FALSE  MaxMillis = 3
  Files = 3  FileSize = 2  LogPath = "plain"  SameSecond = FALSE  MaxSeconds = 9
  Char = {0, 1}  MaxText = 5  MaxTag = 2
INVARIANTS LockInv OneQueue PoolPromises OneInstance FoundForGood BytesInOrder WellLinked LoopVisitsAll ReadsBack IdsUnique TakesApart
PROPERTIES ImplementsSharedLock WritersEnter ImplementsByteFile OldestGoes
CHECK_DEADLOCK FALSE
