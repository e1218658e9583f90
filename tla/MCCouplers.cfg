SPECIFICATION KeysSpec
CONSTANTS
  toSecond = toSecond
  bass = bass
  toFirst = toFirst
  unison = unison
  stop1 = stop1
  stop2 = stop2
  bell = bell
  rank = rank
  bellRank = bellRank
  Stops = {stop1, stop2, bell}
  Ranks = {rank, bellRank}
  FirstKey <- MCFirstKey
  NKeysOfStop <- MCNKeysOf
  RankInfo <- MCRankInfo
  NPipes <- MCNPipes
  MaxVelocity = 127
  NManuals = 2
  NKeys <- MCNKeys
  FirstNote <- MCFirstNote
  Playable <- MCPlayable
  StopsOf <- MCStopsOf
  Couplers = {toSecond, bass, toFirst, unison}
  CouplersOf <- MCCouplersOf
  Dest <- MCDest
  Kind <- MCKind
  KeyshiftTo <- MCKeyshift
  FirstCoupled <- MCFirst
  NCoupled <- MCCount
  NewBasMel = TRUE
  InitFlags <- MCFlags
  Through <- MCThrough
  Velocities = {1}
  Wrap = 4
  Own = own
INVARIANTS
  CouplersSettled
  OuterVoice
  PipesFollowKeys
CHECK_DEADLOCK TRUE
