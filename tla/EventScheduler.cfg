SPECIFICATION FairSpec
CONSTANTS
  Sessions = {c1, c2}
  Events = {e1, e2}
  OneTime = {e1}
  MaxStarts = 2
  MaxTime = 1
  MaxChanges = 2
  MaxKills = 1
INVARIANTS Consistent
PROPERTIES StoppedMeansGone StopReturns OtherStopReturns EventTaken
