SPECIFICATION FairSpec
CONSTANTS
  Main = main
  JS = js
  Events = events
  Worker = {w1}
  Thread = {main, js, events, w1}
  NoThread = noThread
  Layer = {l1, l2}
  MaxCommits = 3
  MaxCommands = 1
  MaxUpdates = 2
  MaxResizes = 0
INVARIANT TypeOK
INVARIANT TreeExclusive
INVARIANT DamageKept
INVARIANT ScheduledBacked
INVARIANT InFlightBacked
INVARIANT RevisionAccounted
PROPERTY ChangesShown
PROPERTY ThreadsFinish
PROPERTY EarlierRevisionsMounted
\* A pipeline in which nothing is requested any more is at rest.
CHECK_DEADLOCK FALSE
