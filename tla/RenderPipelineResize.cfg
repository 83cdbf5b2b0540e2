SPECIFICATION ResizeSpec
CONSTANTS
  Main = main
  JS = js
  Events = events
  Worker = {w1}
  Thread = {main, js, events, w1}
  NoThread = noThread
  Layer = {l1}
  MaxCommits = 1
  MaxCommands = 1
  MaxUpdates = 2
  MaxResizes = 2
PROPERTY ThreadsFinish
\* A pipeline in which nothing is requested any more is at rest.
CHECK_DEADLOCK FALSE
