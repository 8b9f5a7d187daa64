CONSTANTS
  Channels = {c1}
  PushNames = {p1}
  PullNames = {q1}
  MaxIOErrors = 1
SPECIFICATION DeleteSpec
PROPERTIES DestroyedChannelsEnd CheckpointHappens CallsEnd
CHECK_DEADLOCK FALSE
