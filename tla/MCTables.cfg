SPECIFICATION MCSpec
CONSTANTS
  Keys = {1, 2, 3, 4}
  Vals = {v1}
  Slots = {1, 2, 3, 4}
  Iters = {it}
  Frames = {fr}
  it = it
  fr = fr
  Slack = 1
  MaxSize = 16
  None = None
  Start = Start
  v1 = v1
  BucketOf <- MCBucketOf
INVARIANTS  ShapesSound
 
CHECK_DEADLOCK FALSE
