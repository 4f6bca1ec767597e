SPECIFICATION FairSpec
CONSTANTS
  down = down
  Worker <- MCWorker
  QueueCap = 2
  FrameNr = 3
  Backlog = 2
  Burst = 1
  Frames = 5
INVARIANTS NoLostWakeup NoStrandedFrame FramesOnceInOrder
PROPERTIES StopReturns FramesProcessed
CHECK_DEADLOCK FALSE
