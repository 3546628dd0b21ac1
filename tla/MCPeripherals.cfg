CONSTANTS
  FifoDepth = 2
  Threshold = {0, 2}
  ToutTicks = 2
  HoldDepth = 2
  MaxUsjRx = 2
  Poll = 2
  StMod = 5
  LoadValue = {0, 6}
  TargetValue = {3}
  Period = {0, 2}
  Id = {0, 1}
  Data = {0, 1}
  Acceptance = {{0}, {0, 1}}
  NoFrame = NoFrame
  CountMod32 = 8
  Watch = 3
  OtaCount = 3
  MaxSeq = 6
  I2cDepth = 2
  Slots = 2
  ByteNum = {1, 2}
  MaxSupply = 2
  Capacity = 2
  RxLim = {0, 1}
  IdleThres = 2
  FilterNeed = {1, 2}
  MaxWidth = 2
  MaxSamples = 6
SPECIFICATION Spec
INVARIANTS UartSound UsjSound SystimerSound TwaiSound PcntSound I2cSound 
PROPERTIES UartProgress PumpResumes TickKeepsGrid   BootsChosen
