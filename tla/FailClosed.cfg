SPECIFICATION MCSpec
CONSTANTS
  sh1 = sh1 s1 = s1 s2 = s2 c1 = c1 c2 = c2
  Shows = {sh1}
  Scenes = {s1, s2}
  Components = {c1, c2}
  ComponentsOf <- MCComponentsOf
  Values = {v1}
  Ops = {o1}
  Cues <- MCCues
  Creds = {d1, d2}
  DeviceIntents <- MCIntents
  None = None
  Tampered = Tampered
  MaxOperations = 1
  MaxCommandsPerShow = 2
  MaxCommandsGlobal = 2
  MaxHistory = 3
  MaxGeneration = 2
INVARIANT CombinedAnswersFailClosed
