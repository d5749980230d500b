SPECIFICATION Spec
CONSTANTS
  ea = ea  eb = eb  ao = ao  bo = bo  x = x  y = y  z = z  home = home
  None = None
  Opacity <- MCOpacity
  Preset <- MCPreset
  Default <- MCDefault
  Declarations <- StageDeclarations
  Goals <- StageGoals
  Windows <- StageWindows
  Entities = {ea, eb}
  Fields = {ao, bo, z}
  Globals = {home}
  Outlinable <- OneWay
  Rates = {z}
  Kinds = {"enter", "exit", "morph", "set", "capture"}
  MaxRows = 3
  MaxTime = 3
  FrameStep = 2
INVARIANTS TypeOK PresenceFollowsScore MorphHandsOver PresenceEarned RateIsIntegral
PROPERTY CaptureIsFrozen
