SPECIFICATION Spec
CONSTANTS
  ea = ea  eb = eb  ao = ao  bo = bo  x = x  y = y  z = z  home = home
  None = None
  Opacity <- MCOpacity
  Preset <- MCPreset
  Default <- MCDefault
  Declarations <- PairDeclaration
  Goals <- FarGoals
  Windows = {}
  Entities = {}
  Fields = {x, y}
  Globals = {}
  Outlinable = {}
  Rates = {}
  Kinds = {"tween"}
  MaxRows = 3
  MaxTime = 4
  FrameStep = 1
INVARIANT TweenStartsAsDrawn
