SPECIFICATION Spec
CONSTANTS
  ea = ea  eb = eb  ao = ao  bo = bo  x = x  y = y  z = z  home = home
  None = None
  Opacity <- MCOpacity
  Preset <- MCPreset
  Default <- MCDefault
  Declarations <- ChainDeclarations
  Goals <- ChainGoals
  Windows = {}
  Entities = {}
  Fields = {x, y, z}
  Globals = {}
  Outlinable = {}
  Rates = {}
  Kinds = {"tween"}
  MaxRows = 2
  MaxTime = 3
  FrameStep = 1
INVARIANT FieldIsItsExpression
