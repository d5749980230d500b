SPECIFICATION Spec
CONSTANTS
  ea = ea  eb = eb  ao = ao  bo = bo  x = x  y = y  z = z  home = home
  None = None
  Opacity <- MCOpacity
  Preset <- MCPreset
  Default <- MCDefault
  Declarations <- BareDeclaration
  Goals <- FadeGoals
  Windows = {}
  Entities = {ea}
  Fields = {ao}
  Globals = {}
  Outlinable = {}
  Rates = {}
  Kinds = {"enter", "exit"}
  MaxRows = 3
  MaxTime = 3
  FrameStep = 1
INVARIANT EntranceRestores
