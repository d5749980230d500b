SPECIFICATION Spec
CONSTANTS
  ea = ea  eb = eb  ao = ao  bo = bo  x = x  y = y  z = z  home = home
  None = None
  Opacity <- MCOpacity
  Preset <- MCPreset
  Default <- MCDefault
  Declarations <- DimDeclarations
  Goals <- FadeGoals
  Windows = {}
  Entities = {ea, eb}
  Fields = {ao, bo}
  Globals = {}
  Outlinable <- OneWay
  Rates = {bo}
  Kinds = {"morph"}
  MaxRows = 1
  MaxTime = 3
  FrameStep = 2
INVARIANT IntegratorWrites
