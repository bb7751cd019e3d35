SPECIFICATION Spec
CONSTANTS
  d1 = d1 d2 = d2 t1 = t1 t2 = t2 t3 = t3 m1 = m1 m2 = m2 m3 = m3 m4 = m4
  k1 = k1 k2 = k2 a = a b = b
  Devices = {d1, d2}
  Tabs = {t1, t2, t3}
  DeviceOf <- TwoTabsAndOne
  Keys = {k1}
  GatedKeys = {}
  Values = {a}
  PositiveValues = {a}
  Mutations = {m1, m2, m3}
  NoValue = NoValue
  None = None
  Server = Server
  BatchSize = 2
  MaxServerWrites = 0
  MaxFaults = 0
SYMMETRY Symmetry
INVARIANTS AcksNameAppliedReceipts NoEditForgotten
PROPERTIES ImplementsRegister ForeignEditsSurface DraftsApplyInOrder
