SPECIFICATION FairSpec
CONSTANTS
  d1 = d1 d2 = d2 t1 = t1 t2 = t2 t3 = t3 m1 = m1 m2 = m2 m3 = m3 m4 = m4
  k1 = k1 k2 = k2 a = a b = b
  Devices = {d1}
  Tabs = {t1}
  DeviceOf <- OneTab
  Keys = {k1, k2}
  GatedKeys = {k1}
  Values = {a}
  PositiveValues = {a}
  Mutations = {m1, m2}
  NoValue = NoValue
  None = None
  Server = Server
  BatchSize = 2
  MaxServerWrites = 1
  MaxFaults = 1
PROPERTIES ImplementsRegister ForeignEditsSurface EditsAreAnswered DevicesConverge
