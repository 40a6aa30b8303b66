CONSTANTS
  lo = lo
  eth = eth
  usb = usb
  None = None
  Keys <- MCKeys
  Loopback = lo
  Modulus = 4
  MaxTracked = 2
  MaxIdle = 2
SYMMETRY Devices
SPECIFICATION Spec
INVARIANTS
  DeltaIsMovement
  NoDeltaOverGap
  TableHoldsTheLive
