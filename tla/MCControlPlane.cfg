\* Three calls race for the control task while callers give up, the transport
\* fails and the runtime's identity changes.
SPECIFICATION Spec
CONSTANTS
  c1 = c1
  c2 = c2
  c3 = c3
  Calls <- MCCalls
  Fields <- MCFields
  Initial <- MCInitial
  Patches <- MCPatches
  NativeRunning <- MCNativeRunning
  MaxEpoch = 2
INVARIANTS
  OneRound
  NoLostUpdate
PROPERTIES
  IsAtomic
  ControlIsFreed
\* Every call is made once, so the system comes to rest when all are answered.
CHECK_DEADLOCK FALSE
