CONSTANTS
  Entries = {"first", "second"}
  Machines = {"m1", "m2", "m3"}
  Account <- MCAccount
  CloudMachines = {"m1", "m3"}
  Calls = {"call"}
  Targets <- MCTargets
  DeviceIds <- MCDeviceIds
  Identifiers <- MCIdentifiers
  AreaOfDevice <- MCAreaOfDevice
  Entities = {"button1", "button2", "light"}
  DeviceOf <- MCDeviceOf
  AreaOf <- MCAreaOf
  None = none
SPECIFICATION Spec
INVARIANTS
  TypeOK
  NoGhosts
  ServicesHeld
  TargetsExact
  AllTried
PROPERTY LooksUpOpen
