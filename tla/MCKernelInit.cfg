SPECIFICATION KernelInitSpec
CONSTANTS
  FourGiB = 64
  Page = 4
  BlockSize = 2
  EntrySize = 1
  HeaderSize = 1
  KernelStart = 5
  KernelEnd = 7
  RootSize = 8
  LowSize = 13
  MaxEntries = 4
  FixedDevices <- MCFixedDevices
  BusSpan = 8
  StartBusUnit = 4
  EndBusUnit = 16
  Buses = 4
  Machines = {}
  None = None
  AcpiByte = 8
  TableHeader = 1
  Null = Null
  Firmware <- MCFirmware
  LowMemory <- MCLowMemory
INVARIANTS HeapsInRam HeapsApart MapStillPartition HoleUnclaimed HoleLargest InitExact
CHECK_DEADLOCK FALSE
