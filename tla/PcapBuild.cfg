CONSTANTS
  Me = "me"
  Other = "other call"
  Packet <- Packets
  LastMinute = 1
  Seconds = 2
  Header = Header
  Lzo = Lzo
  None = None
  Installs <- FourInstalls
SPECIFICATION Spec
INVARIANTS
  TypeOK
  InOrder
  NothingTorn
  PureByName
  WholeCall
CHECK_DEADLOCK FALSE
