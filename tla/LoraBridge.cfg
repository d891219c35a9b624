SPECIFICATION FairOne
CONSTANTS
  Payloads = {"p1", "p2"}
  Throwing = {"p2"}
  EncodedEui = "eui64"
  TestId = "zeros"
  OtherId = "other"
  ItemLists <- MCItemLists
  MaxReceived = 4
  Optional = {"mid", "time"}
  Packets <- MCPackets
  MaxDatagrams = 2
  MaxRxpk = 4
INVARIANTS
  InOrderExactlyOnce
  EachPacketOnce
  
PROPERTIES
  ChannelSpec
  DownlinkServed
