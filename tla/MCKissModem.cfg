SPECIFICATION FairSpec
CONSTANTS
  Packet = {p1, p2, p3}
  NoPacket = NoPacket
  Depth = 2
INVARIANTS TypeOK ReportedOnce ReportIsTrue MetaFollows
PROPERTIES NothingReceivedIsRefused DataIsReported RefusedIsTold ReceivesAgain
