CONSTANTS
  Mails = {m1, m2}
  Poison = {m1}
  Adds = {a1}
  MaxLogins = 2
  MaxLists = 2
SPECIFICATION FairSpec
INVARIANTS TypeOK ShownOncePerLogin AskedAtMostTwice RoomsFindAList ListIsFilledOnce
PROPERTIES KeptUntilTold MailIsDelivered
CHECK_DEADLOCK FALSE
