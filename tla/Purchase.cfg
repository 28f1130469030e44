SPECIFICATION FairSpec
CONSTANTS
  p1 = p1
  p2 = p2
  document = document
  inbox = inbox
  Runs = {p1, p2}
  Keys = {document, inbox}
  Resources = {inbox}
CONSTRAINT OneSavedKey
INVARIANTS TypeOK NoSecondCharge BoughtIsProven PendingIsAdmitted
PROPERTIES ImplementsContract PurchaseEnds
