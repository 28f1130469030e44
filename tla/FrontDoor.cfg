SPECIFICATION Spec
CONSTANTS
  Calls = {c1, c2}
  CatalogOrder <- MCCatalogOrder
  Names <- MCNames
  Keys = {"saved"}
  MaxArguments = 4
  MaxRevision = 2
  None = none
INVARIANTS TypeOK PaidAsListed RetryBuysOnce NoCapNoPayment EveryOfferListed CliPaysAsTyped
