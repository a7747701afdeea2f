SPECIFICATION FairSpec
CONSTANTS
  Hosts = {1, 3}
  Targets = {1, 2, 3}
  Printers = {}
  Interfaces = {any}
  Workers = {w1, w2}
  Scan = TRUE
  Patience = 1
  Files <- MCFiles
  PageSize = 1
  Offers <- MCOffers
  MaxFaults = 1
PROPERTIES SearchIsTrue SearchEnds ListingIsExact Recovers
