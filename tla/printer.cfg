SPECIFICATION FairSpec
CONSTANTS
  Hosts = {1, 3}
  Targets = {1, 3}
  Printers = {1}
  Interfaces = {any}
  Workers = {w1}
  Scan = TRUE
  Patience = 0
  Files <- MCFiles
  PageSize = 1
  Offers <- MCOffers
  MaxFaults = 0
PROPERTY Recovers
