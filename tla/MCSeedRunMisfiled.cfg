\* One engine error and two cities: an address ends up in the wrong city.
CONSTANTS
    c1 = c1
    c2 = c2
    twin = twin
    Cities <- TwoCities
    Identity <- OwnIdentity
    MaxRecords = 2
    MaxFaults = 1
SPECIFICATION RunSpec
INVARIANTS
    AddressIsInItsCity
