\* Two requests at once: any two requests, or one beside a click on the like
\* button of a beer or of a brewery, or up to three clicks and fetches of theirs.
SPECIFICATION UISpec
CONSTANTS
    ann = ann
    bob = bob
    brewery = brewery
    beer = beer
    style = style
    glass = glass
    place = place
    remark = remark
    beerTab = beerTab
    breweryTab = breweryTab
    like1 = like1
    like2 = like2
    like3 = like3
    NoRow = NoRow
    NoTab = NoTab
    Users = {ann, bob}
    SeedRows <- SmallSeed
    Slots = {s1, s2}
    MaxRequests = 2
    MaxFiles = 2
    Tabs = {beerTab, breweryTab}
    TabUser <- TwoTabUsers
    TabPost <- TwoTabPosts
    TabKind <- TwoTabKinds
    MaxWork = 4
SYMMETRY SlotSymmetry
INVARIANTS
    
    LikesBounded
    ButtonTellsTruth
PROPERTIES
    OnlyOwnersChange
CHECK_DEADLOCK FALSE
