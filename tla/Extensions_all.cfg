SPECIFICATION FairSpec
CONSTANTS
    Pkgs = {"p1"}
    Repos = {"r1", "r2"}
    Offers <- MCOffers
    OtherForm <- MCForms
    HadAtFirst = {"p1"}
    MaxVersion = 2
    MaxUpsets = 2
INVARIANTS UpdatesAreComplete StaysRemoved
PROPERTIES WipedListComesBack
