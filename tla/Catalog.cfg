SPECIFICATION Spec
CONSTANTS
    curated = curated
    open = open
    a1 = a1
    a2 = a2
    b1 = b1
    Communities <- MCCommunities
    Visitors <- MCVisitors
    Curated = {curated}
    CategoriesOf <- MCCategoriesOf
    SlugOf <- MCSlugOf
    Sections <- MCSections
    DefaultSection <- MCDefaultSection
    Requests <- MCRequests
    NoListing = NoListing
INVARIANTS
    TypeOK
    PagesShowWhatVisitorsMaySee
    PagesAgree
    WhoDecidesCanView
    QueueIsActionable
    PromotionKeepsRights
PROPERTIES
    OnlyReviewersPublish
