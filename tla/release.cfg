SPECIFICATION FairSpec
CONSTANTS
    Malformed = Malformed
    None = None
    Runnable <- MCRunnable
    Taggable <- MCTaggable
    PerPage = 2
    MaxTagPages = 2
    MaxTags = 4
INVARIANTS OffersAreUpgrades
PROPERTIES NoTagMissed KnowledgeGrows UpgradeOffered
