SPECIFICATION Spec
CONSTANTS
    MaxCount = 24
    Classes <- MCClasses
    Defective <- MCDefective
    Mappings <- MCMappings
INVARIANTS
    ParserInvertsWriter
    ReferencesFollowTheTables
    DeclarationsFollowTheTables
    OthersKeepTheirText
