SPECIFICATION ListingSpec
CONSTANTS
    Stages <- StageNames
    ResourceIds <- ListingIds
    Rank <- ByteOrder
    KindValues <- ValuesOf
    Junk <- NotJson
    SameId = SameId
    Absent = Absent
    Inner <- InnerPlugins
    PluginSchemas <- SchemaOf
    MaxKeys = 3
INVARIANT
    CompleteOrError
CHECK_DEADLOCK FALSE
