\* Any stream over four type lists and two class chains.
CONSTANTS
    NSString = NSString
    NSObject = NSObject
    Classes = {NSString, NSObject}
    NoClass = NoClass
    TypeGroups <- MCTypeGroups
    Chains <- MCChains
    MaxObjects = 5
    MaxTypes = 4
    MaxComponents = 2
SPECIFICATION Spec
CHECK_DEADLOCK FALSE
INVARIANTS
    TypeOK
    PlaceholderOpen
    ClassKept
    
PROPERTIES
    EntriesStay
