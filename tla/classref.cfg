\* Does a second object of a known class become an object?
CONSTANTS
    NSString = NSString
    NSObject = NSObject
    Classes = {NSString, NSObject}
    NoClass = NoClass
    TypeGroups <- MCTypeGroups
    Chains <- MCChains
    MaxObjects = 4
    MaxTypes = 4
    MaxComponents = 3
SPECIFICATION Spec
CHECK_DEADLOCK FALSE
INVARIANTS
    ObjectsFormed
