\* A chat and its room, with crashes and events in any order within a batch.
CONSTANTS
    u1 = u1
    mail = mail
    me = me
    m1 = m1
    m2 = m2
    Users = {u1, mail, me}
    Mail = {mail}
    Reacting = {u1, me}
    Self = me
    NoUser = NoUser
    Messages = {m1, m2}
    Guid = Guid
    Login = Login
    Topics <- MCTopics
    MaxChanges = 4
    MaxQueue = 3
    Contacts = "others"
    PrefixedIDs = FALSE
SPECIFICATION Spec
SYMMETRY MessageSymmetry
CHECK_DEADLOCK FALSE
INVARIANTS
    TypeOK
    
    DetailsMirrored
    
    
PROPERTIES
    RoomFeeds
