\* Is the chat of a portal looked up by its own ID?
CONSTANTS
    u1 = u1
    mail = mail
    me = me
    m1 = m1
    m2 = m2
    Users = {u1, mail, me}
    Mail = {mail}
    Reacting = {u1, me}
    Self = me
    NoUser = NoUser
    Messages = {m1, m2}
    Guid = Guid
    Login = Login
    Topics <- MCTopics
    MaxChanges = 2
    MaxQueue = 3
    Contacts = "others"
    PrefixedIDs = TRUE
SPECIFICATION Spec
SYMMETRY MessageSymmetry
CHECK_DEADLOCK FALSE
INVARIANTS
    ChatInfoFound
