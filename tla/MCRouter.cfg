\* Two invites, two restarts.  The app never has to be doing something.
SPECIFICATION RouterSpec
CONSTANTS
    t1 = t1
    t2 = t2
    NoToken = NoToken
    NoPage = NoPage
    Tokens = {t1, t2}
    MaxRestarts = 2
INVARIANTS
    WhereTheyBelong
    InviteIsKept
PROPERTIES
    NoStaleJoin
    SplashIsLeft
