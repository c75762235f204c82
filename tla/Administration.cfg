SPECIFICATION Spec
CONSTANTS
    u1 = u1
    u2 = u2
    u3 = u3
    super = super
    custom = custom
    p1 = p1
    p2 = p2
    s1 = s1
    s2 = s2
    q1 = q1
    q2 = q2
    ManageUsers = ManageUsers
    ManageRoles = ManageRoles
    NoProcess = NoProcess
    NoUser = NoUser
    User <- Users
    Role <- Roles
    System <- SystemRoles
    Boot = super
    Permission <- Permissions
    Process <- Processes
    Submission <- Submissions
    Request <- Requests
    Limit = 3

INVARIANTS
    TypeOK OnboardedOnce NobodyActsBeforeOnboarding
    Administrable NoSilentStripping
SYMMETRY Alike
