CONSTANTS
    q1 = q1  q2 = q2
    u1 = u1  u2 = u2  u3 = u3
    Users = {u1, u2, u3}
    Admins = {u3}
    Anonymous = Anonymous
    Requests = {q1, q2}
    Console = TRUE
    NoRole = NoRole
SYMMETRY MCSymmetry
SPECIFICATION Spec
INVARIANTS
    MembersTypeOK
    AccessRulesAgree
PROPERTY
    NoLoneOrphaning
