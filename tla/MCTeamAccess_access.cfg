SPECIFICATION Spec
CONSTANTS
    Owner = Owner
    People = {ana, ben}
    Invitations = {n1, n2}
    Permissions = {manage, guests}
    TeamManage = manage
    MaxOpen = 2
INVARIANT TeamOK
PROPERTY NoGrantBeyondGranter
SYMMETRY TeamSymmetry
CHECK_DEADLOCK FALSE
