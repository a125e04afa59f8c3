\* The owner of a host and the admins over it, two requests at a time
SPECIFICATION FairHostSpec
CONSTANTS
    user = user
    admin = admin
    Sessions = {user, admin}
    Owner = user
    Duties <- OwnerAndAdmin
    MaxToken = 3
INVARIANT HostSound
PROPERTIES DecisionsStick RenewedByNewToken OwnerGetsThrough
