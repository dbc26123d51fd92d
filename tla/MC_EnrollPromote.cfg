\* A student request in flight beside promote_waitlist.
CONSTANTS
    s1 = s1
    s2 = s2
    s3 = s3
    admin = admin
    admin2 = admin2
    Students <- MC_Students
    Admins <- MC_Admins
    Capacity = 1
    AdminStatuses <- MC_AdminStatuses
    AdminOps <- MC_PromoteOnly
    MaxInFlight = 2
    GroupUpdates <- MC_NoGroupUpdates
SPECIFICATION Spec
PROPERTY PromoteOnlyWaitlisted
