\* Every component without shared state, each in the bounds its module's
\* instance in MC_Portfolio names.
CONSTANTS
    s1 = s1
    s2 = s2
    s3 = s3
    admin = admin
    admin2 = admin2
    clerk1 = clerk1
    clerk2 = clerk2
    u1 = u1
    u2 = u2
    g1 = g1
    g2 = g2
    g3 = g3
    r1 = r1
    r2 = r2
    r3 = r3
    i1 = i1
    t1 = t1
    t2 = t2
    l1 = l1
    l2 = l2
    o1 = o1
    o2 = o2
    m1 = m1
    m2 = m2
SPECIFICATION Spec
VIEW View
PROPERTY Refines
INVARIANT StatusMatchesAllocations
INVARIANT TypeOK
INVARIANT RowsInOrder
INVARIANT BillingTypeOK
PROPERTY ImplementsQueue
INVARIANT HeapOrdered
INVARIANT SearchTree
INVARIANT AvlSearchTree
INVARIANT SortedPermutation
INVARIANT ShortestPath
INVARIANT ScheduleTypeOK
INVARIANT GeneratedWithoutConflict
PROPERTY GenerateMatchesCalendar
PROPERTY BulkLastWins
INVARIANT ServesBothVariants
INVARIANT ResultsReportTable
INVARIANT RoleMatchesSuperuser
INVARIANT NodesFramed
INVARIANT ValidWasReceivedUntilGiveUp
INVARIANT ServerAcceptsClientFormat
PROPERTY Termination
PROPERTY ClientTerminates
