---------------------------- MODULE EnrollmentSpec ----------------------------
(***************************************************************************)
(* The enrollment rows of one class group as the handlers of the web app   *)
(* mean to change them, each request taking effect at one instant: a       *)
(* student joins as ACTIVE while a spot is free and WAITLISTED otherwise,  *)
(* cancels, or leaves the waitlist; an administrator creates, updates or   *)
(* deletes any row, promotes the oldest waitlisted student while a spot  *)
(* is free, or changes the group's capacity and status.  EnrollmentService, where every request is a sequence of       *)
(* database statements, implements this module when requests do not       *)
(* overlap.                                                                *)
(***************************************************************************)
EXTENDS Integers, Sequences, FiniteSets, SequencesExt

CONSTANTS
    Students,   \* the students who may enroll in the group
    Capacity,   \* ClassGroup.capacity when the behaviour starts
    AdminStatuses, \* the statuses an administrator may set
    AdminOps,   \* the administrator operations in use
    GroupUpdates \* update_class_group payloads: [capacity, open]

\* EnrollmentStatus; NONE stands for "no row".
Statuses == {"ACTIVE", "CANCELLED", "WAITLISTED", "MOVED", "COMPLETED"}
NONE == "NONE"

VARIABLES
    group_open, \* the group is OPEN and public
    capacity,   \* ClassGroup.capacity
    status,     \* status[s]: the status of the row of student s, or NONE
    order       \* the students with a row, oldest joined_at first

gvars == <<group_open, capacity>>
svars == <<group_open, capacity, status, order>>

ActiveCount == Cardinality({s \in Students : status[s] = "ACTIVE"})

SpotFree == ActiveCount < capacity

\* Where the row of s is in joined_at order.
Position(s) == SelectInSeq(order, LAMBDA x : x = s)

\* The waitlisted student with the oldest row.
OldestWaitlisted(s) ==
    /\ status[s] = "WAITLISTED"
    /\ \A t \in Students :
          status[t] = "WAITLISTED" => Position(s) <= Position(t)

Insert(s, st) ==
    /\ status[s] = NONE
    /\ status' = [status EXCEPT ![s] = st]
    /\ order' = Append(order, s)

Init ==
    /\ group_open \in BOOLEAN
    /\ capacity = Capacity
    /\ status = [s \in Students |-> NONE]
    /\ order = <<>>

Enroll(s) ==
    /\ group_open
    /\ Insert(s, IF SpotFree THEN "ACTIVE" ELSE "WAITLISTED")
    /\ UNCHANGED gvars

Cancel(s) ==
    /\ status[s] # NONE
    /\ status' = [status EXCEPT ![s] = "CANCELLED"]
    /\ UNCHANGED <<gvars, order>>

Leave(s) ==
    /\ status[s] = "WAITLISTED"
    /\ status' = [status EXCEPT ![s] = "CANCELLED"]
    /\ UNCHANGED <<gvars, order>>

AdminCreate(s, st) ==
    /\ "create" \in AdminOps
    /\ Insert(s, st)
    /\ UNCHANGED gvars

AdminUpdate(s, st) ==
    /\ "update" \in AdminOps
    /\ status[s] # NONE
    /\ status' = [status EXCEPT ![s] = st]
    /\ UNCHANGED <<gvars, order>>

AdminDelete(s) ==
    /\ "delete" \in AdminOps
    /\ status[s] # NONE
    /\ status' = [status EXCEPT ![s] = NONE]
    /\ order' = Remove(order, s)
    /\ UNCHANGED gvars

Promote(s) ==
    /\ "promote" \in AdminOps
    /\ SpotFree
    /\ OldestWaitlisted(s)
    /\ status' = [status EXCEPT ![s] = "ACTIVE"]
    /\ UNCHANGED <<gvars, order>>

\* An administrator changes the group's capacity, status or visibility;
\* the rows stay as they are, even when the capacity falls below the
\* number of ACTIVE rows.
UpdateClassGroup(u) ==
    /\ capacity' = u.capacity
    /\ group_open' = u.open
    /\ UNCHANGED <<status, order>>

Next ==
    \/ \E u \in GroupUpdates : UpdateClassGroup(u)
    \/ \E s \in Students :
          \/ Enroll(s) \/ Cancel(s) \/ Leave(s) \/ AdminDelete(s) \/ Promote(s)
          \/ \E st \in AdminStatuses : AdminCreate(s, st) \/ AdminUpdate(s, st)

Spec == Init /\ [][Next]_svars

=============================================================================
