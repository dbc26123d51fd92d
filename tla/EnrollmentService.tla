--------------------------- MODULE EnrollmentService ---------------------------
(***************************************************************************)
(* The enrollment handlers of the web app for one class group, as the      *)
(* sequences of database statements they are:                              *)
(*   student: create_student_enrollment, cancel_enrollment (also reached   *)
(*            by the PATCH of update_self_enrollment), leave_waitlist      *)
(*            (services/student/enrollment.py and the routes of            *)
(*            PZSP2 api/routes/student/enrollment.py);                     *)
(*   admin:   create_enrollment, update_enrollment, delete_enrollment,     *)
(*            promote_waitlist (services/admin/enrollment.py and           *)
(*            PZSP2 api/routes/admin/enrollment.py), and update_class_group *)
(*            (services/admin/class_groups.py), which changes the capacity *)
(*            and status the other handlers read.                          *)
(* Every handler runs in its own AsyncSession; an await on the database is *)
(* the point where another request may run.  A statement reads what is     *)
(* committed (PostgreSQL READ COMMITTED); a handler's writes are flushed   *)
(* and committed together by session.commit(), so a commit is one step.    *)
(* Each student has at most one request in flight (one browser); each      *)
(* administrator process is one request at a time.                         *)
(***************************************************************************)
EXTENDS Integers, Sequences, FiniteSets, SequencesExt

CONSTANTS
    Students,      \* the students (each also a request process)
    Admins,        \* administrator request processes
    Capacity,      \* ClassGroup.capacity when the behaviour starts
    AdminStatuses, \* the statuses an administrator request may carry
    AdminOps,      \* the admin handlers called in this model
    MaxInFlight,   \* bound on the number of requests in flight together
    GroupUpdates   \* update_class_group payloads: [capacity, open]

ASSUME /\ Capacity \in Nat \ {0}
       /\ MaxInFlight \in Nat \ {0}
       /\ AdminOps \subseteq {"create", "update", "delete", "promote"}

VARIABLES
    group_open, \* ClassGroup.status = OPEN and is_public
    capacity,   \* ClassGroup.capacity
    status,     \* the enrollment table: status of the row of each student
    order,      \* the students with a row, in joined_at order
    req         \* req[p]: the request process p is running, and its locals

gvars == <<group_open, capacity>>
vars == <<group_open, capacity, status, order, req>>

S == INSTANCE EnrollmentSpec

Statuses == S!Statuses
NONE == S!NONE
Procs == Students \cup Admins

\* An idle process; the other fields are the locals of a handler.
Idle == [op |-> "idle", at |-> "none", who |-> NONE, st |-> NONE, seen |-> FALSE]

InFlight == {p \in Procs : req[p].op # "idle"}

\* A new request may arrive at an idle process.
CanStart(p) == req[p].op = "idle" /\ Cardinality(InFlight) < MaxInFlight

\* Mutation: a finished handler that keeps its locals.
Finish_keep(p) == req' = [req EXCEPT ![p].op = "idle"]

\* The handler returns (or raises): its locals are gone.
Finish(p) == req' = [req EXCEPT ![p] = Idle]

Goto(p, r) == req' = [req EXCEPT ![p] = r]

Init ==
    /\ group_open \in BOOLEAN
    /\ capacity = Capacity
    /\ status = [s \in Students |-> NONE]
    /\ order = <<>>
    /\ req = [p \in Procs |-> Idle]

----------------------------------------------------------------------------
(* create_student_enrollment. *)

\* session.get(User), session.get(ClassGroup) and
\* get_class_group_availability: 404 unless the group is OPEN and public;
\* otherwise remember whether available_spots > 0.
CreateRead(s) ==
    /\ CanStart(s)
    /\ \/ /\ ~group_open
          /\ UNCHANGED req
       \/ /\ group_open
          /\ Goto(s, [Idle EXCEPT !.op = "create", !.at = "commit", !.who = s,
                                  !.seen = S!SpotFree])
    /\ UNCHANGED <<gvars, status, order>>

\* session.add + commit: the unique constraint (student, class group)
\* turns a second row into IntegrityError, rollback and 409.
CreateCommit(s) ==
    /\ req[s].op = "create" /\ req[s].at = "commit"
    /\ \/ /\ status[s] # NONE
          /\ UNCHANGED <<status, order>>
       \/ /\ status[s] = NONE
          /\ status' = [status EXCEPT ![s] = IF req[s].seen THEN "ACTIVE"
                                                           ELSE "WAITLISTED"]
          /\ order' = Append(order, s)
    /\ Finish(s)
    /\ UNCHANGED gvars

----------------------------------------------------------------------------
(* cancel_enrollment, update_self_enrollment and leave_waitlist. *)

\* The route's get_enrollment: 404 when the row does not exist.  Cancel
\* goes on to the commit; leave_waitlist first checks the status it read.
CancelRead(s) ==
    /\ CanStart(s)
    /\ \/ /\ status[s] = NONE
          /\ UNCHANGED req
       \/ /\ status[s] # NONE
          /\ Goto(s, [Idle EXCEPT !.op = "cancel", !.at = "commit", !.who = s])
    /\ UNCHANGED <<gvars, status, order>>

LeaveRead(s) ==
    /\ CanStart(s)
    /\ \/ /\ status[s] # "WAITLISTED"
          /\ UNCHANGED req
       \/ /\ status[s] = "WAITLISTED"
          /\ Goto(s, [Idle EXCEPT !.op = "leave", !.at = "commit", !.who = s])
    /\ UNCHANGED <<gvars, status, order>>

\* Mutation: an UPDATE that writes the row even when it was deleted.
CommitStatus_blind(p, st) ==
    /\ status' = [status EXCEPT ![req[p].who] = st]
    /\ Finish(p)
    /\ UNCHANGED <<gvars, order>>

\* status = st and commit.  The ORM's UPDATE of a row deleted in the
\* meantime matches nothing and fails (StaleDataError).
CommitStatus(p, st) ==
    /\ \/ /\ status[req[p].who] = NONE
          /\ UNCHANGED status
       \/ /\ status[req[p].who] # NONE
          /\ status' = [status EXCEPT ![req[p].who] = st]
    /\ Finish(p)
    /\ UNCHANGED <<gvars, order>>

CancelCommit(s) ==
    /\ req[s].op \in {"cancel", "leave"} /\ req[s].at = "commit"
    /\ CommitStatus(s, "CANCELLED")

----------------------------------------------------------------------------
(* Administrator handlers. *)

\* create_enrollment: one commit; IntegrityError when the row exists.
AdminCreate(a) ==
    /\ "create" \in AdminOps
    /\ CanStart(a)
    /\ \E s \in Students, st \in AdminStatuses :
          \/ /\ status[s] # NONE
             /\ UNCHANGED <<status, order>>
          \/ /\ status[s] = NONE
             /\ status' = [status EXCEPT ![s] = st]
             /\ order' = Append(order, s)
    /\ UNCHANGED <<gvars, req>>

\* update_enrollment and delete_enrollment: the route reads the row (404
\* when missing), the service writes it and commits.
AdminRead(a) ==
    /\ CanStart(a)
    /\ \E s \in Students, op \in AdminOps \cap {"update", "delete"},
          st \in AdminStatuses :
          \/ /\ status[s] = NONE
             /\ UNCHANGED req
          \/ /\ status[s] # NONE
             /\ Goto(a, [Idle EXCEPT !.op = op, !.at = "commit", !.who = s,
                                     !.st = st])
    /\ UNCHANGED <<gvars, status, order>>

AdminUpdateCommit(a) ==
    /\ req[a].op = "update" /\ req[a].at = "commit"
    /\ CommitStatus(a, req[a].st)

\* session.delete + commit; a row already deleted fails the same way.
AdminDeleteCommit(a) ==
    LET s == req[a].who
    IN  /\ req[a].op = "delete" /\ req[a].at = "commit"
        /\ \/ /\ status[s] = NONE
              /\ UNCHANGED <<status, order>>
           \/ /\ status[s] # NONE
              /\ status' = [status EXCEPT ![s] = NONE]
              /\ order' = Remove(order, s)
        /\ Finish(a)
        /\ UNCHANGED gvars

\* Mutation: the group counts as full only at exactly its capacity.
PromoteCount_eq(a) ==
    /\ "promote" \in AdminOps
    /\ CanStart(a)
    /\ \/ /\ S!ActiveCount = capacity
          /\ UNCHANGED req
       \/ /\ S!ActiveCount # capacity
          /\ Goto(a, [Idle EXCEPT !.op = "promote", !.at = "select"])
    /\ UNCHANGED <<gvars, status, order>>

\* promote_waitlist, statement 1: count ACTIVE rows; return None when the
\* group is full (active_count >= capacity, also after the capacity was
\* lowered below it).
PromoteCount(a) ==
    /\ "promote" \in AdminOps
    /\ CanStart(a)
    /\ \/ /\ ~S!SpotFree
          /\ UNCHANGED req
       \/ /\ S!SpotFree
          /\ Goto(a, [Idle EXCEPT !.op = "promote", !.at = "select"])
    /\ UNCHANGED <<gvars, status, order>>

\* Mutation: the select without order_by(joined_at): any WAITLISTED row.
PromoteSelect_any(a) ==
    /\ req[a].op = "promote" /\ req[a].at = "select"
    /\ \/ /\ ~\E s \in Students : status[s] = "WAITLISTED"
          /\ Finish(a)
       \/ \E s \in Students :
             /\ status[s] = "WAITLISTED"
             /\ Goto(a, [req[a] EXCEPT !.at = "commit", !.who = s])
    /\ UNCHANGED <<gvars, status, order>>

\* Statement 2: the oldest WAITLISTED row, or None.
PromoteSelect(a) ==
    /\ req[a].op = "promote" /\ req[a].at = "select"
    /\ \/ /\ ~\E s \in Students : status[s] = "WAITLISTED"
          /\ Finish(a)
       \/ \E s \in Students :
             /\ S!OldestWaitlisted(s)
             /\ Goto(a, [req[a] EXCEPT !.at = "commit", !.who = s])
    /\ UNCHANGED <<gvars, status, order>>

\* status = ACTIVE, cancelled_at = None and commit.
PromoteCommit(a) ==
    /\ req[a].op = "promote" /\ req[a].at = "commit"
    /\ CommitStatus(a, "ACTIVE")

\* update_class_group: the route loads the group, the service sets the
\* fields of the payload and commits, in one step; it reads no enrollment.
UpdateClassGroup(a) ==
    /\ CanStart(a)
    /\ \E u \in GroupUpdates : capacity' = u.capacity /\ group_open' = u.open
    /\ UNCHANGED <<status, order, req>>

----------------------------------------------------------------------------
Next ==
    \/ \E s \in Students :
          \/ CreateRead(s) \/ CreateCommit(s)
          \/ CancelRead(s) \/ LeaveRead(s) \/ CancelCommit(s)
    \/ \E a \in Admins :
          \/ AdminCreate(a) \/ AdminRead(a)
          \/ AdminUpdateCommit(a) \/ AdminDeleteCommit(a)
          \/ PromoteCount(a) \/ PromoteSelect(a) \/ PromoteCommit(a)
          \/ UpdateClassGroup(a)

Spec == Init /\ [][Next]_vars

----------------------------------------------------------------------------
(* Properties. *)

\* Types; a process that is not running a handler holds no locals.
TypeOK ==
    /\ \A p \in Procs : req[p].op = "idle" => req[p] = Idle
    /\ group_open \in BOOLEAN
    /\ capacity \in Int
    /\ status \in [Students -> Statuses \cup {NONE}]
    /\ order \in Seq(Students)
    /\ req \in [Procs -> [op : {"idle", "create", "cancel", "leave", "update",
                                "delete", "promote"},
                          at : {"none", "commit", "select"},
                          who : Students \cup {NONE},
                          st : Statuses \cup {NONE},
                          seen : BOOLEAN]]

\* The enrollment table and joined_at agree: every row appears once in
\* joined_at order, and only rows do.  A write that resurrects a row
\* deleted by a concurrent delete_enrollment breaks it.
RowsInOrder ==
    /\ IsInjective(order)
    /\ Range(order) = {s \in Students : status[s] # NONE}

\* When requests do not overlap, the handlers implement EnrollmentSpec:
\* each request takes effect atomically, a student becomes ACTIVE only
\* while a spot is free, and promote_waitlist activates the oldest
\* waitlisted student only while a spot is free.
Refines == S!Spec

\* test_student_can_enroll_and_waitlist: a student joining a full group
\* is waitlisted, so the students' own requests never fill the group
\* beyond its capacity.
ActiveWithinCapacity == S!ActiveCount <= capacity

\* promote_waitlist activates a student who is on the waitlist when the
\* promotion is committed (it selected a WAITLISTED row).
PromoteOnlyWaitlisted ==
    [][\A a \in Admins :
          req[a].op = "promote" /\ req[a].at = "commit" /\ req'[a].op = "idle"
          /\ status' # status
          => status[req[a].who] = "WAITLISTED"]_vars

=============================================================================
