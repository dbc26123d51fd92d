----------------------------- MODULE Attendance -----------------------------
(***************************************************************************)
(* The attendance rows of the web app and every handler that writes them: *)
(* the instructor routes of api/routes/instructor/session.py over         *)
(* services/instructor/session.py (bulk upsert, single upsert, delete,    *)
(* set_makeup for mark and unmark) and the admin CRUD of                  *)
(* services/admin/attendance.py.  Each request is one step: its queries,   *)
(* its changes and its commit.  The table has one row per (session,       *)
(* student) (uq_attendance_session_student) and NOT NULL status and       *)
(* is_makeup: a commit that breaks either fails whole (IntegrityError, a  *)
(* 500) and changes nothing.  Which students are ACTIVE in which group is *)
(* the enrollment tables', changed here by the environment.               *)
(***************************************************************************)
EXTENDS Integers, Sequences, FiniteSets, FiniteSetsExt, SequencesExt

CONSTANTS
    Students,     \* user ids of students
    Groups,       \* class groups
    Sessions,     \* class sessions
    SessionGroup, \* ClassSession.class_group_id
    AttStatuses,  \* AttendanceStatus values
    BulkInputs,   \* AttendanceBulkCreate.items: sequences of [student, status, makeup]
    Patches       \* AttendanceSelfUpdate / AttendanceUpdate payloads

\* A patch is [set, null, status, is_makeup]: the fields the payload sets
\* (model_dump(exclude_unset=True)), those of them it sets to null, and
\* the values of the others.
Present == "PRESENT"
Keys == Sessions \X Students
NoRow == [status |-> "none", makeup |-> FALSE]

VARIABLES
    att,    \* (session, student) |-> row, or NoRow
    active, \* student |-> the groups with an ACTIVE enrollment of the student
    out     \* the response of the last request

vars == <<att, active, out>>

----------------------------------------------------------------------------
Member(st, s) == SessionGroup[s] \in active[st]

\* The row a patch leaves: set fields take the payload's values.
Patched(row, p) ==
    [status |-> IF "status" \in p.set THEN p.status ELSE row.status,
     makeup |-> IF "is_makeup" \in p.set THEN p.is_makeup ELSE row.makeup]

Init ==
    /\ att = [k \in Keys |-> NoRow]
    /\ active = [st \in Students |-> {}]
    /\ out = 0

\* The enrollment handlers make a student ACTIVE in a group or end it.
Enroll(st, g) ==
    /\ g \notin active[st]
    /\ active' = [active EXCEPT ![st] = @ \cup {g}]
    /\ UNCHANGED <<att, out>>

Unenroll(st, g) ==
    /\ g \in active[st]
    /\ active' = [active EXCEPT ![st] = @ \ {g}]
    /\ UNCHANGED <<att, out>>

\* _get_session_or_404: an instructor who does not teach the session.
Forbidden ==
    /\ out' = 403
    /\ UNCHANGED <<att, active>>

\* Mutation: an item for a student already saved in this call is skipped.
SaveItem_firstwins(s, seen, acc, item) ==
    IF item.student \in seen THEN acc
    ELSE [acc EXCEPT ![<<s, item.student>>] =
                      [status |-> item.status, makeup |-> item.makeup]]

\* One iteration of the for loop over the items: the existing row is
\* updated, or a new Attendance is added.
SaveItem(s, seen, acc, item) ==
    [acc EXCEPT ![<<s, item.student>>] =
                 [status |-> item.status, makeup |-> item.makeup]]

\* upsert_attendance_bulk: the regular items' students must be ACTIVE in
\* the session's group, the makeup-only ones in some group (400).  The
\* rows existing before the loop are updated; a student without a row
\* listed twice is added twice and the commit breaks the unique key.
BulkUpsert(s, items) ==
    LET ids == {items[i].student : i \in DOMAIN items}
        regular == {items[i].student : i \in {i \in DOMAIN items : ~items[i].makeup}}
        makeup == ids \ regular
        dup == \E i, j \in DOMAIN items :
                  i < j /\ items[i].student = items[j].student
                  /\ att[<<s, items[i].student>>] = NoRow
        saved == FoldLeft(LAMBDA acc, i :
                    SaveItem(s, {items[j].student : j \in 1..(i - 1)}, acc, items[i]),
                    att, [i \in 1..Len(items) |-> i])
    IN  /\ CASE items = <<>> -> out' = 200 /\ UNCHANGED att
             [] \E st \in regular : ~Member(st, s) -> out' = 400 /\ UNCHANGED att
             [] \E st \in makeup : active[st] = {} -> out' = 400 /\ UNCHANGED att
             [] dup -> out' = 500 /\ UNCHANGED att
             [] OTHER -> out' = 200 /\ att' = saved
        /\ UNCHANGED active

\* setattr of every field the payload sets.
UpdateRow(row, p) == Patched(row, p)

\* upsert_attendance_single: 400 unless the student is ACTIVE in the
\* session's group; setattr of the set fields on an existing row, or a new
\* row with status (a null one too) defaulting to PRESENT and is_makeup to
\* False.  A null that reaches a column is a 500.
UpsertSingle(s, st, p) ==
    LET row == att[<<s, st>>]
    IN  /\ CASE ~Member(st, s) -> out' = 400 /\ UNCHANGED att
             [] row # NoRow /\ p.null # {} -> out' = 500 /\ UNCHANGED att
             [] row # NoRow -> out' = 200 /\ att' = [att EXCEPT ![<<s, st>>] = UpdateRow(row, p)]
             [] "is_makeup" \in p.null -> out' = 500 /\ UNCHANGED att
             [] OTHER ->
                  /\ out' = 200
                  /\ att' = [att EXCEPT ![<<s, st>>] =
                               [status |-> IF "status" \in p.set \ p.null
                                           THEN p.status ELSE Present,
                                makeup |-> "is_makeup" \in p.set /\ p.is_makeup]]
        /\ UNCHANGED active

\* delete_attendance, instructor route: 404 when there is no row.
DeleteAttendance(s, st) ==
    /\ IF att[<<s, st>>] = NoRow
       THEN out' = 404 /\ UNCHANGED att
       ELSE out' = 204 /\ att' = [att EXCEPT ![<<s, st>>] = NoRow]
    /\ UNCHANGED active

\* set_makeup (mark_makeup with True, unmark_makeup with False): the
\* student's ACTIVE enrollment in any group, by scalar_one_or_none (none:
\* 400; more than one raises MultipleResultsFound: 500); then a PRESENT
\* row with is_makeup = value, or is_makeup set on the existing one.
SetMakeup(s, st, v) ==
    /\ CASE active[st] = {} -> out' = 400 /\ UNCHANGED att
         [] Cardinality(active[st]) > 1 -> out' = 500 /\ UNCHANGED att
         [] att[<<s, st>>] = NoRow ->
              out' = 200 /\ att' = [att EXCEPT ![<<s, st>>] = [status |-> Present, makeup |-> v]]
         [] OTHER -> out' = 200 /\ att' = [att EXCEPT ![<<s, st>>].makeup = v]
    /\ UNCHANGED active

\* Admin create_attendance: Attendance(**payload); a second row for the
\* same session and student breaks the unique key.
AdminCreate(s, st, status, mk) ==
    /\ IF att[<<s, st>>] # NoRow
       THEN out' = 500 /\ UNCHANGED att
       ELSE out' = 201 /\ att' = [att EXCEPT ![<<s, st>>] = [status |-> status, makeup |-> mk]]
    /\ UNCHANGED active

\* Admin update_attendance: 404, else setattr of the set fields.
AdminUpdate(s, st, p) ==
    /\ CASE att[<<s, st>>] = NoRow -> out' = 404 /\ UNCHANGED att
         [] p.null # {} -> out' = 500 /\ UNCHANGED att
         [] OTHER -> out' = 200 /\ att' = [att EXCEPT ![<<s, st>>] = UpdateRow(@, p)]
    /\ UNCHANGED active

\* Admin delete_attendance.
AdminDelete(s, st) ==
    /\ IF att[<<s, st>>] = NoRow
       THEN out' = 404 /\ UNCHANGED att
       ELSE out' = 204 /\ att' = [att EXCEPT ![<<s, st>>] = NoRow]
    /\ UNCHANGED active

Next ==
    \/ \E st \in Students, g \in Groups : Enroll(st, g) \/ Unenroll(st, g)
    \/ Forbidden
    \/ \E s \in Sessions, items \in BulkInputs : BulkUpsert(s, items)
    \/ \E s \in Sessions, st \in Students, p \in Patches :
          UpsertSingle(s, st, p) \/ AdminUpdate(s, st, p)
    \/ \E s \in Sessions, st \in Students :
          DeleteAttendance(s, st) \/ AdminDelete(s, st)
    \/ \E s \in Sessions, st \in Students, v \in BOOLEAN : SetMakeup(s, st, v)
    \/ \E s \in Sessions, st \in Students, a \in AttStatuses, mk \in BOOLEAN :
          AdminCreate(s, st, a, mk)

Spec == Init /\ [][Next]_vars

----------------------------------------------------------------------------
\* A successful bulk upsert leaves every listed student's row with the
\* status and is_makeup of the student's LAST item, whether the row existed
\* before the call or not.
BulkLastWinsStep ==
    \A s \in Sessions, items \in BulkInputs :
          out' = 200 /\ BulkUpsert(s, items) =>
             \A i \in DOMAIN items :
                LET last == items[Max({j \in DOMAIN items :
                                         items[j].student = items[i].student})]
                IN  att'[<<s, items[i].student>>] =
                       [status |-> last.status, makeup |-> last.makeup]

\* The property: every step of the handlers satisfies BulkLastWinsStep.
BulkLastWins == [][BulkLastWinsStep]_vars

=============================================================================
