------------------------------ MODULE Schedule ------------------------------
(***************************************************************************)
(* The class sessions of the web app: the admin handlers of               *)
(* services/admin/class_sessions.py and services/admin/class_groups.py     *)
(* (generate_sessions with its conflict check, delete_class_group_sessions)*)
(* behind the routes of api/routes/admin/schedule.py, and the rows that    *)
(* refer to a session: attendance (instructor routes) and substitutions;   *)
(* and the catalog they refer to: the create, patch and delete routes of   *)
(* rooms, skill levels, topics, semesters and class groups.                *)
(* Each request runs alone and is one step: its reads, its changes and its *)
(* commit.  A commit that breaks a foreign key fails as a whole            *)
(* (IntegrityError) and changes nothing.                                   *)
(*                                                                         *)
(* Dates are day numbers; day 0 is a Monday, so date.weekday() is d % 7.   *)
(* Times are whole numbers.  "none" is SQL NULL.                           *)
(***************************************************************************)
EXTENDS Integers, FiniteSets, Sequences, SequencesExt, Functions

CONSTANTS
    IdSeq,           \* table |-> the ids its sequence hands out, in order
    InitRooms,       \* the rooms at the start: id |-> name
    InitCat,         \* skill_level, topic, semester |-> the ids at the start
    InitGroups,      \* the class groups at the start: id |-> row
    RoomNames,       \* the names room payloads may carry
    GroupInputs,     \* ClassGroupCreate payloads, as rows
    GroupUpdates,    \* ClassGroupUpdate payloads, as field |-> value
    RoomUpdates,     \* RoomUpdate payloads, as field |-> value
    NullUpdates,     \* the NOT NULL fields other PATCH payloads set to null
    CatalogIds,      \* the ids catalog PATCH and DELETE requests name
    Dates,           \* the dates requests may name
    GenRequests,     \* generate-sessions payloads: [start, end, skip]
    CreateInputs,    \* ClassSessionCreate payloads
    UpdateInputs,    \* ClassSessionUpdate payloads, as field |-> value
    BulkInputs,      \* ClassSessionBulkUpdatePayload payloads, likewise
    BulkDates,       \* the date lists of bulk-cancel payloads
    DateRanges,      \* <<from_date, to_date>> of delete-sessions requests
    NewSlots,        \* <<new_date, <<start, end>>>> of reschedule payloads
    SessionIds,      \* the class_session ids requests name
    MaxSessions      \* bound on the class_session ids the sequence hands out

None == "none"
Statuses == {"scheduled", "completed", "cancelled"}
Ids == 1..MaxSessions
CatTables == {"skill_level", "topic", "semester"}
Tables == CatTables \cup {"room", "class_group"}
Groups == Range(IdSeq["class_group"])
Instructors == {InitGroups[g].instr : g \in DOMAIN InitGroups}

VARIABLES
    rooms,    \* room: id |-> name (unique)
    cat,      \* skill_level, topic, semester |-> the ids of their rows
    grp,      \* class_group: id |-> row
    issued,   \* table |-> how many ids its sequence has handed out
    sess,     \* class_session: id |-> row
    nextId,   \* the next id of the class_session sequence
    attended, \* the sessions some attendance row refers to
    subbed,   \* the sessions some instructor_substitution row refers to
    out,      \* the response of the last request
    clash     \* ghost: some generate_sessions committed a double booking

catvars == <<rooms, cat, grp, issued>>
vars == <<rooms, cat, grp, issued, sess, nextId, attended, subbed, out, clash>>

Row == [group : Groups, date : Dates, start : Int, end : Int,
        room : Range(IdSeq["room"]) \cup {None}, instr : Instructors \cup {None},
        status : Statuses, from : Ids \cup {0}]

\* A ClassGroup row: its foreign keys, day_of_week and <<start, end>>.
GroupRow == [semester : Range(IdSeq["semester"]), level : Range(IdSeq["skill_level"]),
             topic : Range(IdSeq["topic"]), room : Range(IdSeq["room"]) \cup {None},
             instr : Instructors \cup {None}, day : Int, slot : Int \X Int]


----------------------------------------------------------------------------
\* _matches_day_of_week: 1..7 is an isoweekday, anything else a weekday().
matches_day_of_week(day_of_week, d) ==
    IF 1 <= day_of_week /\ day_of_week <= 7
    THEN (d % 7) + 1 = day_of_week
    ELSE d % 7 = day_of_week

\* Mutation: the loop stops before end_date.
CandidateDates_lt(g, r) ==
    {d \in r.start..(r.end - 1) : d \notin r.skip /\ matches_day_of_week(grp[g].day, d)}

\* The while loop of generate_sessions: the days start..end, not skipped,
\* on the group's day.
CandidateDates(g, r) ==
    {d \in r.start..r.end : d \notin r.skip /\ matches_day_of_week(grp[g].day, d)}

\* Mutation: the instructor filter is left out of the conflict query.
find_conflicting_dates_roomonly(g, cands) ==
    LET filters == {f \in {"room"} :
                      (IF f = "room" THEN grp[g].room ELSE grp[g].instr) # None}
        Match(k) == \E f \in filters :
                      IF f = "room" THEN sess[k].room = grp[g].room
                      ELSE sess[k].instr = grp[g].instr
    IN  { sess[k].date : k \in {k \in DOMAIN sess :
            /\ sess[k].date \in cands
            /\ sess[k].status = "scheduled"
            /\ Match(k)
            /\ grp[g].slot[1] < sess[k].end /\ grp[g].slot[2] > sess[k].start} }

\* _find_conflicting_dates: the dates of SCHEDULED sessions on candidate
\* dates that use the group's room or instructor (a NULL one is no filter;
\* no filter at all, no conflict) and overlap the group's times.
find_conflicting_dates(g, cands) ==
    LET filters == {f \in {"room", "instr"} :
                      (IF f = "room" THEN grp[g].room ELSE grp[g].instr) # None}
        Match(k) == \E f \in filters :
                      IF f = "room" THEN sess[k].room = grp[g].room
                      ELSE sess[k].instr = grp[g].instr
    IN  { sess[k].date : k \in {k \in DOMAIN sess :
            /\ sess[k].date \in cands
            /\ sess[k].status = "scheduled"
            /\ Match(k)
            /\ grp[g].slot[1] < sess[k].end /\ grp[g].slot[2] > sess[k].start} }

\* The ids a commit inserting n rows takes from the sequence.
Fits(n) == nextId + n - 1 <= MaxSessions

\* A session row referred to by another row: deleting it fails.
Referenced(k) == k \in attended \cup subbed \/ \E j \in DOMAIN sess : sess[j].from = k

\* Two sessions book the same room or instructor at overlapping times.
DoubleBooked(a, b) ==
    /\ a.date = b.date
    /\ a.status = "scheduled" /\ b.status = "scheduled"
    /\ (a.room = b.room /\ a.room # None) \/ (a.instr = b.instr /\ a.instr # None)
    /\ a.start < b.end /\ b.start < a.end

Respond(r) == out' = r

\* The class_group column that refers to each table.
GroupField == [semester |-> "semester", skill_level |-> "level", topic |-> "topic",
               room |-> "room"]

\* The rows a table's foreign keys may name: the live ids, NULL where the
\* column is nullable.
LiveIds(t) == IF t = "room" THEN DOMAIN rooms ELSE cat[t]

\* A class_group row an INSERT or UPDATE can commit: its foreign keys
\* name live rows (room_id and instructor_id may be NULL) and its NOT NULL
\* columns are set; otherwise the commit raises IntegrityError.
GroupStorable(row) ==
    /\ \A t \in CatTables : row[GroupField[t]] \in cat[t]
    /\ row.room \in DOMAIN rooms \cup {None}
    /\ row.day \in Int /\ row.slot \in Int \X Int

\* A class_session row whose foreign keys name live rows.
SessionStorable(row) ==
    row.group \in DOMAIN grp /\ row.room \in DOMAIN rooms \cup {None}

\* The rows of the tables that refer to row x of table t.
ReferencedRow(t, x) ==
    \/ \E g \in DOMAIN grp : grp[g][GroupField[t]] = x
    \/ t = "room" /\ \E k \in DOMAIN sess : sess[k].room = x

\* An INSERT takes the next id of the table's sequence, and keeps it when
\* the commit then fails; the sequence hands out at most Len(IdSeq[t]).
NextRowId(t) == IdSeq[t][issued[t] + 1]
CanIssue(t) == issued[t] < Len(IdSeq[t])
Issue(t) == issued' = [issued EXCEPT ![t] = @ + 1]

sessvars == <<sess, nextId, attended, subbed, clash>>

----------------------------------------------------------------------------
Init ==
    /\ rooms = InitRooms
    /\ cat = InitCat
    /\ grp = InitGroups
    /\ issued = [t \in Tables |-> IF t = "room" THEN Cardinality(DOMAIN InitRooms)
                                 ELSE IF t = "class_group" THEN Cardinality(DOMAIN InitGroups)
                                 ELSE Cardinality(InitCat[t])]
    /\ sess = [k \in {} |-> None]
    /\ nextId = 1
    /\ attended = {} /\ subbed = {}
    /\ out = 0
    /\ clash = FALSE

\* generate_class_group_sessions: 400 when start > end, 409 on a conflict,
\* otherwise one SCHEDULED session per candidate date, in date order.
GenerateSessions(g, r) ==
    LET cands == CandidateDates(g, r)
        dates == SetToSortSeq(cands, <)
        new == [k \in nextId..(nextId + Len(dates) - 1) |->
                  [group |-> g, date |-> dates[k - nextId + 1],
                   start |-> grp[g].slot[1], end |-> grp[g].slot[2],
                   room |-> grp[g].room, instr |-> grp[g].instr,
                   status |-> "scheduled", from |-> 0]]
    IN  /\ g \in DOMAIN grp
        /\ \/ /\ r.start > r.end
              /\ Respond(400)
              /\ UNCHANGED sessvars
           \/ /\ r.start <= r.end
              /\ find_conflicting_dates(g, cands) # {}
              /\ Respond(409)
              /\ UNCHANGED sessvars
           \/ /\ r.start <= r.end
              /\ find_conflicting_dates(g, cands) = {}
              /\ Fits(Len(dates))
              /\ sess' = sess @@ new
              /\ nextId' = nextId + Len(dates)
              /\ clash' = (clash \/ \E k \in DOMAIN new, j \in DOMAIN sess :
                                       DoubleBooked(new[k], sess[j]))
              /\ Respond(201)
              /\ UNCHANGED <<attended, subbed>>

\* delete_class_group_sessions: every session of the group in from..to.
DeleteGroupSessions(g, from, to) ==
    LET del == {k \in DOMAIN sess : sess[k].group = g /\ from <= sess[k].date
                                    /\ sess[k].date <= to}
    IN  /\ g \in DOMAIN grp
        /\ CASE from > to -> Respond(400) /\ UNCHANGED sess
             [] \E k \in del : Referenced(k) -> Respond(500) /\ UNCHANGED sess
             [] OTHER -> Respond(204) /\ sess' = Restrict(sess, DOMAIN sess \ del)
        /\ UNCHANGED <<nextId, attended, subbed, clash>>

\* create_class_session: the INSERT takes an id, and fails (500) when the
\* payload names a class group or room that does not exist.
CreateClassSession(c) ==
    /\ Fits(1)
    /\ nextId' = nextId + 1
    /\ IF SessionStorable(c)
       THEN Respond(201) /\ sess' = sess @@ (nextId :> [c EXCEPT !.from = 0])
       ELSE Respond(500) /\ UNCHANGED sess
    /\ UNCHANGED <<attended, subbed, clash>>

\* The routes that load a session by id answer 404 when it is missing.
Missing(k) ==
    /\ k \notin DOMAIN sess
    /\ Respond(404)
    /\ UNCHANGED <<sess, nextId, attended, subbed, clash>>

\* The row with every field the payload sets replaced (setattr of the
\* model_dump(exclude_unset=True) items).
Patched(row, u) == [f \in DOMAIN row |-> IF f \in DOMAIN u THEN u[f] ELSE row[f]]

\* update_class_session: the patched row, unless its commit breaks a key.
UpdateClassSession(k, u) ==
    /\ k \in DOMAIN sess
    /\ IF SessionStorable(Patched(sess[k], u))
       THEN Respond(200) /\ sess' = [sess EXCEPT ![k] = Patched(@, u)]
       ELSE Respond(500) /\ UNCHANGED sess
    /\ UNCHANGED <<nextId, attended, subbed, clash>>

\* Mutation: the row is deleted whatever refers to it.
DeleteClassSession_nofk(k) ==
    /\ k \in DOMAIN sess
    /\ Respond(204) /\ sess' = Restrict(sess, DOMAIN sess \ {k})
    /\ UNCHANGED <<nextId, attended, subbed, clash>>

DeleteClassSession(k) ==
    /\ k \in DOMAIN sess
    /\ IF Referenced(k)
       THEN Respond(500) /\ UNCHANGED sess
       ELSE Respond(204) /\ sess' = Restrict(sess, DOMAIN sess \ {k})
    /\ UNCHANGED <<nextId, attended, subbed, clash>>

\* cancel_class_session and complete_class_session.
SetStatus(k, st) ==
    /\ k \in DOMAIN sess
    /\ sess' = [sess EXCEPT ![k].status = st]
    /\ Respond(200)
    /\ UNCHANGED <<nextId, attended, subbed, clash>>

\* reschedule_class_session: a SCHEDULED copy at the new date and times,
\* rescheduled from the old one, which is CANCELLED; one commit.
RescheduleClassSession(k, ns) ==
    /\ k \in DOMAIN sess
    /\ Fits(1)
    /\ sess' = [sess EXCEPT ![k].status = "cancelled"]
               @@ (nextId :> [sess[k] EXCEPT !.date = ns[1], !.start = ns[2][1],
                                             !.end = ns[2][2], !.status = "scheduled",
                                             !.from = k])
    /\ nextId' = nextId + 1
    /\ Respond(200)
    /\ UNCHANGED <<attended, subbed, clash>>

\* bulk_cancel_class_sessions: the group's sessions on the given dates.
BulkCancel(g, ds) ==
    /\ sess' = [k \in DOMAIN sess |->
                  IF sess[k].group = g /\ sess[k].date \in ds
                  THEN [sess[k] EXCEPT !.status = "cancelled"] ELSE sess[k]]
    /\ Respond(200)
    /\ UNCHANGED <<nextId, attended, subbed, clash>>

\* bulk_update_class_sessions: 404 unless every id exists; room_id and
\* instructor_id as the payload sets them, in one commit.
BulkUpdate(ks, u) ==
    /\ CASE ~(ks \subseteq DOMAIN sess) -> Respond(404) /\ UNCHANGED sess
         [] \E k \in ks : ~SessionStorable(Patched(sess[k], u)) ->
               Respond(500) /\ UNCHANGED sess
         [] OTHER -> /\ sess' = [k \in DOMAIN sess |->
                                   IF k \in ks THEN Patched(sess[k], u) ELSE sess[k]]
                     /\ Respond(200)
    /\ UNCHANGED <<nextId, attended, subbed, clash>>

\* create_substitution: 400 when the session has no instructor.
CreateSubstitution(k) ==
    /\ k \in DOMAIN sess
    /\ IF sess[k].instr = None
       THEN Respond(400) /\ UNCHANGED subbed
       ELSE Respond(201) /\ subbed' = subbed \cup {k}
    /\ UNCHANGED <<sess, nextId, attended, clash>>

DeleteSubstitution(k) ==
    /\ k \in subbed
    /\ subbed' = subbed \ {k}
    /\ Respond(204)
    /\ UNCHANGED <<sess, nextId, attended, clash>>

\* The session routes of api/routes/instructor/schedule.py, called by
\* instructor u: _get_class_session_or_404 (and _get_substitution_or_404,
\* through the substitution's session) answers 404 for a missing session,
\* as Missing does, and 403 unless u is the session's instructor_id; then
\* the admin service runs.  An administrator passes the check, so its calls
\* are the admin actions above.
NotInstructorOf(k, u) == k \in DOMAIN sess /\ sess[k].instr # u

Forbidden(k, u) ==
    /\ NotInstructorOf(k, u)
    /\ Respond(403)
    /\ UNCHANGED sessvars

InstructorComplete(k, u) ==
    ~NotInstructorOf(k, u) /\ SetStatus(k, "completed")

InstructorCreateSubstitution(k, u) ==
    ~NotInstructorOf(k, u) /\ CreateSubstitution(k)

InstructorDeleteSubstitution(k, u) ==
    ~NotInstructorOf(k, u) /\ DeleteSubstitution(k)

\* The instructor routes write or delete an attendance row of a session.
MarkAttendance(k) ==
    /\ k \in DOMAIN sess
    /\ attended' = attended \cup {k}
    /\ Respond(200)
    /\ UNCHANGED <<sess, nextId, subbed, clash>>

DeleteAttendance(k) ==
    /\ k \in attended
    /\ attended' = attended \ {k}
    /\ Respond(204)
    /\ UNCHANGED <<sess, nextId, subbed, clash>>

----------------------------------------------------------------------------
\* The catalog routes of api/routes/admin/schedule.py and the services of
\* services/admin: each loads its row (404 when missing), changes it and
\* commits; the database refuses a broken key, a NULL in a NOT NULL column
\* or a duplicate room name, and the route answers 500.

\* A PATCH or DELETE of a row of table t that does not exist.
RowMissing(t, x) ==
    /\ x \in Range(IdSeq[t]) \ (IF t = "class_group" THEN DOMAIN grp ELSE LiveIds(t))
    /\ Respond(404)
    /\ UNCHANGED <<catvars, sessvars>>

\* Mutation: a room is refused only while a class group refers to it.
DeleteRow_groupsonly(t, x) ==
    /\ x \in LiveIds(t)
    /\ IF \E g \in DOMAIN grp : grp[g][GroupField[t]] = x
       THEN Respond(500) /\ UNCHANGED <<rooms, cat>>
       ELSE /\ Respond(204)
            /\ IF t = "room" THEN rooms' = Restrict(rooms, DOMAIN rooms \ {x}) /\ UNCHANGED cat
                             ELSE cat' = [cat EXCEPT ![t] = @ \ {x}] /\ UNCHANGED rooms
    /\ UNCHANGED <<grp, issued, sessvars>>

\* delete_room, delete_skill_level, delete_topic, delete_semester: the
\* DELETE fails while a class group, or for a room a session, refers to it.
DeleteRow(t, x) ==
    /\ x \in LiveIds(t)
    /\ IF ReferencedRow(t, x)
       THEN Respond(500) /\ UNCHANGED <<rooms, cat>>
       ELSE /\ Respond(204)
            /\ IF t = "room" THEN rooms' = Restrict(rooms, DOMAIN rooms \ {x}) /\ UNCHANGED cat
                             ELSE cat' = [cat EXCEPT ![t] = @ \ {x}] /\ UNCHANGED rooms
    /\ UNCHANGED <<grp, issued, sessvars>>

\* create_room: a new row, unless another room has the name.
CreateRoom(n) ==
    /\ CanIssue("room")
    /\ Issue("room")
    /\ IF n \in Range(rooms)
       THEN Respond(500) /\ UNCHANGED rooms
       ELSE Respond(201) /\ rooms' = rooms @@ (NextRowId("room") :> n)
    /\ UNCHANGED <<cat, grp, sessvars>>

\* update_room: the name as the payload sets it; NULL or another room's
\* name fails.
UpdateRoom(x, u) ==
    /\ x \in DOMAIN rooms
    /\ LET n == IF "name" \in DOMAIN u THEN u.name ELSE rooms[x]
       IN  IF n = None \/ n \in Range(Restrict(rooms, DOMAIN rooms \ {x}))
           THEN Respond(500) /\ UNCHANGED rooms
           ELSE Respond(200) /\ rooms' = [rooms EXCEPT ![x] = n]
    /\ UNCHANGED <<cat, grp, issued, sessvars>>

\* create_skill_level, create_topic, create_semester: always a new row.
CreateRow(t) ==
    /\ CanIssue(t)
    /\ Issue(t)
    /\ cat' = [cat EXCEPT ![t] = @ \cup {NextRowId(t)}]
    /\ Respond(201)
    /\ UNCHANGED <<rooms, grp, sessvars>>

\* update_skill_level, update_topic, update_semester: no column another
\* table reads changes; a payload that sets a NOT NULL column to null fails.
UpdateRow(t, x, nulls) ==
    /\ x \in cat[t]
    /\ Respond(IF nulls = {} THEN 200 ELSE 500)
    /\ UNCHANGED <<catvars, sessvars>>

\* create_class_group: a new row, unless the commit breaks a key.
CreateClassGroup(c) ==
    /\ CanIssue("class_group")
    /\ Issue("class_group")
    /\ IF GroupStorable(c)
       THEN Respond(201) /\ grp' = grp @@ (NextRowId("class_group") :> c)
       ELSE Respond(500) /\ UNCHANGED grp
    /\ UNCHANGED <<rooms, cat, sessvars>>

\* update_class_group: the patched row, unless the commit breaks a key or
\* a NOT NULL column.  Sessions already generated keep their copies.
UpdateClassGroup(g, u) ==
    /\ g \in DOMAIN grp
    /\ IF GroupStorable(Patched(grp[g], u))
       THEN Respond(200) /\ grp' = [grp EXCEPT ![g] = Patched(@, u)]
       ELSE Respond(500) /\ UNCHANGED grp
    /\ UNCHANGED <<rooms, cat, issued, sessvars>>

\* delete_class_group: fails while a session of the group exists.
DeleteClassGroup(g) ==
    /\ g \in DOMAIN grp
    /\ IF \E k \in DOMAIN sess : sess[k].group = g
       THEN Respond(500) /\ UNCHANGED grp
       ELSE Respond(204) /\ grp' = Restrict(grp, DOMAIN grp \ {g})
    /\ UNCHANGED <<rooms, cat, issued, sessvars>>

\* The routes of the three tables no session reads.
CreateSkillLevel == CreateRow("skill_level")
UpdateSkillLevel(x, nulls) == UpdateRow("skill_level", x, nulls)
DeleteSkillLevel(x) == DeleteRow("skill_level", x)
CreateTopic == CreateRow("topic")
UpdateTopic(x, nulls) == UpdateRow("topic", x, nulls)
DeleteTopic(x) == DeleteRow("topic", x)
CreateSemester == CreateRow("semester")
UpdateSemester(x, nulls) == UpdateRow("semester", x, nulls)
DeleteSemester(x) == DeleteRow("semester", x)
DeleteRoom(x) == DeleteRow("room", x)

CatalogNext ==
    \/ \E t \in Tables, x \in CatalogIds : x \in Range(IdSeq[t]) /\ RowMissing(t, x)
    \/ \E n \in RoomNames : CreateRoom(n)
    \/ \E x \in CatalogIds, u \in RoomUpdates : UpdateRoom(x, u)
    \/ \E x \in CatalogIds : DeleteRoom(x)
    \/ CreateSkillLevel \/ CreateTopic \/ CreateSemester
    \/ \E x \in CatalogIds, nulls \in NullUpdates :
          UpdateSkillLevel(x, nulls) \/ UpdateTopic(x, nulls) \/ UpdateSemester(x, nulls)
    \/ \E x \in CatalogIds : DeleteSkillLevel(x) \/ DeleteTopic(x) \/ DeleteSemester(x)
    \/ \E c \in GroupInputs : CreateClassGroup(c)
    \/ \E g \in CatalogIds, u \in GroupUpdates : UpdateClassGroup(g, u)
    \/ \E g \in CatalogIds : DeleteClassGroup(g)

SessionNext ==
    \/ \E g \in Groups, r \in GenRequests : GenerateSessions(g, r)
    \/ \E g \in Groups, dr \in DateRanges : DeleteGroupSessions(g, dr[1], dr[2])
    \/ \E c \in CreateInputs : CreateClassSession(c)
    \/ \E k \in SessionIds : Missing(k)
    \/ \E k \in SessionIds, u \in UpdateInputs : UpdateClassSession(k, u)
    \/ \E k \in SessionIds : DeleteClassSession(k)
    \/ \E k \in SessionIds, st \in {"cancelled", "completed"} : SetStatus(k, st)
    \/ \E k \in SessionIds, ns \in NewSlots : RescheduleClassSession(k, ns)
    \/ \E g \in Groups, ds \in BulkDates : BulkCancel(g, ds)
    \/ \E ks \in SUBSET SessionIds, u \in BulkInputs : BulkUpdate(ks, u)
    \/ \E k \in SessionIds : CreateSubstitution(k) \/ DeleteSubstitution(k)
    \/ \E k \in SessionIds : MarkAttendance(k) \/ DeleteAttendance(k)
    \/ \E k \in SessionIds, u \in Instructors :
          \/ Forbidden(k, u) \/ InstructorComplete(k, u)
          \/ InstructorCreateSubstitution(k, u)
          \/ InstructorDeleteSubstitution(k, u)

Next ==
    \/ CatalogNext
    \/ SessionNext /\ UNCHANGED catvars

Spec == Init /\ [][Next]_vars

----------------------------------------------------------------------------
\* The tables keep their foreign keys: every attendance row, substitution
\* and rescheduled_from_id refers to an existing session, whichever of
\* delete_class_session and delete_class_group_sessions ran.
ScheduleTypeOK ==
    /\ DOMAIN rooms \subseteq Range(IdSeq["room"]) /\ IsInjective(rooms)
    /\ DOMAIN grp \subseteq Groups
    /\ \A g \in DOMAIN grp : grp[g] \in GroupRow /\ GroupStorable(grp[g])
    /\ \A k \in DOMAIN sess : SessionStorable(sess[k])
    /\ DOMAIN sess \subseteq 1..(nextId - 1)
    /\ \A k \in DOMAIN sess : sess[k] \in Row
    /\ attended \cup subbed \subseteq DOMAIN sess
    /\ \A k \in DOMAIN sess : sess[k].from # 0 => sess[k].from \in DOMAIN sess

\* generate_sessions refuses (409) rather than create a SCHEDULED session
\* that books a room or instructor already booked at an overlapping time
\* that day, whatever sessions create, reschedule, update and the bulk
\* handlers left behind.
GeneratedWithoutConflict == ~clash

\* The day names of utils/email_formatting.py: 0 and 1 are Monday, 7 is
\* Sunday; as date.weekday() numbers.
DayNames == (0 :> 0) @@ (1 :> 0) @@ (2 :> 1) @@ (3 :> 2) @@ (4 :> 3)
            @@ (5 :> 4) @@ (6 :> 5) @@ (7 :> 6)

\* generate_sessions creates sessions exactly on the dates from start to
\* end, both included, that are not skipped and fall on the day the group's
\* confirmation e-mail names (none when it names no day).
GenerateMatchesCalendarStep ==
    \A g \in Groups, r \in GenRequests :
          out' = 201 /\ GenerateSessions(g, r) =>
             {sess'[k].date : k \in DOMAIN sess' \ DOMAIN sess} =
                {d \in r.start..r.end :
                   /\ d \notin r.skip
                   /\ grp[g].day \in DOMAIN DayNames
                   /\ DayNames[grp[g].day] = d % 7}

\* The property: every step of the handlers satisfies GenerateMatchesCalendarStep.
GenerateMatchesCalendar == [][GenerateMatchesCalendarStep]_vars

=============================================================================
