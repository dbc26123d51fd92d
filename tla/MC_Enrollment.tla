---------------------------- MODULE MC_Enrollment ----------------------------
(***************************************************************************)
(* One class group, three students and one administrator process.          *)
(***************************************************************************)
EXTENDS EnrollmentService

CONSTANTS s1, s2, s3, admin, admin2

MC_Students == {s1, s2, s3}
MC_Admins == {admin}

\* Two students and two administrator processes, for the runs where
\* administrator requests overlap each other.
MC_Students2 == {s1, s2}
MC_Admins2 == {admin, admin2}

\* An administrator sets the statuses the student handlers branch on.
MC_AdminStatuses == {"ACTIVE", "WAITLISTED", "COMPLETED"}

MC_AllOps == {"create", "update", "delete", "promote"}
MC_PromoteOnly == {"promote"}

\* The administrator operations that do not overwrite a status at will.
MC_DeletePromote == {"delete", "promote"}

\* The class group itself is not edited while these races run.
MC_NoGroupUpdates == {}

=============================================================================
