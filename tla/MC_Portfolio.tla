---------------------------- MODULE MC_Portfolio ----------------------------
(***************************************************************************)
(* The components of the repository that share no state, in one model:   *)
(* the enrollment handlers (requests one at a time, and two in flight),   *)
(* the billing handlers (likewise), the two heaps, the search trees, the  *)
(* sorting functions, the grid shortest path, the class sessions, the    *)
(* attendance rows, the price-prediction service, the user accounts and *)
(* the TCP node server.  A                                               *)
(* behaviour runs the component chosen at the start (part); every other  *)
(* one keeps its initial state.  No step of one touches another's        *)
(* variables, so the behaviours of each part are exactly those of its own *)
(* module, and each property below is about one part.                    *)
(***************************************************************************)
EXTENDS Integers, TLC

CONSTANTS s1, s2, s3, admin, admin2, clerk1, clerk2, u1, u2, g1, g2, g3, r1, r2,
          r3, i1, t1, t2, l1, l2, o1, o2, m1, m2

VARIABLES
    part,
    es_group_open, es_capacity, es_status, es_order, es_req,
    ec_group_open, ec_capacity, ec_status, ec_order, ec_req,
    bs_ch_status, bs_ch_due, bs_ch_owner, bs_pay_owner, bs_alloc, bs_req,
    bs_cancelled,
    bc_ch_status, bc_ch_due, bc_ch_owner, bc_pay_owner, bc_alloc, bc_req,
    bc_cancelled,
    hd_array, hd_out, hm_array, hm_out,
    bst_top, bst_out, bst_keys,
    avl_top, avl_out, avl_keys,
    s_alg, s_input, s_output,
    g_board, g_start, g_end, g_visited, g_distance, g_myheap, g_cur, g_path,
    g_phase,
    sc_rooms, sc_cat, sc_grp, sc_issued,
    sc_sess, sc_nextId, sc_attended, sc_subbed, sc_out, sc_clash,
    at_att, at_active, at_out,
    ml_files, ml_svc, ml_up, ml_table, ml_res, ml_out, ml_pending,
    ua_users, ua_out,
    tc_phase, tc_stream, tc_inflight, tc_buf, tc_nodes,
    ab_size, ab_packet_number, ab_sequence_number, ab_retries, ab_pc,
    ab_to_server, ab_to_client, ab_faults, ab_received, ab_valid_for,
    ab_gave_up,
    uv_pc, uv_idx, uv_to_server, uv_to_client, uv_faults, uv_verdicts

AdminStatuses == {"ACTIVE", "WAITLISTED", "COMPLETED"}

\* Enrollment, one request at a time: three students, administrators only
\* deleting and promoting (the calls the abstract specification allows),
\* and update_class_group closing the group, reopening it, or lowering
\* its capacity to 0 under an ACTIVE row (after which neither a join nor a
\* promotion may activate anyone).
ES_GroupUpdates == {[capacity |-> 1, open |-> TRUE], [capacity |-> 1, open |-> FALSE],
                    [capacity |-> 0, open |-> TRUE]}
ES == INSTANCE EnrollmentService WITH
        Students <- {s1, s2, s3}, Admins <- {admin}, Capacity <- 1,
        AdminStatuses <- AdminStatuses, AdminOps <- {"delete", "promote"},
        MaxInFlight <- 1, GroupUpdates <- ES_GroupUpdates,
        group_open <- es_group_open, capacity <- es_capacity, status <- es_status,
        order <- es_order, req <- es_req

\* Enrollment, two requests in flight: two students, two administrators,
\* every administrator handler.
EC == INSTANCE EnrollmentService WITH
        Students <- {s1, s2}, Admins <- {admin, admin2}, Capacity <- 1,
        AdminStatuses <- AdminStatuses,
        AdminOps <- {"create", "update", "delete", "promote"},
        MaxInFlight <- 2, GroupUpdates <- {},
        group_open <- ec_group_open, capacity <- ec_capacity, status <- ec_status,
        order <- ec_order, req <- ec_req

\* Billing, one request at a time: two students, two charges, two payments.
BS == INSTANCE Billing WITH
        Admins <- {clerk1}, Owners <- {u1, u2}, MaxCharges <- 2,
        MaxPayments <- 2, Dues <- {1, 2}, Amounts <- {1, 2}, MaxInFlight <- 1,
        ch_status <- bs_ch_status, ch_due <- bs_ch_due,
        ch_owner <- bs_ch_owner, pay_owner <- bs_pay_owner, alloc <- bs_alloc,
        req <- bs_req, cancelled <- bs_cancelled

\* Billing, two requests in flight: one charge, two payments, the error
\* paths of the commits.
BC == INSTANCE Billing WITH
        Admins <- {clerk1, clerk2}, Owners <- {u1}, MaxCharges <- 1,
        MaxPayments <- 2, Dues <- {2}, Amounts <- {1, 2}, MaxInFlight <- 2,
        ch_status <- bc_ch_status, ch_due <- bc_ch_due,
        ch_owner <- bc_ch_owner, pay_owner <- bc_pay_owner, alloc <- bc_alloc,
        req <- bc_req, cancelled <- bc_cancelled

\* The ternary max heap with five items, and the binary min heap.
HD == INSTANCE Heap WITH DAry <- TRUE, D <- 3, Items <- {1, 2, 3},
        MaxSize <- 5, array <- hd_array, out <- hd_out
HM == INSTANCE Heap WITH DAry <- FALSE, D <- 2, Items <- {1, 2, 3},
        MaxSize <- 5, array <- hm_array, out <- hm_out

BT == INSTANCE BST WITH Items <- {1, 2, 3}, MaxSize <- 4,
        top <- bst_top, out <- bst_out, keys <- bst_keys
AV == INSTANCE AVL WITH Items <- {1, 2, 3, 4}, MaxSize <- 5,
        top <- avl_top, out <- avl_out, keys <- avl_keys

SO == INSTANCE Sorts WITH Values <- {1, 2, 3}, MaxLen <- 4,
        alg <- s_alg, input <- s_input, output <- s_output

\* A 3 x 3 board of digits 1 and 5 besides the two 0 cells.
GG == INSTANCE GridGraph WITH Height <- 3, Width <- 3, Weights <- {1, 5},
        board <- g_board, start <- g_start, end <- g_end,
        visited <- g_visited, distance <- g_distance, myheap <- g_myheap,
        cur <- g_cur, path <- g_path, phase <- g_phase

\* Class sessions: g1 meets on Mondays (isoweekday 1) in room r1, g2 on
\* Sundays (7) in room r2, both with instructor i1, at overlapping times; a
\* session of g2 may be created on the Monday 0, so that generating g1's
\* sessions over 0..6 conflicts through the instructor only.  A generate
\* request over one week creates one session, so two ids are enough for
\* a generated session beside a created one, and for a rescheduled copy.
\* This instance makes no catalog request: the rooms, topics, skill levels,
\* semesters and class groups stay the initial rows (SK varies them).
SC_IdSeq == [room |-> <<r1, r2, r3>>, skill_level |-> <<l1, l2>>, topic |-> <<o1, o2>>,
             semester |-> <<m1, m2>>, class_group |-> <<g1, g2, g3>>]
SC_InitGroups ==
    (g1 :> [semester |-> m1, level |-> l1, topic |-> o1, room |-> r1, instr |-> i1,
            day |-> 1, slot |-> <<2, 4>>])
    @@ (g2 :> [semester |-> m1, level |-> l1, topic |-> o1, room |-> r2, instr |-> i1,
               day |-> 7, slot |-> <<3, 5>>])
\* A new group g3 meets on Mondays in a new room r3 under a new topic o2,
\* so it commits only once both exist; g1 may move into g2's room r2 or
\* into r3, or lose its topic (NOT NULL, refused).
SC_GroupInputs == {[semester |-> m1, level |-> l1, topic |-> o2, room |-> r3,
                    instr |-> "none", day |-> 1, slot |-> <<2, 4>>]}
SC_GroupUpdates == {"room" :> r3, "topic" :> "none"}
SC_GenRequests == {[start |-> 0, end |-> 6, skip |-> {}],
                   [start |-> 0, end |-> 6, skip |-> {0}],
                   [start |-> 6, end |-> 0, skip |-> {}]}
SC_CreateInputs == {[group |-> g2, date |-> 0, start |-> 3, end |-> 5,
                     room |-> r2, instr |-> i1, status |-> "scheduled",
                     from |-> 0]}
SC_BulkInputs == {"instr" :> "none"}
SC_BulkDates == {{0, 6}}
SC_DateRanges == {<<0, 6>>, <<6, 0>>}
SC_NewSlots == {<<7, <<3, 5>>>>}
SC == INSTANCE Schedule WITH
        IdSeq <- SC_IdSeq, InitRooms <- (r1 :> "A") @@ (r2 :> "B"),
        InitCat <- [skill_level |-> {l1}, topic |-> {o1}, semester |-> {m1}],
        InitGroups <- SC_InitGroups, RoomNames <- {}, GroupInputs <- {},
        GroupUpdates <- {}, RoomUpdates <- {}, NullUpdates <- {},
        CatalogIds <- {}, Dates <- 0..7, GenRequests <- SC_GenRequests,
        CreateInputs <- SC_CreateInputs, UpdateInputs <- {"instr" :> "none"},
        BulkInputs <- SC_BulkInputs, BulkDates <- SC_BulkDates,
        DateRanges <- SC_DateRanges, NewSlots <- SC_NewSlots, SessionIds <- 1..2,
        MaxSessions <- 2,
        rooms <- sc_rooms, cat <- sc_cat, grp <- sc_grp, issued <- sc_issued,
        sess <- sc_sess, nextId <- sc_nextId, attended <- sc_attended,
        subbed <- sc_subbed, out <- sc_out, clash <- sc_clash

\* The catalog: the same initial rows; rooms, topics and class groups are
\* created, renamed, patched and deleted, and a skill level and a semester
\* created (l2 and m2 are named by no later request: they refer to nothing
\* and nothing refers to them), between the session requests that name a
\* group: one generate request, one created session of g2, deleting the
\* sessions of a week; no request names a session id.  One session id is
\* enough for a session to hold a room or group that a delete then must
\* refuse, also after its group moved to another room.
SK == INSTANCE Schedule WITH
        IdSeq <- SC_IdSeq, InitRooms <- (r1 :> "A") @@ (r2 :> "B"),
        InitCat <- [skill_level |-> {l1}, topic |-> {o1}, semester |-> {m1}],
        InitGroups <- SC_InitGroups, RoomNames <- {"A", "C"},
        GroupInputs <- SC_GroupInputs, GroupUpdates <- SC_GroupUpdates,
        RoomUpdates <- {[name |-> "B"], [name |-> "none"]},
        NullUpdates <- {{}, {"name"}},
        CatalogIds <- {r1, r2, r3, l1, o1, o2, m1, g1, g2, g3}, Dates <- 0..7,
        GenRequests <- {[start |-> 0, end |-> 6, skip |-> {}]},
        CreateInputs <- SC_CreateInputs, UpdateInputs <- {},
        BulkInputs <- {}, BulkDates <- {}, DateRanges <- {<<0, 6>>},
        NewSlots <- {}, SessionIds <- {}, MaxSessions <- 1,
        rooms <- sc_rooms, cat <- sc_cat, grp <- sc_grp, issued <- sc_issued,
        sess <- sc_sess, nextId <- sc_nextId, attended <- sc_attended,
        subbed <- sc_subbed, out <- sc_out, clash <- sc_clash

\* Attendance: two students, sessions 1 (of g1) and 2 (of g2); bulk
\* payloads with a makeup item, two items for one student, and both.
AT_BulkInputs ==
    {<<>>, <<[student |-> t1, status |-> "ABSENT", makeup |-> FALSE]>>,
     <<[student |-> t1, status |-> "PRESENT", makeup |-> FALSE],
       [student |-> t1, status |-> "ABSENT", makeup |-> FALSE]>>,
     <<[student |-> t2, status |-> "PRESENT", makeup |-> TRUE],
       [student |-> t1, status |-> "PRESENT", makeup |-> FALSE]>>}
AT_Patches ==
    {[set |-> {"status"}, null |-> {}, status |-> "ABSENT", is_makeup |-> FALSE],
     [set |-> {"is_makeup"}, null |-> {}, status |-> "PRESENT", is_makeup |-> TRUE],
     [set |-> {"status"}, null |-> {"status"}, status |-> "PRESENT", is_makeup |-> FALSE],
     [set |-> {"is_makeup"}, null |-> {"is_makeup"}, status |-> "PRESENT",
      is_makeup |-> FALSE]}
AT_SessionGroup == (1 :> g1) @@ (2 :> g2)
AT == INSTANCE Attendance WITH
        Students <- {t1, t2}, Groups <- {g1, g2}, Sessions <- {1, 2},
        SessionGroup <- AT_SessionGroup, AttStatuses <- {"PRESENT", "ABSENT"},
        BulkInputs <- AT_BulkInputs, Patches <- AT_Patches,
        att <- at_att, active <- at_active, out <- at_out

\* The prediction service: a model that answers -1 or 2 (so the clamp
\* matters), two actual prices, two predictions.
ML_Outputs == {-1, 2}
ML == INSTANCE ModelService WITH
        ModelOutputs <- ML_Outputs, ActualPrices <- {1, 3}, MaxPredictions <- 2,
        MaxInFlight <- 1,
        files <- ml_files, svc <- ml_svc, up <- ml_up, table <- ml_table,
        res <- ml_res, out <- ml_out, pending <- ml_pending

\* User accounts: two users; an admin and a superuser instructor to seed;
\* self-service patches of e-mail and password (one weak, one with the
\* wrong current password, one trying role and is_superuser); admin
\* patches of role, is_superuser (both values), a null role and e-mail.
UA_Base == [set |-> {}, email |-> "e1", password |-> "Good1", role |-> "student",
            su |-> FALSE, verified |-> FALSE, current |-> "none"]
UA_Seeds == {[email |-> "e1", password |-> "Good1", role |-> "admin", su |-> FALSE],
             [email |-> "e2", password |-> "Good2", role |-> "instructor", su |-> TRUE]}
UA_MePatches ==
    {[UA_Base EXCEPT !.set = {"email"}, !.email = "e2", !.current = "Good1"],
     [UA_Base EXCEPT !.set = {"password"}, !.password = "weak", !.current = "Good1"],
     [UA_Base EXCEPT !.set = {"password"}, !.password = "Good2", !.current = "Good2"],
     [UA_Base EXCEPT !.set = {"role", "su"}, !.role = "admin", !.su = TRUE]}
UA_AdminPatches ==
    {[UA_Base EXCEPT !.set = {"role"}, !.role = "admin"],
     [UA_Base EXCEPT !.set = {"role"}, !.role = "instructor"],
     [UA_Base EXCEPT !.set = {"su"}, !.su = FALSE],
     [UA_Base EXCEPT !.set = {"su"}, !.su = TRUE],
     [UA_Base EXCEPT !.set = {"role"}, !.role = "null"],
     [UA_Base EXCEPT !.set = {"email", "verified"}, !.email = "e1", !.verified = TRUE]}
UA == INSTANCE UserAccount WITH
        Users <- {u1, u2}, Emails <- {"e1", "e2"}, Passwords <- {"Good1", "Good2", "weak"},
        WeakPasswords <- {"weak"}, Seeds <- UA_Seeds, MePatches <- UA_MePatches,
        AdminPatches <- UA_AdminPatches, users <- ua_users, out <- ua_out

\* The TCP server: nodes of 2 bytes, recv of up to 3 (more than a node, not
\* a multiple of it), a client of three nodes whose second does not decode
\* and one of two good nodes.
TC_Clients == {<<TRUE, FALSE, TRUE>>, <<TRUE, TRUE>>}
TC == INSTANCE TcpServer WITH
        NodeSize <- 2, BufferSize <- 3, Clients <- TC_Clients,
        phase <- tc_phase, stream <- tc_stream, inflight <- tc_inflight,
        buf <- tc_buf, nodes <- tc_nodes

\* The ZAD1_3 client: an order-keeping network that loses, delays and
\* carries foreign datagrams; every kind of --size: too small, not 3 + 3n,
\* one whose ACK is cut by recv(size), an ordinary one, and one too large
\* to encode.
AB == INSTANCE AbpClient WITH
        Count <- 3, MaxRetries <- 2, Sizes <- {1, 3, 4, 9, 196611},
        Fifo <- TRUE, MaxFaults <- 1, MaxQueue <- 2,
        size <- ab_size, packet_number <- ab_packet_number,
        sequence_number <- ab_sequence_number, retries <- ab_retries,
        pc <- ab_pc, to_server <- ab_to_server, to_client <- ab_to_client,
        faults <- ab_faults, received <- ab_received, valid_for <- ab_valid_for,
        gave_up <- ab_gave_up

\* The ZAD1 client and server.  --sizes: too small (1), counts 255 and 256
\* (the high byte of the header 0 and 1), not 2 + 3n (4), a valid size
\* above the UDP limit (65534), one above 65535, and no pairs (2).  Other
\* hosts send a datagram with a wrong count, one whose count is 256 and
\* one too short.
UV_Sizes == <<1, 767, 4, 770, 65534, 65536, 2>>
UV_Foreign == {[len |-> 5, hdr |-> <<0, 0>>], [len |-> 5, hdr |-> <<1, 0>>],
               [len |-> 1, hdr |-> <<0, 0>>]}
UV == INSTANCE UdpValidate WITH
        Sizes <- UV_Sizes, ForeignDatagrams <- UV_Foreign,
        MaxFaults <- 1, MaxQueue <- 2,
        pc <- uv_pc, idx <- uv_idx, to_server <- uv_to_server,
        to_client <- uv_to_client, faults <- uv_faults, verdicts <- uv_verdicts

Parts == {"enrollment_serial", "enrollment_concurrent", "billing_serial",
          "billing_concurrent", "heap_dary", "heap_min", "bst", "avl",
          "sorts", "grid", "schedule", "catalog", "attendance", "ml",
          "users", "tcp", "abp", "validate"}

esvars == <<es_group_open, es_capacity, es_status, es_order, es_req>>
ecvars == <<ec_group_open, ec_capacity, ec_status, ec_order, ec_req>>
bsvars == <<bs_ch_status, bs_ch_due, bs_ch_owner, bs_pay_owner, bs_alloc,
            bs_req, bs_cancelled>>
bcvars == <<bc_ch_status, bc_ch_due, bc_ch_owner, bc_pay_owner, bc_alloc,
            bc_req, bc_cancelled>>
hdvars == <<hd_array, hd_out>>
hmvars == <<hm_array, hm_out>>
btvars == <<bst_top, bst_out, bst_keys>>
avvars == <<avl_top, avl_out, avl_keys>>
sovars == <<s_alg, s_input, s_output>>
ggvars == <<g_board, g_start, g_end, g_visited, g_distance, g_myheap, g_cur,
            g_path, g_phase>>
scvars == <<sc_rooms, sc_cat, sc_grp, sc_issued, sc_sess, sc_nextId, sc_attended,
            sc_subbed, sc_out, sc_clash>>
atvars == <<at_att, at_active, at_out>>
mlvars == <<ml_files, ml_svc, ml_up, ml_table, ml_res, ml_out, ml_pending>>
uavars == <<ua_users, ua_out>>
tcvars == <<tc_phase, tc_stream, tc_inflight, tc_buf, tc_nodes>>
abvars == <<ab_size, ab_packet_number, ab_sequence_number, ab_retries, ab_pc,
            ab_to_server, ab_to_client, ab_faults, ab_received, ab_valid_for,
            ab_gave_up>>
uvvars == <<uv_pc, uv_idx, uv_to_server, uv_to_client, uv_faults, uv_verdicts>>
Vars == <<esvars, ecvars, bsvars, bcvars, hdvars, hmvars, btvars, avvars,
          sovars, ggvars, scvars, atvars, mlvars, uavars, tcvars, abvars,
          uvvars>>
vars == <<part, Vars>>

\* The states told apart: the last responses of the class-session and
\* attendance handlers and the prediction service's last answers (sc_out,
\* at_out, ml_out, ml_res, ua_out) are read by no invariant and left
\* out; the action properties see them on every step.
View == <<part, esvars, ecvars, bsvars, bcvars, hdvars, hmvars, btvars,
          avvars, sovars, ggvars, sc_rooms, sc_cat, sc_grp, sc_issued, sc_sess,
          sc_nextId, sc_attended, sc_subbed, sc_clash, at_att, at_active, ml_files, ml_svc, ml_up, ml_table, ml_pending,
          ua_users, tcvars, abvars, uvvars>>

Init ==
    /\ part \in Parts
    /\ ES!Init /\ EC!Init /\ BS!Init /\ BC!Init /\ HD!Init /\ HM!Init
    /\ BT!Init /\ AV!Init /\ SO!Init /\ GG!Init /\ SC!Init /\ AT!Init
    /\ ML!Init /\ UA!Init /\ TC!Init /\ AB!Init /\ UV!Init
    \* the --size of a part not explored is one of its initial values
    /\ part # "abp" => ab_size = 9
    \* the model files of a part not explored are one of their initial states
    /\ part # "ml" => ml_files = {}
    \* a class group that is not explored keeps one of its initial states
    /\ part # "enrollment_serial" => es_group_open
    /\ part # "enrollment_concurrent" => ec_group_open

Next ==
    \/ part = "enrollment_serial" /\ ES!Next
       /\ UNCHANGED <<part, ecvars, bsvars, bcvars, hdvars, hmvars, btvars,
            avvars, sovars, ggvars, scvars, atvars, mlvars, uavars, tcvars,
            abvars, uvvars>>
    \/ part = "enrollment_concurrent" /\ EC!Next
       /\ UNCHANGED <<part, esvars, bsvars, bcvars, hdvars, hmvars, btvars,
            avvars, sovars, ggvars, scvars, atvars, mlvars, uavars, tcvars,
            abvars, uvvars>>
    \/ part = "billing_serial" /\ BS!Next
       /\ UNCHANGED <<part, esvars, ecvars, bcvars, hdvars, hmvars, btvars,
            avvars, sovars, ggvars, scvars, atvars, mlvars, uavars, tcvars,
            abvars, uvvars>>
    \/ part = "billing_concurrent" /\ BC!Next
       /\ UNCHANGED <<part, esvars, ecvars, bsvars, hdvars, hmvars, btvars,
            avvars, sovars, ggvars, scvars, atvars, mlvars, uavars, tcvars,
            abvars, uvvars>>
    \/ part = "heap_dary" /\ HD!Next
       /\ UNCHANGED <<part, esvars, ecvars, bsvars, bcvars, hmvars, btvars,
            avvars, sovars, ggvars, scvars, atvars, mlvars, uavars, tcvars,
            abvars, uvvars>>
    \/ part = "heap_min" /\ HM!Next
       /\ UNCHANGED <<part, esvars, ecvars, bsvars, bcvars, hdvars, btvars,
            avvars, sovars, ggvars, scvars, atvars, mlvars, uavars, tcvars,
            abvars, uvvars>>
    \/ part = "bst" /\ BT!Next
       /\ UNCHANGED <<part, esvars, ecvars, bsvars, bcvars, hdvars, hmvars,
            avvars, sovars, ggvars, scvars, atvars, mlvars, uavars, tcvars,
            abvars, uvvars>>
    \/ part = "avl" /\ AV!Next
       /\ UNCHANGED <<part, esvars, ecvars, bsvars, bcvars, hdvars, hmvars,
            btvars, sovars, ggvars, scvars, atvars, mlvars, uavars, tcvars,
            abvars, uvvars>>
    \/ part = "sorts" /\ SO!Next
       /\ UNCHANGED <<part, esvars, ecvars, bsvars, bcvars, hdvars, hmvars,
            btvars, avvars, ggvars, scvars, atvars, mlvars, uavars, tcvars,
            abvars, uvvars>>
    \/ part = "grid" /\ GG!Next
       /\ UNCHANGED <<part, esvars, ecvars, bsvars, bcvars, hdvars, hmvars,
            btvars, avvars, sovars, scvars, atvars, mlvars, uavars, tcvars,
            abvars, uvvars>>
    \/ part = "schedule" /\ SC!Next
       /\ UNCHANGED <<part, esvars, ecvars, bsvars, bcvars, hdvars, hmvars,
            btvars, avvars, sovars, ggvars, atvars, mlvars, uavars, tcvars,
            abvars, uvvars>>
    \/ part = "catalog" /\ SK!Next
       /\ UNCHANGED <<part, esvars, ecvars, bsvars, bcvars, hdvars, hmvars,
            btvars, avvars, sovars, ggvars, atvars, mlvars, uavars, tcvars,
            abvars, uvvars>>
    \/ part = "attendance" /\ AT!Next
       /\ UNCHANGED <<part, esvars, ecvars, bsvars, bcvars, hdvars, hmvars,
            btvars, avvars, sovars, ggvars, scvars, mlvars, uavars, tcvars,
            abvars, uvvars>>
    \/ part = "ml" /\ ML!Next
       /\ UNCHANGED <<part, esvars, ecvars, bsvars, bcvars, hdvars, hmvars,
            btvars, avvars, sovars, ggvars, scvars, atvars, uavars, tcvars,
            abvars, uvvars>>
    \/ part = "users" /\ UA!Next
       /\ UNCHANGED <<part, esvars, ecvars, bsvars, bcvars, hdvars, hmvars,
            btvars, avvars, sovars, ggvars, scvars, atvars, mlvars, tcvars,
            abvars, uvvars>>
    \/ part = "tcp" /\ TC!Next
       /\ UNCHANGED <<part, esvars, ecvars, bsvars, bcvars, hdvars, hmvars,
            btvars, avvars, sovars, ggvars, scvars, atvars, mlvars, uavars,
            abvars, uvvars>>
    \/ part = "abp" /\ AB!Next
       /\ UNCHANGED <<part, esvars, ecvars, bsvars, bcvars, hdvars, hmvars,
            btvars, avvars, sovars, ggvars, scvars, atvars, mlvars, uavars,
            tcvars, uvvars>>
    \/ part = "validate" /\ UV!Next
       /\ UNCHANGED <<part, esvars, ecvars, bsvars, bcvars, hdvars, hmvars,
            btvars, avvars, sovars, ggvars, scvars, atvars, mlvars, uavars,
            tcvars, abvars>>

\* Each UDP client is one thread running to completion: weakly fair within
\* its own part, as in its module's Spec.  No other part has fairness.
AbpClientStep ==
    /\ part = "abp" /\ AB!Client
    /\ UNCHANGED <<part, esvars, ecvars, bsvars, bcvars, hdvars, hmvars, btvars,
                   avvars, sovars, ggvars, scvars, atvars, mlvars, uavars, tcvars,
                   uvvars>>
UdpClientStep ==
    /\ part = "validate" /\ UV!Client
    /\ UNCHANGED <<part, esvars, ecvars, bsvars, bcvars, hdvars, hmvars, btvars,
                   avvars, sovars, ggvars, scvars, atvars, mlvars, uavars, tcvars,
                   abvars>>

Spec == Init /\ [][Next]_vars /\ WF_abvars(AbpClientStep) /\ WF_uvvars(UdpClientStep)

----------------------------------------------------------------------------
(* Properties, each about one part. *)

\* Requests served one at a time implement EnrollmentSpec: every enrollment
\* change is an atomic step of the abstract group.
Refines == ES!Refines

\* Billing served one request at a time: at quiescence every charge's status
\* is CANCELLED exactly when a cancellation was committed, and otherwise what
\* recalculate_charge_status derives from its allocations.
StatusMatchesAllocations == BS!StatusMatchesAllocations

\* Enrollment with two requests in flight: types, and no request is left
\* holding a stale row it can write back.  The UDP programs: types, and
\* send_packets of ZAD1_3 never waits for a response with its retry
\* budget spent.
TypeOK == EC!TypeOK /\ AB!TypeOK /\ UV!TypeOK

\* Enrollment with two requests in flight: the order of joined_at matches
\* the rows that exist.
RowsInOrder == EC!RowsInOrder

\* Billing with two requests in flight: types, and every allocation refers
\* to a payment and a charge that exist (the foreign keys delete_payment
\* and create_allocation race on).
BillingTypeOK == BC!TypeOK

\* insert, delete and clear of both heaps behave as the priority queue
\* each promises: delete takes out (and the min heap returns) an item of
\* highest priority.
ImplementsQueue == HD!ImplementsQueue /\ HM!ImplementsQueue

\* The sift loops of insert and delete keep both heaps ordered.
HeapOrdered == HD!HeapOrdered /\ HM!HeapOrdered

\* BST insert and delete (all three cases) keep a search tree holding the
\* values inserted and not deleted, and search and delete find a value
\* exactly when it is in the tree.
SearchTree == BT!SearchTree

\* The rotations of AVL insert_rec keep a balanced search tree with
\* correct levels, holding the values inserted, each found by search.
AvlSearchTree == AV!AvlSearchTree

\* Each of BubbleSort, SelectionSort, InsertSort (its read of mycopy[-1]
\* included) and MergeSort returns its list sorted, with its items.
SortedPermutation == SO!SortedPermutation

\* get_path's Dijkstra loop ends with the least cost of every cell, and
\* its walk back yields a cheapest path from start to end.
ShortestPath == GG!ShortestPath


\* Class sessions and the catalog: no sequence of admin and instructor
\* requests leaves an attendance row, a substitution or a
\* rescheduled_from_id pointing at a deleted session, a session pointing
\* at a deleted class group or room, or a class group pointing at a deleted
\* room, topic, skill level or semester (the deletes fail instead), and
\* no two rooms share a name.  The two instances differ only in the
\* requests they make, so SC's invariant is SK's.
ScheduleTypeOK == SC!ScheduleTypeOK

\* generate_class_group_sessions never commits a SCHEDULED session double
\* booking a room or instructor, whatever sessions were created,
\* rescheduled or bulk-updated before it.
GeneratedWithoutConflict == SC!GeneratedWithoutConflict

\* generate_class_group_sessions creates sessions exactly on the days its
\* range covers that fall on the group's day as the e-mails name it.
GenerateMatchesCalendar ==
    [][/\ part = "schedule" => SC!GenerateMatchesCalendarStep
       /\ part = "catalog" => SK!GenerateMatchesCalendarStep]_scvars


\* Attendance: a successful upsert_attendance_bulk leaves each listed
\* student's row as the student's last item says.
BulkLastWins == [][part = "attendance" => AT!BulkLastWinsStep]_atvars


\* Once the prediction service has started (lifespan's get_model_service
\* has returned), both models are loaded and no /predict of either A/B
\* variant fails with "No model is loaded", across restarts and model
\* files written after a failed startup.
ServesBothVariants == part = "ml" => ML!ServesBothVariants

\* In every state /results can answer: the rows committed by /predict and
\* /set_price satisfy the response model, and the per-variant counts add up
\* to the table's.
ResultsReportTable == part = "ml" => ML!ResultsReportTable


\* Whatever seeding, registration, PATCH /users/me and PATCH /users/{id}
\* requests happen, every account's role is admin exactly when it is a
\* superuser, so the role-gated and the superuser-gated routes agree.
RoleMatchesSuperuser == part = "users" => UA!RoleMatchesSuperuser

\* However TCP splits the stream, the TCP server has printed exactly the
\* decodable whole nodes received so far, in order, and keeps only the
\* bytes of the partial node after them.
NodesFramed == part = "tcp" => TC!NodesFramed


\* ZAD1_3: until send_packets first gives a packet up, every packet
\* reported VALID reached the server.
ValidWasReceivedUntilGiveUp == AB!ValidWasReceivedUntilGiveUp

\* ZAD1_3: main() returns, through a valid ACK, max_retries or a receive
\* error for every packet.
Termination == part = "abp" => AB!Termination

\* ZAD1: validate answers VALID exactly to the datagrams create_datagram
\* builds for their length, so no datagram of the client is refused and
\* no malformed one accepted.
ServerAcceptsClientFormat == UV!ServerAcceptsClientFormat

\* ZAD1: the client's main() returns whatever the network does.
ClientTerminates == part = "validate" => UV!ClientTerminates

=============================================================================
