# TLA+ models of the Portfolio repository

This directory holds TLA+ models of the parts of the repository whose
behaviour is worth model checking, the TLC configurations that check them,
and `PROJECT.json`, which records for every model which source lines it
translates, which runs check it and what they showed.

## 1. The system: inventory

The repository is a portfolio of independent course projects. No part
talks to another, so each is modelled on its own.

| Part | Source | State | Operations | What makes it hard |
|---|---|---|---|---|
| IREP++ rule learner | `src/UMA/Katalog projektu/IReppp.py` | rule set, remaining pool, bad-rule counter; inside one iteration: grow/prune sets, the rule being grown, the grow loop's working set | `fit` → `_learn` loop: `_split` (random), `_grow_rule` (loop over `_find_split`/`_foil_gain`), `_prune_rule`, `_keep`, `_not_covered`; `predict` | two nested data-dependent loops whose termination rests on the search; floating-point midpoints; tie-breaking; randomness |
| Experiment drivers, tests | `src/UMA/...`, `src/Uczenie_Maszynowe/...` | none of their own | load data, call `fit`/`predict`, plot | I/O only |
| Web app: enrollment and waitlist | `services/student/enrollment.py`, `services/admin/enrollment.py`, `PZSP2/.../student/class_group.py` | enrollments (ACTIVE, WAITLISTED, CANCELLED) of class groups with a capacity | create (ACTIVE if a spot is free, else WAITLISTED), cancel, leave waitlist, admin update/delete, `promote_waitlist` | availability is read, then the insert is committed after several awaits: concurrent requests interleave |
| Web app: charges, payments, allocations | `services/admin/payments.py`, `PZSP2/.../services/admin/charges.py`, the admin `charge.py` and `payment.py` routes | charges (status, amount due), payments, allocations of payments to charges | create/update/cancel a charge, create/delete a payment, create/update/delete an allocation, each followed by `recalculate_charge_status` | the stored status is recomputed in a second commit from a SUM read earlier, with a Charge object loaded before the first commit |
| Web app: sessions and attendance | `services/admin/class_sessions.py`, `services/student/attendance.py`, `PZSP2/.../instructor/session.py` | class sessions (status, date, times, room, instructor, `rescheduled_from_id`), attendance rows, substitutions | create, update, delete, cancel, complete, reschedule, bulk cancel, bulk update, substitutions, attendance upsert and delete | rows referring to a session make its delete fail as a whole; bulk handlers touch many rows in one commit |
| Web app: class groups and session generation | `services/admin/class_groups.py`, `PZSP2/.../api/routes/admin/schedule.py` | class groups (day, times, room, instructor), rooms, skill levels, topics, semesters | class-group and catalog create, update, delete; `generate_sessions` (date loop, conflict query, insert), `delete_class_group_sessions` | two day-numbering conventions; the conflict query must see what every other handler left |
| Web app: user accounts | `auth/manager.py`, `PZSP2/.../api/routes/update_user.py`, `core/init_db.py`, `PZSP2/.../api/main.py` | users (e-mail, password, role, is_superuser, is_verified) | register, seed, verify, PATCH `/users/me`, PATCH `/users/{id}` | role and is_superuser kept in step by hand |
| Web app: CRUD, e-mail, config | remaining `server/app` files | database rows | CRUD handlers, SMTP, settings | framework glue |
| ML service (A/B test) | `Inżynieria_Uczenia_Maszynowego/Phase2/app` | the model-service singleton, model files, predictions table | startup, restart, `/health`, `/predict`, `/set_price`, `/results` | startup that fails, commits before response validation |
| UDP alternating-bit client | `src/PSI/ZAD1_3/p_client/p_client.py` | sequence bit, retry counter | `send_packets`: send, wait with timeout, validate ACK, retry | lost, duplicated and delayed datagrams and ACKs; retry limit |
| UDP validating server + client | `src/PSI/ZAD1/p_server/p_server.py`, `src/Programowanie_Sieciowe/ZAD1/p_client/p_client.py` | the client's position in `--sizes`; nothing on the server between datagrams | client: `create_datagram`, send, wait one timeout; server: `validate`, reply | the two ends must agree on the format; lost, late and foreign datagrams; oversize sends |
| TCP server | `src/PSI/ZAD2_1/p_server/p_server.py` | per-connection buffer | receive and unpack | stream framing |
| Heaps | `src/AISDI/Kopce/heap.py` (d-ary max), `src/AISDI/Grafy/heap.py` (binary min) | array | insert (sift up), delete (sift down) | index arithmetic for d children |
| BST, AVL | `src/AISDI/Drzewa/BST.py`, `src/Algorytmy_i_Struktury_Danych/Drzewa/AVL.py` | tree | insert, delete, rotations | rebalancing |
| Sorts, graphs, Turing machine | `src/Algorytmy_i_Struktury_Danych/...` | arrays, graphs, tape | sort loops, Dijkstra, machine steps | loop invariants |

`PROJECT.json` lists every part under `components`, with its status, and
under `hazards` everything in this code that is hard to test, at the line
where it bites.

### The IREP++ learner in detail

`fit(X, y)` runs `_learn` on the whole input. While fewer than
`max_bad_rules` consecutive rules were rejected and the pool is not empty,
`_learn` does the following:

1. It permutes the pool at random and cuts it at `int(n * grow_ratio)`. If
   either part is empty it stops.
2. It grows a rule on the grow part. While the rule covers a negative
   example of the working set, it picks the best literal over all
   features, appends it, and narrows the working set to what the literal
   covers.
3. It prunes the rule to its shortest prefix of best precision on the
   prune part.
4. It keeps the rule if the rule covers strictly more positives than
   negatives of the pool. A kept rule is appended and what it covers
   leaves the pool. A rejected rule counts as a bad rule.

`predict` says positive iff some rule covers the example.

The properties that make it correct:
- The pool is exactly the examples no learned rule covers.
- Every accepted rule has a positive majority on the pool it is judged on.
- The grow loop's working set is the coverage of the rule being grown.
- Each literal strictly narrows the working set, which is what makes the
  grow loop end.
- fit() returns.
- The search returns the first literal of maximal FOIL gain in scan order.
- The pruner returns the shortest prefix of maximal precision.

## 2. Modules

| Module | Models | Role |
|---|---|---|
| `IrepRules` | the pure helpers of `IRepppClassifier` | operators: coverage, FOIL gain comparison, midpoint, `find_split`, the feature loop (`GrowBest`), `no_errors_on_grow_set`, `calculate_precision`, `prune_rule`, `keep`, `SplitPoint` |
| `IrepSearchSpec` | spec.md 4.4 and 4.5 | declarative definitions of the best literal (`RefBest`) and of the pruned rule (`RefPrune`) |
| `IrepLearner` | `fit`, `_learn`, `_split`, `_grow_rule`, `predict` | the state machine; instantiates `IrepSearchSpec` (and so `IrepRules`) with the labels of the run |
| `SeparateAndConquer` | what the learner promises | abstract spec: `Learn` accepts a rule with a strict positive majority on the pool and removes its coverage; `Stop` |
| `MC_IrepLearner` | — | model values for TLC: the example points, the inputs |
| `EnrollmentSpec` | what the enrollment handlers mean to do | each request takes effect atomically: `Enroll` (ACTIVE iff a spot is free), `Cancel`, `Leave`, admin `AdminCreate`/`AdminUpdate`/`AdminDelete`, `Promote` (the oldest waitlisted student, only while a spot is free) |
| `EnrollmentService` | the enrollment handlers of the web app, statement by statement | one process per student and per administrator; every `await` on the database between a read and the commit is a point where other requests run |
| `AbpClient` | `src/PSI/ZAD1_3/p_client/p_client.py`: `main`, `send_packets`, `send_datagram`, `receive_response`, `validate_response`, `create_datagram` | the client, the server it expects and the network between them |
| `UdpValidate` | `src/PSI/ZAD1/p_server/p_server.py` (`validate`, the serve loop) and `src/Programowanie_Sieciowe/ZAD1/p_client/p_client.py` (`create_datagram`, `main`) | the client's loop (`pc`, `idx`), the datagrams in flight, foreign senders; ghost `verdicts` |
| `MC_Enrollment` | — | three students, one or two administrator processes, the status sets |
| `Billing` | the admin billing handlers of the web app, statement by statement | one process per administrator request; `ch_status`, `ch_due`, `ch_owner`, `pay_owner`, `alloc` are the three tables; the ghost `cancelled` records committed cancellations |
| `PriorityQueue` | what a heap promises | abstract spec: a bag of items; `Insert`, `Delete` takes out one of the items of highest priority (and returns it for the min heap), `DeleteEmpty` raises `HeapDeleteError`, `Clear` |
| `Heap` | `src/AISDI/Kopce/heap.py` (d-ary max heap) and `src/AISDI/Grafy/heap.py` (binary min heap) | the array; `Insert`, `Delete`, `DeleteEmpty`, `Clear`, one call per step; the sift loops are the recursive operators `SiftUp` and `SiftDown`; refines `PriorityQueue` |
| `BST` | `src/AISDI/Drzewa/BST.py` | the tree as nested records; `Insert`, `Search`, `Delete` (leaf, one child, two children, `NoNodeError`); ghost bag `keys` |
| `AVL` | `src/Algorytmy_i_Struktury_Danych/Drzewa/AVL.py` | nodes with their stored `level`; `Insert` (`insert_rec` with the four rotation cases), `Search`; ghost bag `keys` |
| `Sorts` | the four sorts of `src/Algorytmy_i_Struktury_Danych/Sortowanie` | each sort as an operator running its loops; one call on any short list per step |
| `GridGraph` | `src/Algorytmy_i_Struktury_Danych/Grafy/graph.py` | `Load` of a board, each iteration of `get_path`'s Dijkstra loop (`Pop`, with the min heap of `Heap`) and of its walk back (`Walk`, `WalkDone`) |
| `Turing` | `src/Algorytmy_i_Struktury_Danych/Turing/turing.py` | one iteration of the while loop of normal or special mode per step, over a lazily chosen instruction file; a ghost Turing machine runs the same program |
| `MC_Turing` | — | the symbols, states and input tapes |
| `Schedule` | the class-session handlers of `services/admin/class_sessions.py`, the class-group CRUD with `generate_sessions` and `delete_class_group_sessions` of `services/admin/class_groups.py`, the catalog CRUD (rooms, skill levels, topics, semesters), the instructor's attendance upsert and delete | the catalog `rooms` (id to name), `cat` (live ids of the other catalog tables), `grp` (class-group rows), `issued` (each table's id sequence); `sess` (id to row), the id sequence `nextId`, the sessions referred to by attendance rows (`attended`) and substitutions (`subbed`), the last response `out`; ghost `clash` |
| `Attendance` | the attendance handlers: `upsert_attendance_bulk`, `upsert_attendance_single`, `delete_attendance`, `set_makeup` of `PZSP2/.../services/instructor/session.py` behind the instructor routes, and the admin attendance CRUD | `att` (session and student to status and makeup flag, or no row), `active` (the groups each student is ACTIVE in, changed by the environment), `out` |
| `ModelService` | `Phase2/app/services/model_service.py`, `api/routes.py`, `services/metrics.py`, `main.py` | `files`, `svc` (the singleton), `up`, `table` (predictions), `res`; `Train`, `Startup`, `Restart`, `Health`, `Predict`, `SetPrice` and `SetPriceCommit` (the two statements of `set_actual_price`; `pending` holds the requests between them), `Results`; `calculate_metrics` as an operator |
| `UserAccount` | `auth/manager.py`, `api/routes/update_user.py`, `core/init_db.py`, `api/main.py` | `users` (e-mail, password, role, su, verified); `Register`, `Seed`, `Verify`, `UpdateMe`, `AdminUpdate` |
| `TcpServer` | `src/PSI/ZAD2_1/p_server/p_server.py` | `stream`, `inflight`, `buf` (received_data), `nodes` (printed); `Accept`, `Recv` (with the inner loop `Drain`), `Eof` |
| `MC_Portfolio` | — | the enrollment, billing, heap, tree, sort, graph, schedule, attendance, prediction-service, user-account, TCP and both UDP models side by side (see below), with their model values |

### How IrepLearner corresponds to the code

Each variable of `IrepLearner` is a variable of the code:
- `data` and `y` are the input of `fit`.
- `pool` is `training_data` of `_learn`.
- `rules` is `rule_set`.
- `bad_rule_count` is the rejection counter.
- `grow_set`, `prune_set` and `new_rule` are the locals of one loop
  iteration.
- `current_grow_set` is the working copy in `_grow_rule`.
- `phase` records where control is: `"learn"` is the top of the `_learn`
  loop, `"grow"` is inside `_grow_rule`, and `"done"` means `fit` has
  returned.

Actions:
- `StopBadRules` is the while condition failing.
- `StopEmptyPool` is the `break` on an empty pool.
- `SplitEmpty` is the `break` on an empty grow or prune set.
- `Split` is `_split` plus the start of `_grow_rule`. It chooses every grow
  set of the right size that the random permutation can produce.
- `GrowStep` is one iteration of `_grow_rule`'s loop.
- `AcceptRule` and `RejectRule` are the rest of the loop body: the loop's
  exit, `_prune_rule`, `_keep`, then either appending the rule and calling
  `_not_covered`, or incrementing the counter.
- `Finished` is the state after `fit` returns.

Data abstraction:
- An example is a model value, and its features are naturals.
- The naturals stand for consecutive doubles `0..MaxFinite`. This makes
  the one floating-point operation whose rounding matters, the midpoint
  `(a + b) / 2`, exact to model. A sum above `MaxFinite` overflows to
  `Inf`, and a midpoint between adjacent values rounds half to even.
- FOIL gains are compared exactly, by exponentiating both sides of the
  comparison.
- Precisions are compared as fractions.
- A literal is a record `[f, op, t]`. Its `gain` field is only ever used
  in comparisons, so the model recomputes it instead of storing it.

### How EnrollmentService corresponds to the code

The handlers are in `Projekt_Zespołowy_2_Aplikacja_Webowa/server/app/services/{student,admin}/enrollment.py`;
their routes, and `get_class_group_availability`, are in
`PZSP2/server/app/`. The model is one class group.

Variables:
- `status[s]` is the row of student `s` in the `enrollment` table (the
  unique constraint allows one per student and group), or `NONE`.
- `order` lists the students with a row in `joined_at` order.
- `group_open` is `status = OPEN and is_public` of the group, and
  `capacity` its `max_capacity`; `update_class_group` sets both
  (`UpdateClassGroup`, in the abstract spec and as one admin commit in
  the service). Lowering the capacity below the ACTIVE count leaves the
  group over-full, which `promote_waitlist`'s `>=` test then treats as
  full.
- `req[p]` is the request process `p` is serving: which handler, where it
  is (`"commit"` or `"select"`), and the locals it carries across awaits:
  the row it loaded (`who`), the status to write (`st`), and whether the
  availability it read had a free spot (`seen`).

Each action is the part of a handler between two database round trips
that matter:
- `CreateRead`: the reads of `create_student_enrollment` up to the status
  decision (lines 48-70); `CreateCommit`: `session.add`, `commit`, and the
  `IntegrityError` path (72-87).
- `CancelRead` / `LeaveRead`: the route's `get_enrollment` and 404, and
  `leave_waitlist`'s status check; `CancelCommit`: setting `CANCELLED`
  and committing. The PATCH of `update_self_enrollment` accepts only
  `CANCELLED`, so it is the same steps.
- `AdminCreate`: one commit. `AdminRead`: the route's load of the row;
  `AdminUpdateCommit` / `AdminDeleteCommit`: the service's write and
  commit.
- `PromoteCount`, `PromoteSelect`, `PromoteCommit`: the three statements
  of `promote_waitlist`.
- A write to a row deleted since it was loaded fails (SQLAlchemy's
  `StaleDataError`) and changes nothing (`CommitStatus`).

Abstractions:
- Reads see committed data (PostgreSQL's default READ COMMITTED); a
  handler's writes are committed together, so a commit is one step.
- `joined_at` is the server's `now()`, the start of the inserting
  transaction. The model orders rows by commit instead. The two agree when
  requests do not overlap, which is when the order is checked
  (`Refines`).
- `cancelled_at`, the e-mail and `UserPackage` unlinking do not affect the
  rows' statuses and are left out.
- A student has at most one request in flight; `MaxInFlight` bounds the
  requests in flight together.

### How AbpClient corresponds to the code

Variables:
- `size`, `packet_number`, `sequence_number` and `retries` are the
  variables of `main` and `send_packets`.
- `pc` is where the client is: `"create"` is the top of `main`'s loop,
  `"send"` the top of the `while` loop of `send_packets`, `"recv"` the
  wait for a response after a successful `sendto`.
- `to_server` and `to_client` are the datagrams in flight. A datagram is
  its sequence byte plus a ghost packet number. Its pairs are left out,
  since nothing the client decides depends on them.
- `received`, `valid_for` and `gave_up` are ghosts. They record which
  packets reached the server, which ones the client printed VALID for,
  and which ones `send_packets` returned from without a valid ACK.

Actions:
- `Create` is one iteration of `main`'s loop up to the call of
  `send_packets`. A size `create_datagram` refuses skips the packet.
- `Send` is `send_datagram`. A failed `sendto` loops without a retry.
- `Receive`, `Timeout` and `RecvError` are the three outcomes of
  `receive_response`, each with the rest of the loop body. A valid ACK
  flips the bit and returns. Anything else counts a retry (`Retry`) and
  gives up at `max_retries` (`GiveUp`).
- `recv(size)` keeps at most `size` bytes (`received_text`).

The server is not in the repository. `ServerReply` is what the client is
written for: an ACK with the datagram's bit.
- `Lose` drops a datagram.
- `ForeignDatagram` is another sender's datagram on the client's port.
- Delay is a `Timeout` while the answer is still queued.
- With `Fifo = FALSE`, the network also reorders and duplicates.

### How UdpValidate corresponds to the code

A datagram is its length, its first two bytes and its sender: `validate`
reads nothing else, and the client's letters and numbers are left out.
- `create_datagram(size)` is the client's function: `ValueError` below two
  bytes or off the form 2 + 3n, `OverflowError` when the count does not
  fit `to_bytes(2)`, else the length and the big-endian count (`Header`).
- `validate(d)` is the server's function: at least two bytes, of the form
  2 + 3n, and the count read big-endian matching the length.
- `Create` is one iteration of the client's `for` loop up to
  `sock.recv`: past the last size `main` returns; a refused size is
  skipped; above 65507 bytes `sendto` fails and the loop continues
  (`SendFailed`); else the datagram is sent.
- `Recv` takes any answer in flight (UDP keeps no order), whichever
  datagram it answers; `Timeout` is the `TimeoutError` branch, with the
  answer possibly still on its way.
- `Serve` is one iteration of the server's loop: `recvfrom` any datagram,
  `validate`, answer the sender. `Lose` drops a datagram; `Foreign` is
  another host sending to the server, or a text to the client's port.
- Queues hold `MaxQueue` datagrams and drop what overflows them.

### How Billing corresponds to the code

Each handler is one action per database round trip that matters:
- `CreateCharge` and `CreatePayment` are one INSERT and commit. Ids are
  autoincrement and never reused, so a deleted payment is `DELETED`, not
  free.
- `UpdateChargeRead`/`CancelChargeRead` are the routes' `get_charge`
  (404) and `update_charge`'s refusal of a status other than CANCELLED.
  `UpdateChargeCommit` writes only the payload's columns. When
  `amount_due` was set it goes on to a refresh and a recalculation.
- `DeletePaymentRead` is the route's `get_payment` and the SELECT of the
  payment's allocations. `DeletePaymentCommit` deletes them and the
  payment in one commit. It fails on the foreign key when an allocation
  was added since the SELECT. Otherwise it recalculates each charge it
  saw, one `RecalcFetch` per charge.
- `CreateAllocationRead` holds `create_allocation`'s checks: payment and
  charge exist, the charge is not CANCELLED and belongs to the payment's
  student. The Charge it loads is the request's copy (`st`, `due`).
  `CreateAllocationCommit` fails on the primary key (row exists) or on the
  foreign key (payment deleted), both reported as "already exists". Its
  recalculation, `RecalcStale`, uses the copy: the session was made with
  `expire_on_commit=False`, so the commit did not reload it.
- `AllocationRead` is the PATCH/DELETE routes' `get_allocation`.
  `UpdateAllocationCommit` fails with StaleDataError when the row was
  deleted meanwhile. `DeleteAllocationCommit` only warns then. Both
  reload the charge (`RecalcFetch`).
- `Recalculate` is `recalculate_charge_status`: a CANCELLED copy returns;
  otherwise the SUM is read now, and a status different from the copy's is
  written by `RecalcWrite` in a later commit.

Dates, types, methods, notes and payment amounts decide nothing in these
handlers and are left out, and so is `update_payment`, which writes only
them. The refresh after a commit is folded into the following read.

### How the data-structure modules correspond to the code

Each public method is one action, and each loop inside it is a recursive
operator or a fold, so a step is a whole call.
- `Heap`: `Insert` is `insert` (append, then `SiftUp` while the parent
  compares wrongly); `Delete` copies the last item to the root, pops, and
  runs `SiftDown`. `MaxChild` is the `for i in range(d)` loop: it compares
  each child with `array[ind_max]`, where `ind_max` carries over from the
  previous level, exactly as the code does. The constant `DAry` selects the
  max heap of `Kopce` (with `d = D` and `clear`) or the min heap of `Grafy`
  (`d = 2`, `delete` returns the root). `PQ` instantiates `PriorityQueue`
  with `contents <- ToBag(array)`.
- `BST`: `insert` and `search` follow the code's comparisons (equal values
  go right). `delete` walks down to the first node with the value and
  replaces it by `Unlink`: nothing for a leaf, its only child (the code
  copies the child into the node), or the successor's value over the right
  subtree without the successor (`DropLeftmost`, which is
  `parent.set_left(child.get_right())`, or `set_right` when the successor
  is the right child itself).
- `AVL`: nodes carry the stored `level`, recomputed by `Relevel` as the
  code does after each change; `insert_rec` inserts (values `>=` go right),
  relevels, and applies the rotation the code picks from the balance factor
  and the comparison with the child's value.
- `Sorts`: `Get` is Python's indexing, negative indices included, so
  `InsertSort`'s read of `mycopy[-1]` at `j = -1` is modelled.
- `GridGraph`: a heap entry `(d, y, x)` is the integer `d*100 + y*10 + x`,
  which orders as the tuple does on boards of at most 10x10. `Pop` is one
  iteration of the first while loop: pop, skip a visited cell, otherwise
  visit it and relax its four neighbours in the code's order. `Walk` is one
  iteration of the walk back from the end.

### How Turing corresponds to the code

`tape` is the string, `index` the index into it. The instruction file is
a partial function from (state, symbol) to (write, move, next), since the
for loops take the first line that matches. It is revealed lazily: the
first time a step needs a line, every choice (including no line) is
explored. `Step` is one iteration of the while loop: the lookup (in
special mode the `*` line when there is no specific one or the index is
past the end), the write, the move with the correction of line 40, and
the tape's extension or `strip` (lines 46-58). `NormalCrash` is the
`IndexError` of `tape[index]` in normal mode; a missing line makes the loop
repeat for ever (`pc = "hung"`). A ghost Turing machine (`rtape`, `rhead`,
`rstate`) on a tape window wide enough for `MaxSteps` moves runs the same
program.

### How Schedule corresponds to the code

Each request is one step: its queries, its changes and its commit (the
routes run one after another in a model of the serial server). `sess` is
the class_session table; a row keeps the columns the handlers read or
write (group, date, start and end times, room, instructor, status,
`rescheduled_from_id` as `from`, 0 for NULL). Dates are day numbers, day
0 a Monday, so `date.weekday()` is `d % 7`. Attendance and substitutions
are reduced to which sessions they refer to, which is all the session
handlers depend on. A commit that would leave a foreign key dangling
fails whole with an IntegrityError (response 500), as PostgreSQL does;
SQLAlchemy deletes rows in primary-key order, so a range that holds a
rescheduled origin and its copy fails on the origin.

- `GenerateSessions` is the route (400 when start is after end) and
  `generate_sessions`: `CandidateDates` is its while loop with
  `matches_day_of_week`, `find_conflicting_dates` its query (SCHEDULED
  sessions on a candidate date, same room or same instructor when that
  is set, overlapping times), then 409 or the insert of one SCHEDULED row
  per date in date order.
- `DeleteGroupSessions`, `DeleteClassSession`: 400 on a reversed range;
  500 when a row in the way is referred to; otherwise the rows go.
- `CreateClassSession`, `UpdateClassSession` (the fields the payload
  sets), `SetStatus` (cancel and complete), `RescheduleClassSession` (the
  old row CANCELLED and a SCHEDULED copy pointing at it, one commit),
  `BulkCancel`, `BulkUpdate` (404 unless every id exists),
  `CreateSubstitution` (400 when the session has no instructor),
  `DeleteSubstitution`, `MarkAttendance`, `DeleteAttendance`; `Missing`
  is the 404 of every route that loads a session by id.
- The instructor routes of `api/routes/instructor/schedule.py`:
  `InstructorComplete`, `InstructorCreateSubstitution` and
  `InstructorDeleteSubstitution` are the same changes as the admin ones,
  taken only by the session's instructor; for anyone else `Forbidden`
  answers 403 and changes nothing (`NotInstructorOf`).

The catalog tables are kept as far as the sessions depend on them.
`rooms` maps a room id to its name (unique in the table); `cat` holds
the live ids of skill_level, topic and semester; `grp` maps a class
group id to the columns the handlers read (semester, level, topic, room,
instructor, day_of_week, start and end slot). `issued` counts the ids
each table's sequence has handed out; the ids are the model values of
`IdSeq[t]` in order, and an insert that fails still consumes one, as a
PostgreSQL sequence does.
- `CreateRoom` (a duplicate name fails the unique constraint, 500),
  `UpdateRoom` (the name, or NULL, which the NOT NULL column refuses),
  `CreateRow`/`UpdateRow` for the other catalog tables (an update that
  sets a NOT NULL column to null answers 500), and `DeleteRow`: 404 for
  a missing id, 500 while a class group (or, for a room, a session)
  refers to the row, else the row goes. The wrappers `CreateTopic`,
  `DeleteSemester`, ... name the routes.
- `CreateClassGroup`, `UpdateClassGroup` (the fields the payload sets,
  `Patched`) commit only when every foreign key is live and the columns
  are storable (`GroupStorable`), else 500. `DeleteClassGroup` answers
  500 while sessions of the group exist. An update leaves the group's
  generated sessions as they are: their room and times are not
  recomputed.
- A session created or updated with a room that is gone fails with 500
  (`SessionStorable`).

### How Attendance corresponds to the code

A row is keyed by session and student, which is the table's unique
constraint; status and is_makeup are NOT NULL. A patch payload is the set
of fields it sets (`model_dump(exclude_unset=True)`), the ones of them it
sets to null, and the values. Each request is one step.

- `BulkUpsert`: an empty list returns at once; the regular items'
  students must be ACTIVE in the session's group and the makeup-only ones
  in some group (400). The for loop (`SaveItem`, folded over the items)
  updates the rows that existed before it and adds the others; a student
  without a row listed twice is added twice and the commit fails (500).
- `UpsertSingle`: 400 unless ACTIVE in the session's group; an existing
  row gets the set fields (`UpdateRow`), a null among them is a 500; a
  new row takes status or PRESENT (a null status too) and is_makeup or
  False, and a null is_makeup is a 500.
- `SetMakeup` (mark and unmark): the student's ACTIVE enrollment in any
  group by `scalar_one_or_none`: none is a 400, two raise
  `MultipleResultsFound` (500); then a PRESENT row with the flag, or the
  flag set on the existing row.
- `DeleteAttendance`, `AdminCreate` (500 on a second row for the key),
  `AdminUpdate`, `AdminDelete`; `Forbidden` is the 403 of
  `_get_session_or_404`; `Enroll` and `Unenroll` stand for the
  enrollment handlers, modelled in `EnrollmentService`.

### How ModelService corresponds to the code

The process starts with `lifespan` (`Startup`): `init_db`, then
`get_model_service`, whose `ModelService()` runs `load_models`: it opens
the baseline file, then the advanced one, and a missing file raises out
of the constructor, so the startup fails and `_model_service` stays None.
`Train` is `scripts/train.py` writing a model file; `Restart` is a new
process, which loses the singleton but keeps the table. `Predict` is
`get_prediction`: an unknown `host_is_superhost` is a 400 before the
service is touched; `predict_price` takes the A/B coin (any variant,
`random.random() < p`), raises ValueError (a 500) when that model is not
loaded, and clamps the model's output at 0; the row is committed, and
then FastAPI validates `PredictionResponse` (`predicted_price ge=0`), so
a failed validation is a 500 after the commit. `SetPrice` answers 404 for
an unknown id and 400 once a price is set; it then commits in a second
statement (`SetPriceCommit`). Between the two, other requests run, so
`pending` holds the requests past their check, at most `MaxInFlight`;
`Restart` drops them. `Results` computes
`ABTestResults` with `calculate_metrics` over each variant's evaluated
rows: the means are kept as exact fractions and `r2` as defined or not
(`ss_total > 0`). The features and the model's arithmetic are a choice
of output from `ModelOutputs`.

### How UserAccount corresponds to the code

A user is the row the routes read: e-mail, password, role, is_superuser,
is_verified. `Register` is fastapi-users' register router calling
`UserManager.create` with `safe=True`, which forces the student role;
`Seed` is `init_db`'s `_get_or_create_user` with `safe=False`, where
`create` makes an admin a superuser and a superuser an admin. `UpdateMe`
is `update_me_securely`: `current_user` requires a verified user (403),
the role is dropped, a new e-mail or password needs the current password
(400 when it is missing or the e-mail is unchanged, 401 when it is
wrong), and `update(safe=True)` ignores is_superuser and is_verified.
`AdminUpdate` is `update_user`: `current_superuser` (403),
`get_user_or_404`, then `Normalize` (the three branches of lines
118-131) and `update(safe=False)`. `Apply` is fastapi-users' update: a
taken e-mail, a weak password (`validate_password`) or a null role fails
the whole request with a 400; a new e-mail makes the user unverified.

### How TcpServer corresponds to the code

`Accept` is `sock.accept()` followed by `unpack_nodes` with an empty
`received_data`; the client has written some prefix of its nodes' bytes
before it closes or resets. `Recv` is one iteration of the outer loop:
`conn.recv(BUFFER_SIZE)` returns 1 to `BUFFER_SIZE` of the bytes in
flight, they are appended, and `Drain` is the inner while loop, which
cuts off every whole node, prints it if its text decodes and skips it
otherwise. `Eof` is `recv` returning `b""` or raising `OSError`. A byte
is the node it belongs to and whether it is part of a text that decodes.

### MC_Portfolio: parts in one model

The enrollment tables, the billing tables, the heaps, the trees, the
sorts, the graph, the class sessions, the attendance rows, the prediction
service, the user accounts, the TCP server and the two UDP pairs share no
state (attendance rows refer to sessions, but no handler of one part
reads what the other writes beyond the foreign key, which `Schedule`
keeps). A step of one part therefore commutes with
every step of another, and every property is about one part.
`MC_Portfolio` explores the parts as a disjoint union: `part` is chosen in
`Init`, and `Next` runs only that part's actions while every other part's
variables stay at their initial values. Each property is thus checked on
every behaviour of its own part without the product of the state spaces.
The schedule appears twice on the same variables: `schedule` (instance
`SC`) sends session requests only, and `catalog` (instance `SK`) sends
catalog and class-group requests beside generate and create requests,
so the two properties that read the group rows (`ScheduleTypeOK`,
`GeneratedWithoutConflict`) are checked after rooms, groups and
catalog rows have been changed or deleted.
Enrollment and billing each appear twice, serially (one request in flight)
and concurrently (two), with the bounds described below. The last
responses of the class-session, attendance, prediction and account
handlers (`sc_out`, `at_out`, `ml_out`, `ml_res`, `ua_out`) are read by
no invariant; `View` leaves them out, so two states
that differ only in them are one. The action properties read them and
are checked on every step TLC generates. They are stated for the step of
their own part (`part = "schedule" =>`), which keeps them from being
evaluated on the steps of the others.

The parts `abp` (`AbpClient`, order-keeping network) and `validate`
(`UdpValidate`) also have liveness properties. Their clients are weakly
fair, each within its own part: `WF_abvars(AbpClientStep)` and
`WF_uvvars(UdpClientStep)`, where the step is the part's `Client` action
with every other part unchanged, and the subscript is that part's
variables only. Every `out` variable holds values of one type (the
return records `NoReturn`, `Returned(v)` and the raised errors), since
the liveness checker compares states of different parts.

## 3. Runs

The learner runs use `MC_IrepLearner` with `grow_ratio = 2/3`, so
`int(n * 2/3) = (2n) div 3`.

| Run | cfg | Expect | Checks |
|---|---|---|---|
| learner_safety | `MC_IrepLearner.cfg` | pass | `TypeOK`; `PoolIsUncovered` (pool = examples `predict` leaves negative); `WorkIsRuleCoverage` (grow loop's working set = rule's coverage of the grow set); `ScanMatchesReference`, `PruneMatchesReference` (the split search and the pruner agree with spec.md 4.4 and 4.5 on every set searched or pruned); `GrowNarrows` (each literal strictly narrows the working set and keeps a positive); `Termination`; `SaCSpec` (`IrepLearner` implements `SeparateAndConquer` under the mapping `finished <- phase = "done"`; split, grow steps and rejections are stutters) |
| midpoint_overflow | `MC_IrepOverflow.cfg` | violation | `GrowNarrows` fails: with values 6 and 8 and `MaxFinite = 10` the midpoint is inf and `'<inf'` is appended forever |
| threshold_rounding | `MC_IrepAdjacent.cfg` | violation | `ThresholdExclusive` (spec.md's threshold exclusivity) fails: the midpoint of 2 and 3 is 2 |
| fit_predict_test | `MC_IrepTest.cfg` | violation | `TestFitPredict` (the assertions of `test_fit_predict`) fails: three all-positive grow sets, no rule |
| abp_stale_ack | `MC_AbpStaleAck.cfg` | violation | `ValidWasReceived` fails: packet 1 is given up with its datagrams still in flight, packet 2 reuses bit 0, and the server's late ACK0 for packet 1 is taken for packet 2, which was dropped |
| abp_oversize_send | `MC_AbpOversize.cfg` | violation | `Termination` fails: with `--size 65532` every `sendto` fails and `send_packets` loops forever |
| components | `MC_Portfolio.cfg` | pass | Enrollment one request at a time: `Refines` (implements `EnrollmentSpec`; administrators delete, promote and update the group's capacity and open flag, so no step is absorbed by an admin update of a row). Billing one request at a time: `StatusMatchesAllocations` (every charge is CANCELLED exactly when it was cancelled, else OPEN, PARTIAL or PAID as its allocations and amount due call for). Enrollment with two requests in flight: `TypeOK`, `RowsInOrder` (no write resurrects a deleted row; one row per student). Billing with two: `BillingTypeOK` (no allocation outlives its payment when `delete_payment` races `create_allocation`). Heaps: `ImplementsQueue` (both heaps implement `PriorityQueue`), `HeapOrdered`. BST: `SearchTree` (ordered, holding exactly the keys, and search and delete find exactly those). AVL: `AvlSearchTree` (stored levels are heights, balance factors in -1..1, values in order, exactly the inserted ones, each found by search). Sorts: `SortedPermutation` (each of the four returns the sorted permutation of its input). Graph: `ShortestPath` (distances solve Bellman's equations once the heap is empty, and the path runs from start to end through neighbours at cost `distance[end]`). Schedule, and the catalog beside it: `ScheduleTypeOK` (no attendance row, substitution or `rescheduled_from_id` ever refers to a deleted session; no class group or session refers to a deleted room, level, topic or semester; room names stay unique), `GeneratedWithoutConflict` (`generate_sessions` never commits a SCHEDULED session that double books a room or instructor, whatever other handlers left), `GenerateMatchesCalendar` (an action property: a successful generate creates sessions exactly on the dates of its range, not skipped, on the weekday that `utils/email_formatting.py` names for the group's `day_of_week`). Attendance: `BulkLastWins` (a successful bulk upsert leaves each listed student's row as that student's last item says, whether the row existed or not). Prediction service: `ServesBothVariants` (once started, both models are loaded, so no `/predict` of either variant fails with "No model is loaded", across restarts and late model files), `ResultsReportTable` (in every state `/results` passes its response model and its counts agree with the table). Accounts: `RoleMatchesSuperuser` (role is admin exactly when is_superuser, after any sequence of seeding, registration and updates). TCP server: `NodesFramed` (however the stream is split, the printed nodes are exactly the decodable whole nodes received, in order, and `received_data` holds only the partial node after them). ZAD1_3 client: `TypeOK` (a packet is never awaited with its retries spent), `ValidWasReceivedUntilGiveUp` (on an order-keeping network, until a packet is given up, every packet reported VALID reached the server), `Termination` (`main` returns). ZAD1: `ServerAcceptsClientFormat` (the server answers VALID exactly to the datagrams `create_datagram` builds for their length, from the client or from anyone), `ClientTerminates` (the client's `main` returns whatever the network loses or sends) |
| set_price_race | `MC_SetPriceRace.cfg` (module `ModelService`) | violation | `PriceSetOnce` fails: two `/set_price` requests for one prediction both pass the `actual_price is not None` check before either commits, and the second overwrites the first's price |
| turing_head_shift | `MC_TuringNormal.cfg` | violation | `MatchesMachine` fails after one step: input `1_1`, `init 1 -> _ R q`. Writing a blank and moving right leaves the index at 0 (the correction of line 40 applies everywhere); the tape is then `__1` and `strip` drops both leading blanks, so index 0 is the third cell, one cell right of the machine's head on the second. `strip` at line 54 also drops leading blanks without shifting the index, and at the right end it leaves `index = len(tape)`, so `tape[index]` raises |
| enrollment_capacity_race | `MC_EnrollCapacity.cfg` | violation | `ActiveWithinCapacity` fails: two `create_student_enrollment` requests read the last spot before either commits |
| enrollment_promote_race | `MC_EnrollPromote.cfg` | violation | `PromoteOnlyWaitlisted` fails: a student leaves the waitlist between `promote_waitlist`'s select and its commit and is made ACTIVE |
| billing_cancel_race | `MC_BillingRace.cfg` (module `Billing`) | violation | `StatusMatchesAllocations` fails with two billing requests in flight: `update_charge` cancels the charge after `create_allocation` loaded it; the allocation's recalculation writes PARTIAL over CANCELLED. The same property also fails through a lost update (an allocation's recalculation reads the SUM, a `delete_payment` removes the allocation and recalculates, the first write lands last), which TLC reports when cancellation is taken out |

### Bounds

The passing runs give `fit` every subset of five points, with every
labelling of it: 243 inputs. The points have two features.
- The features order the points differently, so feature choice matters.
- Two points tie on each feature, so equal adjacent values are skipped.
- Pools of every size 0..5 occur, so every early return of `_learn`
  happens: the empty input, a pool of one that gives an empty grow set,
  and two rejections with `MaxBadRules = 2`.
- Grow sets have up to 3 examples, so rules of two literals are grown,
  several rules are accepted in one run, and the pruner really shortens
  rules.

`MaxRuleLen = 4` never binds. Deadlock checking is on, so a grow loop
stopped by the bound would be reported as a deadlock.

The values are even grid points below `MaxFinite = 100`. Every midpoint is
therefore exact, and the passing runs check the learner on ordinary data.
The three violation runs use the smallest data that shows each
disagreement.

The client runs use three packets and `max_retries = 2`, so a packet is
given up after two attempts and the bit is reused. Queues hold two
datagrams, enough for an answer to a retransmission to still be queued
when the next packet starts. One fault in a run is enough to take every
error path once. The sizes cover each branch of `create_datagram`:
- 1 and 4 are refused with `ValueError`;
- 196611 is refused with `OverflowError`;
- 3 is accepted, but `recv(3)` cuts every ACK;
- 9 is an ordinary size.

The ZAD1 run sends the sizes 1, 767, 4, 770, 65534, 65536 and 2:
- 1 and 4 are refused with `ValueError`, 65536 with `OverflowError`;
- 767 has count 255 and 770 count 256, so the second byte and the first
  byte of the count each carry it, and a little-endian count fails;
- 65534 is accepted by `create_datagram` but above the UDP limit, so its
  `sendto` fails;
- 2 is the empty datagram (count 0).
The foreign datagrams have length 5 with count 0 (INVALID) or count 1
(VALID, not from the client), and length 1 (too short). One foreign
datagram per run and queues of two are enough for a foreign answer or a
late answer to be taken for the current size.

The prediction service in `MC_Portfolio` has `MaxInFlight = 1`, so
`/set_price` is checked and committed without overlap; `MC_SetPriceRace`
allows two.

Enrollment runs use capacity 1, so one ACTIVE row fills the group and
the waitlist, promotion and the capacity race all happen. Three students
give two waitlisted rows, which is what the joined_at order is needed
for. `MaxInFlight = 2` is the smallest overlap that shows a race; the
concurrent run uses two administrator processes so that two deletes, or
a delete and an update, of the same row overlap.
The serial run's administrator may also update the group to capacity 1
or 0, open or closed: capacity 0 with an ACTIVE row is the over-full
group on which `promote_waitlist` must not promote, and closing the
group makes new enrollments fail. The concurrent and violation runs send
no group updates.

Billing runs: the serial run has two students, two charges and two
payments. That is enough for the owner check to refuse an allocation, for
`delete_payment` to loop over two charges, and for two payments to add up
on one charge. Amounts 1 and 2 against dues 1 and 2 give sums below, at and
above the amount due. The concurrent runs use two clerks, one charge and
two payments: two allocations, or an allocation and a payment deletion,
on the same charge overlap.

Heaps: items 1..3 with up to 5 held, so both heaps reach three levels
(d = 3 gives a root with three children, d = 2 a second level of two),
duplicates occur and the sift-down compares siblings. BST: items 1..3, up
to 4 held, so every delete case, including a successor with a right
child, and duplicates occur. AVL: items 1..4, up to 5 held, so all four
rotation cases happen (the mutants of both rotations are caught). Sorts:
every list of length 0..4 over 1..3, with repeats. Graph: every 3x3 board
with two 0 cells and the other digits 1 or 5 (the search takes detours
around 5s, and ties between neighbours occur).

Schedule: two groups, g1 on Mondays (`day_of_week` 1, isoweekday) in room
r1 and g2 on Sundays (7) in room r2, one instructor for both, at
overlapping times. Generate requests span one week (days 0..6, also with
day 0 skipped, and a reversed range), so each creates at most one
session; two session ids are then enough for a created session beside a
generated one, and for a rescheduled copy beside its origin. A created
session of g2 on day 0 conflicts with g1 only through the instructor, so
the conflict query's instructor filter matters. The update and bulk
payloads set the instructor to NULL, which makes `CreateSubstitution`
answer 400.

Catalog (part `catalog`): three rooms (r3 not yet created), two skill
levels, topics and semesters of which one each exists, three group ids
of which two exist. The requests name ten of these ids (`CatalogIds`),
so a delete hits a live referenced row (500), a live unreferenced row
(200) and a missing one (404); room names A and C collide with an
existing name or not; the group input and update point at a room or
topic that may be gone. Generate and create requests run beside them
(`MaxSessions` 1), so a generate after a group's room or day changed,
and a room delete with a session in it, occur. The schedule part sends
no catalog requests, and the catalog part names no session ids, which
keeps each part's state space to about 13,000 states.

Attendance: two students, two sessions of two groups, statuses PRESENT
and ABSENT. The bulk payloads include an empty list, a makeup item beside
a regular one, and two items for one student (which fails without a row
and succeeds with one); the patches set the status, set the flag, and
set each field to null. A student can be ACTIVE in both groups, which is
what makes `set_makeup` fail.

Prediction service: model outputs -1 and 2 (so the clamp at 0 matters),
actual prices 1 and 3, at most two predictions, and any set of model
files at the start; a second prediction is enough to have both variants
in the table and one evaluated beside one not.

Accounts: two users, two e-mails, three passwords (one weak). The seeds
are an admin given without is_superuser and an instructor given with it,
so both branches of `create`'s normalization run; the admin patches set
the role to admin, instructor and null and is_superuser to both values,
and the self-service ones change the e-mail, the password (weak, and with
a wrong current password) and try to set the role.

TCP server: nodes of two bytes and `recv` of at most three, so one recv
can return half a node, a node and a half, or a node's tail and the next
one's head; a client of three nodes whose second does not decode, and one
of two good nodes, each stopping at any byte.

The Turing run has two symbols, three states, inputs `1`, `11` and `1_1`
and four steps; every program over them is explored, and the shortest
disagreement takes two.

### Fairness

`fit` is one synchronous call, so the learner is weakly fair: some step is
always taken while `fit` has not returned. `Spec` states this as
`<>[]Running => []<><<Next>>_vars`. This is `WF_vars(Next)` with
`ENABLED <<Next>>_vars` replaced by `Running`. The two agree on every
reachable state:
- The deadlock check shows that some action is always enabled.
- `Finished`, a stuttering step, is the only action enabled after `fit`
  returns.
- Every other action changes `phase` or `new_rule`.

TLC evaluates `ENABLED` of the split search far more slowly than the
search itself, which is why the fairness is written this way.

The client is one thread and runs until `main` returns, so its steps are
weakly fair (`WF_vars(Client)`). The network and the server get no
fairness. Termination therefore rests on the retry bound alone, as it does
in the code.

The ZAD1 client is the same kind of loop, and is weakly fair in
`UdpValidate` (`WF_vars(Client)`); every recv ends with an answer or a
timeout, so `ClientTerminates` needs no fairness of the network. In
`MC_Portfolio` both clients are weakly fair within their parts, as
described above.

The enrollment, billing, schedule, attendance, prediction-service, account and TCP modules state safety only and assume no fairness: a web
request may never arrive, and no property says one must. The data
structures are called by their users, who may stop at any time; their
properties are safety only, so no fairness is assumed.

## 4. Not modelled, and the plan

- `print_rules` and the experiment scripts only print, plot or read files.
- Projekt `core/init_examples.py` re-creates its seed payment and
  allocation when they are missing, without calling
  `recalculate_charge_status`, and attaches them to an existing charge
  of the same due date and type (even one an administrator created), so
  after a restart a charge can be OPEN with its full amount allocated,
  the state `StatusMatchesAllocations` rules out; it also re-inserts the
  seed enrollment ACTIVE whatever the capacity. Startup seeding is not an
  action of `Billing` or `EnrollmentService`.
- spec.md 4.2 says the grow set is `round(n * grow_ratio)` examples;
  `IRepppClassifier._split` takes `int(...)`, which `IrepLearner`
  follows (for n = 4 and ratio 2/3 a 2:2 split, not 3:1).
- The billing summaries of a student (`summarize_student_billing` of
  student `payment.py` and of admin `payments.py`) only read, in two
  SELECTs (the open charges, then their allocation sums) that other
  requests' commits can fall between: a cancel and an allocation delete
  between them make the summary ask for more than is owed. A faithful
  model has no consistency property to check, and one read as a single
  snapshot would claim a consistency the code lacks, so they are left
  out. The student billing list and get routes, the package views and the
  unlinking of a `UserPackage` only read or touch tables no property
  relates to; the attendance summaries of students, `list_class_groups`
  and the admin users list only read.
- The enrollment handlers that only read (list, get, availability
  endpoint) are not modelled. The list and get routes of the catalog and
  class groups, the public `all/schedule.py` and `calendar.py` only read;
  `room_booking` is a table no handler writes.
- The model does not tell apart two different FOIL gain values that round
  to the same double. With the small counts used here, no such pair
  occurs.

- The Turing simulator's special mode is modelled (`Special = TRUE`) but
  no run checks it; normal mode already shows the disagreement.
- The simulator's endless loop on a missing line is modelled but no
  property says it must stop.

- Schedule runs each request atomically; a generate racing another
  generate or a create past the conflict query is listed as a hazard.
- `set_makeup` fails with a 500 for a student ACTIVE in two groups, and
  unmarking a makeup makes a regular row for a student outside the
  session's group. Both are reached in `Attendance` and listed as
  hazards; no documentation says what the routes should do instead.

- The ZAD1 client prints whatever answer it receives for the current
  size; a late or foreign answer printed for the wrong size is reached in
  `UdpValidate` but no property states what should be printed, since no
  documentation says.

Order of the remaining work, most important behaviour first:
1. The student's attendance summary and the instructor's session list,
   as operators over `Attendance`'s rows.
2. The availability query of `student/class_group.py`.
3. A liveness property of `TcpServer` (every whole node received is
   printed before the next recv), under weak fairness of the server loop.
