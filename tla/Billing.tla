------------------------------- MODULE Billing -------------------------------
(***************************************************************************)
(* The billing handlers of the web app (charges, payments and the          *)
(* allocations of payments to charges) as the sequences of database        *)
(* statements they are: the admin routes of api/routes/admin/charge.py and *)
(* api/routes/admin/payment.py, the services of PZSP2                      *)
(* services/admin/charges.py and services/admin/payments.py.               *)
(*                                                                         *)
(* Charge.status is stored, and recalculate_charge_status rewrites it from *)
(* the sum of the charge's allocations after every allocation change.      *)
(* Each request runs in its own AsyncSession (expire_on_commit=False, as   *)
(* the test sessions are built): an object loaded by a request keeps the   *)
(* values it was loaded with until the request refreshes it.  A statement *)
(* reads what is committed; a commit is one step.  Amounts are small       *)
(* integers; dates, types, methods and notes decide nothing here and are   *)
(* left out, and so is update_payment, which writes only such fields.      *)
(***************************************************************************)
EXTENDS Integers, FiniteSets, FiniteSetsExt

CONSTANTS
    Admins,        \* administrator request processes
    Owners,        \* the students charges and payments belong to
    MaxCharges,    \* charge ids 1..MaxCharges (autoincrement)
    MaxPayments,   \* payment ids 1..MaxPayments (autoincrement)
    Dues,          \* values of Charge.amount_due (all > 0)
    Amounts,       \* values of PaymentAllocation.amount_allocated (all > 0)
    MaxInFlight    \* bound on the number of requests in flight together

ASSUME /\ Dues \subseteq Nat \ {0} /\ Amounts \subseteq Nat \ {0}
       /\ MaxCharges \in Nat \ {0} /\ MaxPayments \in Nat \ {0}

Charges == 1..MaxCharges
Payments == 1..MaxPayments
NONE == "NONE"         \* no row with this id yet
DELETED == "DELETED"   \* a payment row deleted (ids are not reused)

VARIABLES
    ch_status,  \* Charge.status, or NONE
    ch_due,     \* Charge.amount_due
    ch_owner,   \* Charge.student_id
    pay_owner,  \* Payment.user_id, NONE or DELETED
    alloc,      \* alloc[p][c]: amount_allocated of row (p, c); 0 = no row
    req,        \* req[a]: the request administrator a runs, and its locals
    cancelled   \* ghost: charges a cancellation was committed for

vars == <<ch_status, ch_due, ch_owner, pay_owner, alloc, req, cancelled>>

\* Locals: p, c ids; amt; st and due: the request's copy of the Charge
\* row; todo: charges still to recalculate; new: the status to write;
\* set_st, set_due: the fields of a ChargeUpdate payload (NONE, 0 if unset).
Idle == [op |-> "idle", at |-> "none", p |-> 0, c |-> 0, amt |-> 0,
         st |-> NONE, due |-> 0, todo |-> {}, new |-> NONE,
         set_st |-> NONE, set_due |-> 0]

InFlight == {a \in Admins : req[a].op # "idle"}
CanStart(a) == req[a].op = "idle" /\ Cardinality(InFlight) < MaxInFlight
Finish(a) == req' = [req EXCEPT ![a] = Idle]
Goto(a, r) == req' = [req EXCEPT ![a] = r]

Created == {c \in Charges : ch_status[c] # NONE}
Live(p) == pay_owner[p] \notin {NONE, DELETED}

\* SELECT coalesce(sum(amount_allocated), 0) WHERE charge_id = c
Allocated(c) == MapThenSumSet(LAMBDA p : alloc[p][c], Payments)

\* Mutation: PAID only when more than the amount due is allocated.
new_status_gt(total, due) ==
    IF total <= 0 THEN "OPEN" ELSE IF total > due THEN "PAID" ELSE "PARTIAL"

\* The status recalculate_charge_status derives from the allocations.
new_status(total, due) ==
    IF total <= 0 THEN "OPEN" ELSE IF total >= due THEN "PAID" ELSE "PARTIAL"

Init ==
    /\ ch_status = [c \in Charges |-> NONE]
    /\ ch_due = [c \in Charges |-> CHOOSE d \in Dues : TRUE]
    /\ ch_owner = [c \in Charges |-> CHOOSE o \in Owners : TRUE]
    /\ pay_owner = [p \in Payments |-> NONE]
    /\ alloc = [p \in Payments |-> [c \in Charges |-> 0]]
    /\ req = [a \in Admins |-> Idle]
    /\ cancelled = [c \in Charges |-> FALSE]

----------------------------------------------------------------------------
(* recalculate_charge_status, run at the end of the allocation handlers.  *)

\* With locals r, the request goes on with the next charge of its loop,
\* or returns.
Return(a, r) ==
    IF r.todo = {} THEN Finish(a) ELSE Goto(a, [r EXCEPT !.at = "fetch"])

\* With the copy (st, due) of charge c: a CANCELLED copy returns; else
\* the SUM is read and the status is written only if it differs from the
\* copy's.  `r` is the request's locals so far.
Recalculate(a, r, c, st, due) ==
    LET new == new_status(Allocated(c), due)
    IN  IF st = "CANCELLED" \/ new = st
        THEN Return(a, r)
        ELSE Goto(a, [r EXCEPT !.at = "write", !.c = c, !.st = st,
                               !.due = due, !.new = new])

\* create_allocation: recalculate with the Charge loaded before the commit.
RecalcStale(a) ==
    /\ req[a].at = "recalc"
    /\ Recalculate(a, req[a], req[a].c, req[a].st, req[a].due)
    /\ UNCHANGED <<ch_status, ch_due, ch_owner, pay_owner, alloc, cancelled>>

\* The other handlers: session.get(Charge) (or refresh) loads the row.
RecalcFetch(a) ==
    /\ req[a].at = "fetch"
    /\ \E c \in req[a].todo :
          Recalculate(a, [req[a] EXCEPT !.todo = @ \ {c}], c,
                      ch_status[c], ch_due[c])
    /\ UNCHANGED <<ch_status, ch_due, ch_owner, pay_owner, alloc, cancelled>>

\* charge.status = new_status; commit; refresh.
RecalcWrite(a) ==
    /\ req[a].at = "write"
    /\ ch_status' = [ch_status EXCEPT ![req[a].c] = req[a].new]
    /\ Return(a, req[a])
    /\ UNCHANGED <<ch_due, ch_owner, pay_owner, alloc, cancelled>>

----------------------------------------------------------------------------
(* Charges: create_charge, update_charge, cancel_charge.                   *)

\* create_charge: one INSERT and commit, status defaults to OPEN; the
\* e-mail sent afterwards changes nothing here.
CreateCharge(a) ==
    /\ CanStart(a)
    /\ Created # Charges
    /\ \E o \in Owners, d \in Dues :
          LET c == Min(Charges \ Created)
          IN  /\ ch_status' = [ch_status EXCEPT ![c] = "OPEN"]
              /\ ch_due' = [ch_due EXCEPT ![c] = d]
              /\ ch_owner' = [ch_owner EXCEPT ![c] = o]
    /\ UNCHANGED <<pay_owner, alloc, req, cancelled>>

\* The PATCH route: 404 for a missing charge; update_charge raises
\* ValueError (400) for a status other than CANCELLED.
UpdateChargeRead(a) ==
    /\ CanStart(a)
    /\ \E c \in Charges, set_st \in {NONE, "CANCELLED", "PAID"},
          set_due \in {0} \cup Dues :
          /\ set_st # NONE \/ set_due # 0
          /\ IF c \in Created /\ set_st \in {NONE, "CANCELLED"}
             THEN Goto(a, [Idle EXCEPT !.op = "update_charge", !.at = "commit",
                                       !.c = c, !.set_st = set_st,
                                       !.set_due = set_due])
             ELSE UNCHANGED req
    /\ UNCHANGED <<ch_status, ch_due, ch_owner, pay_owner, alloc, cancelled>>

\* setattr of the payload's fields and commit (an UPDATE of those columns
\* only); refresh; recalculate when amount_due was set, unless the
\* refreshed charge is CANCELLED (RecalcFetch returns on it).
UpdateChargeCommit(a) ==
    LET r == req[a]
    IN  /\ r.op = "update_charge" /\ r.at = "commit"
        /\ ch_status' = IF r.set_st = NONE THEN ch_status
                        ELSE [ch_status EXCEPT ![r.c] = r.set_st]
        /\ ch_due' = IF r.set_due = 0 THEN ch_due
                     ELSE [ch_due EXCEPT ![r.c] = r.set_due]
        /\ cancelled' = IF r.set_st = NONE THEN cancelled
                        ELSE [cancelled EXCEPT ![r.c] = TRUE]
        /\ IF r.set_due = 0 THEN Finish(a)
           ELSE Goto(a, [r EXCEPT !.at = "fetch", !.todo = {r.c}])
        /\ UNCHANGED <<ch_owner, pay_owner, alloc>>

\* The cancel route: 404 for a missing charge.
CancelChargeRead(a) ==
    /\ CanStart(a)
    /\ \E c \in Charges :
          IF c \in Created
          THEN Goto(a, [Idle EXCEPT !.op = "cancel_charge", !.at = "commit",
                                    !.c = c])
          ELSE UNCHANGED req
    /\ UNCHANGED <<ch_status, ch_due, ch_owner, pay_owner, alloc, cancelled>>

\* cancel_charge: status = CANCELLED and commit.
CancelChargeCommit(a) ==
    /\ req[a].op = "cancel_charge" /\ req[a].at = "commit"
    /\ ch_status' = [ch_status EXCEPT ![req[a].c] = "CANCELLED"]
    /\ cancelled' = [cancelled EXCEPT ![req[a].c] = TRUE]
    /\ Finish(a)
    /\ UNCHANGED <<ch_due, ch_owner, pay_owner, alloc>>

----------------------------------------------------------------------------
(* Payments: create_payment, delete_payment.                               *)

\* create_payment: one INSERT and commit.
CreatePayment(a) ==
    /\ CanStart(a)
    /\ \E p \in Payments : pay_owner[p] = NONE
    /\ \E o \in Owners :
          LET p == Min({q \in Payments : pay_owner[q] = NONE})
          IN  pay_owner' = [pay_owner EXCEPT ![p] = o]
    /\ UNCHANGED <<ch_status, ch_due, ch_owner, alloc, req, cancelled>>

\* The DELETE route reads the payment (404), then delete_payment selects
\* its allocations and remembers their charges.
DeletePaymentRead(a) ==
    /\ CanStart(a)
    /\ \E p \in Payments :
          IF Live(p)
          THEN Goto(a, [Idle EXCEPT !.op = "delete_payment", !.at = "commit",
                        !.p = p, !.todo = {c \in Charges : alloc[p][c] > 0}])
          ELSE UNCHANGED req
    /\ UNCHANGED <<ch_status, ch_due, ch_owner, pay_owner, alloc, cancelled>>

\* session.delete of the allocations it loaded and of the payment, one
\* commit.  An allocation inserted since the SELECT still references the
\* payment: the foreign key fails the commit (IntegrityError, rolled
\* back, 500).  Otherwise recalculate every charge it loaded.
DeletePaymentCommit(a) ==
    LET r == req[a]
    IN  /\ r.op = "delete_payment" /\ r.at = "commit"
        /\ \/ /\ \E c \in Charges \ r.todo : alloc[r.p][c] > 0
              /\ Finish(a)
              /\ UNCHANGED <<pay_owner, alloc>>
           \/ /\ \A c \in Charges \ r.todo : alloc[r.p][c] = 0
              /\ alloc' = [alloc EXCEPT ![r.p] = [c \in Charges |-> 0]]
              /\ pay_owner' = [pay_owner EXCEPT ![r.p] = DELETED]
              /\ Return(a, r)
        /\ UNCHANGED <<ch_status, ch_due, ch_owner, cancelled>>

----------------------------------------------------------------------------
(* Allocations: create_allocation, update_allocation, delete_allocation.  *)

\* create_allocation loads the payment and the charge: LookupError (404)
\* when either is missing, ValueError (400) for a CANCELLED charge or one
\* of another student.  The loaded Charge is the request's copy.
CreateAllocationRead(a) ==
    /\ CanStart(a)
    /\ \E p \in Payments, c \in Charges, amt \in Amounts :
          IF /\ Live(p) /\ c \in Created
             /\ ch_status[c] # "CANCELLED"
             /\ ch_owner[c] = pay_owner[p]
          THEN Goto(a, [Idle EXCEPT !.op = "create_allocation",
                                    !.at = "commit", !.p = p, !.c = c,
                                    !.amt = amt, !.st = ch_status[c],
                                    !.due = ch_due[c]])
          ELSE UNCHANGED req
    /\ UNCHANGED <<ch_status, ch_due, ch_owner, pay_owner, alloc, cancelled>>

\* Mutation: an INSERT that no foreign key checks against the payment.
CreateAllocationCommit_nofk(a) ==
    LET r == req[a]
    IN  /\ r.op = "create_allocation" /\ r.at = "commit"
        /\ \/ /\ alloc[r.p][r.c] > 0
              /\ Finish(a)
              /\ UNCHANGED alloc
           \/ /\ alloc[r.p][r.c] = 0
              /\ alloc' = [alloc EXCEPT ![r.p][r.c] = r.amt]
              /\ Goto(a, [r EXCEPT !.at = "recalc"])
        /\ UNCHANGED <<ch_status, ch_due, ch_owner, pay_owner, cancelled>>

\* INSERT and commit.  An existing row (p, c) violates the primary key,
\* a payment deleted since the read violates the foreign key: both are an
\* IntegrityError, rolled back and reported as "Allocation already
\* exists." (409).  Then recalculate with the copy loaded before.
CreateAllocationCommit(a) ==
    LET r == req[a]
    IN  /\ r.op = "create_allocation" /\ r.at = "commit"
        /\ \/ /\ alloc[r.p][r.c] > 0 \/ ~Live(r.p)
              /\ Finish(a)
              /\ UNCHANGED alloc
           \/ /\ alloc[r.p][r.c] = 0 /\ Live(r.p)
              /\ alloc' = [alloc EXCEPT ![r.p][r.c] = r.amt]
              /\ Goto(a, [r EXCEPT !.at = "recalc"])
        /\ UNCHANGED <<ch_status, ch_due, ch_owner, pay_owner, cancelled>>

\* The PATCH and DELETE routes: get_allocation, 404 when there is none.
AllocationRead(a) ==
    /\ CanStart(a)
    /\ \E p \in Payments, c \in Charges, amt \in Amounts,
          op \in {"update_allocation", "delete_allocation"} :
          IF alloc[p][c] > 0
          THEN Goto(a, [Idle EXCEPT !.op = op, !.at = "commit", !.p = p,
                                    !.c = c, !.amt = amt])
          ELSE UNCHANGED req
    /\ UNCHANGED <<ch_status, ch_due, ch_owner, pay_owner, alloc, cancelled>>

\* update_allocation: amount_allocated = amt and commit.  The UPDATE of a
\* row deleted in the meantime matches nothing: StaleDataError (500).
\* Then session.get(Charge) and recalculate.
UpdateAllocationCommit(a) ==
    LET r == req[a]
    IN  /\ r.op = "update_allocation" /\ r.at = "commit"
        /\ \/ /\ alloc[r.p][r.c] = 0
              /\ Finish(a)
              /\ UNCHANGED alloc
           \/ /\ alloc[r.p][r.c] > 0
              /\ alloc' = [alloc EXCEPT ![r.p][r.c] = r.amt]
              /\ Goto(a, [r EXCEPT !.at = "fetch", !.todo = {r.c}])
        /\ UNCHANGED <<ch_status, ch_due, ch_owner, pay_owner, cancelled>>

\* delete_allocation: session.delete and commit (a row already gone only
\* gives a warning), then session.get(Charge) and recalculate.
DeleteAllocationCommit(a) ==
    LET r == req[a]
    IN  /\ r.op = "delete_allocation" /\ r.at = "commit"
        /\ alloc' = [alloc EXCEPT ![r.p][r.c] = 0]
        /\ Goto(a, [r EXCEPT !.at = "fetch", !.todo = {r.c}])
        /\ UNCHANGED <<ch_status, ch_due, ch_owner, pay_owner, cancelled>>

----------------------------------------------------------------------------
Next ==
    \E a \in Admins :
        \/ CreateCharge(a) \/ UpdateChargeRead(a) \/ UpdateChargeCommit(a)
        \/ CancelChargeRead(a) \/ CancelChargeCommit(a)
        \/ CreatePayment(a) \/ DeletePaymentRead(a) \/ DeletePaymentCommit(a)
        \/ CreateAllocationRead(a) \/ CreateAllocationCommit(a)
        \/ AllocationRead(a) \/ UpdateAllocationCommit(a)
        \/ DeleteAllocationCommit(a)
        \/ RecalcStale(a) \/ RecalcFetch(a) \/ RecalcWrite(a)

Spec == Init /\ [][Next]_vars

----------------------------------------------------------------------------
(* Properties. *)

\* Types; a process that is not running a handler holds no locals, and
\* allocations only reference rows that exist (the foreign keys).
TypeOK ==
    /\ \A a \in Admins : req[a].op = "idle" => req[a] = Idle
    /\ ch_status \in [Charges -> {NONE, "OPEN", "PAID", "PARTIAL", "CANCELLED"}]
    /\ ch_due \in [Charges -> Dues]
    /\ ch_owner \in [Charges -> Owners]
    /\ pay_owner \in [Payments -> Owners \cup {NONE, DELETED}]
    /\ alloc \in [Payments -> [Charges -> {0} \cup Amounts]]
    /\ \A p \in Payments, c \in Charges :
          alloc[p][c] > 0 => Live(p) /\ c \in Created
    /\ cancelled \in [Charges -> BOOLEAN]

\* The status test_admin_can_manage_payments_and_allocations expects of
\* a charge with allocations: none OPEN, part of amount_due PARTIAL, all
\* of it PAID.
Expected(c) ==
    CASE Allocated(c) = 0           -> "OPEN"
      [] Allocated(c) < ch_due[c]   -> "PARTIAL"
      [] OTHER                      -> "PAID"

\* Charge.status is a cache of what the handlers derive: when no request
\* is in flight, a charge is CANCELLED exactly when a cancellation was
\* committed for it, and otherwise has the status its allocations and
\* amount_due call for, whatever order the handlers ran in.
StatusMatchesAllocations ==
    InFlight = {} =>
        \A c \in Created :
            ch_status[c] = IF cancelled[c] THEN "CANCELLED" ELSE Expected(c)

=============================================================================
