------------------------------- MODULE Drawers -------------------------------
(***************************************************************************)
(* The cash drawer: shifts.service.ts (open, close, drawer entries), the   *)
(* credit payments that go into it (credit-payments.service.ts), and the   *)
(* machines that hold one (devices.service.ts and the platform's           *)
(* replacement of a lost machine, platform-tenants.service.ts).            *)
(***************************************************************************)
EXTENDS ShopState

documents == <<goods, sales, returns, orders>>

\* archive: a shift nobody closed is kept and flagged.
Archived(h) ==
    [shifts[h] EXCEPT !.active = FALSE,
                      !.auto = shifts[h].auto \/ ~ shifts[h].closed]

\* Mutant: a drawer archived by the next open raises no item for the owner.
UncountedNever(H) == {}

\* The owner's items for the shifts of H that nobody counted.
Uncounted(H) == {<<"shift_uncounted", h>> : h \in {x \in H : ~ shifts[x].closed}}

\* open: the device must not be retired; its previous drawer is archived.
OpenShift(d, h, cash) ==
    /\ devices[d] = "enrolled"
    /\ shifts[h] = Nil
    /\ shifts' = [x \in ShiftIds |->
                    IF x = h
                    THEN [device |-> d, start |-> cash, active |-> TRUE,
                          closed |-> FALSE, auto |-> FALSE, counted |-> Nil]
                    ELSE IF x \in ActiveShifts(d) THEN Archived(x) ELSE shifts[x]]
    /\ reviews' = reviews \cup Uncounted(ActiveShifts(d))
    /\ UNCHANGED <<documents, payments, entries, people, ledgers, overrides>>

\* close: stamps the counted cash; the drawer stays the device's until the next open.
CloseShift(d, cash) ==
    \E h \in ActiveShifts(d) :
        /\ ~ shifts[h].closed                          \* SHIFT_ALREADY_CLOSED
        /\ shifts' = [shifts EXCEPT ![h] = [shifts[h] EXCEPT !.closed = TRUE,
                                                             !.counted = cash]]
        /\ UNCHANGED <<documents, payments, entries, people, ledgers, overrides, reviews>>

\* flagOverdrawnOffline: the cash of a replayed cash-out was more than the drawer held.
FlagOverdrawn(h, e, type, amount, offline) ==
    IF type = "out" /\ offline /\ ExpectedCash(h) - amount < 0
    THEN {<<"drawer_overdrawn_offline", e>>} ELSE {}

\* addEntry: a cash-out may not exceed what the drawer holds, unless it is the
\* replay of one that already happened offline; that one is flagged if it did.
AddEntry(d, e, type, amount, offline) ==
    /\ entries[e] = Nil
    /\ \E h \in ActiveShifts(d) :
          /\ ~ shifts[h].closed                        \* DRAWER_CLOSED
          /\ type = "out" /\ ~ offline => amount <= ExpectedCash(h)
          /\ entries' = [entries EXCEPT ![e] = [shift |-> h, type |-> type,
                                                amount |-> amount]]
          /\ reviews' = reviews \cup FlagOverdrawn(h, e, type, amount, offline)
    /\ UNCHANGED <<documents, payments, shifts, people, ledgers, overrides>>

\* reduceBalance
Reduced(m, amount) ==
    [mechanics EXCEPT ![m] =
        [mechanics[m] EXCEPT !.tab = AtLeastZero(mechanics[m].tab - amount)]]

\* existingPayment: read under the mechanic's lock.
ExistingPayment(p, m, amount, method) ==
    IF payments[p] = Nil THEN "none"
    ELSE IF payments[p].mech = m /\ payments[p].amount = amount /\ payments[p].method = method
    THEN "replayed"
    ELSE "CREDIT_PAYMENT_ID_REUSED"

\* A mechanic pays money off his tab; more than the tab only when confirmed.
CreatePayment(d, p, m, amount, method, allow) ==
    /\ ExistingPayment(p, m, amount, method) = "none"
    /\ amount > 0
    /\ \E h \in OpenShifts(d) :
          payments' = [payments EXCEPT ![p] = [mech |-> m, amount |-> amount,
                                               method |-> method, shift |-> h]]
    /\ amount > mechanics[m].tab => allow              \* CREDIT_PAYMENT_EXCEEDS_BALANCE
    /\ mechanics' = Reduced(m, amount)
    /\ UNCHANGED <<documents, entries, shifts, people, customers, overrides, reviews>>

\* DevicesService.create for role 'pos': one live machine per shop.
IssueDevice(d) ==
    /\ devices[d] = "absent"
    /\ \A e \in Devices : devices[e] \in {"absent", "retired"}      \* POS_DEVICE_EXISTS
    /\ devices' = [devices EXCEPT ![d] = "issued"]
    /\ UNCHANGED <<documents, payments, entries, shifts, unsynced, ledgers, overrides, reviews>>

\* enrolDevice: the machine trades its code for a token.
EnrolDevice(d) ==
    /\ devices[d] = "issued"
    /\ devices' = [devices EXCEPT ![d] = "enrolled"]
    /\ UNCHANGED <<documents, payments, entries, shifts, unsynced, ledgers, overrides, reviews>>

\* updateUnsyncedOps, at the end of a push.
ReportUnsynced(d, pending) ==
    /\ devices[d] = "enrolled"
    /\ unsynced' = [unsynced EXCEPT ![d] = pending]
    /\ UNCHANGED <<documents, payments, entries, shifts, devices, ledgers, overrides, reviews>>

\* Ops left on a machine retired by force are put before the owner.
ForceRetired(d) == IF unsynced[d] THEN {<<"device_force_retired", d>>} ELSE {}

\* Mutant: retiring closes the drawer but leaves it active.
RetiredShiftActive(h, cash) ==
    IF shifts[h].closed THEN shifts[h]
    ELSE [shifts[h] EXCEPT !.closed = TRUE, !.counted = cash]

\* closeForRetirement: an open drawer is closed with the counted cash, a closed
\* one keeps its count; both are archived.
RetiredShift(h, cash) ==
    IF shifts[h].closed
    THEN [shifts[h] EXCEPT !.active = FALSE]
    ELSE [shifts[h] EXCEPT !.active = FALSE, !.closed = TRUE, !.counted = cash]

\* DevicesService.retire.  cash is the counted cash, Nil when not sent.
RetireDevice(d, cash, force) ==
    /\ devices[d] \in {"issued", "enrolled"}           \* DEVICE_ALREADY_RETIRED
    /\ unsynced[d] => force                            \* DEVICE_HAS_UNSYNCED_OPS
    /\ OpenShifts(d) # {} => cash # Nil                \* PHYSICAL_CASH_REQUIRED
    /\ reviews' = reviews \cup ForceRetired(d)
    /\ shifts' = [x \in ShiftIds |->
                    IF x \in ActiveShifts(d) THEN RetiredShift(x, cash) ELSE shifts[x]]
    /\ devices' = [devices EXCEPT ![d] = "retired"]
    /\ UNCHANGED <<documents, payments, entries, unsynced, ledgers, overrides>>

\* The platform replaces a lost machine d by a new row e: an open drawer is
\* archived uncounted, never given an invented count.
ReplaceDevice(d, e, force) ==
    /\ devices[d] = "enrolled"                         \* DEVICE_NOT_ENROLLED
    /\ devices[e] = "absent"
    /\ OpenShifts(d) # {} \/ unsynced[d] => force
    /\ shifts' = [x \in ShiftIds |->
                    IF x \in ActiveShifts(d) THEN Archived(x) ELSE shifts[x]]
    /\ reviews' = reviews \cup Uncounted(ActiveShifts(d)) \cup ForceRetired(d)
    /\ devices' = [devices EXCEPT ![d] = "retired", ![e] = "issued"]
    /\ UNCHANGED <<documents, payments, entries, unsynced, ledgers, overrides>>
=============================================================================
