----------------------------- MODULE LeaseOrder -----------------------------
(***************************************************************************)
(* fairLeaseOrder: the order in which Worker.Run starts handlers for the   *)
(* leases of one claim, so that no tenant's leases crowd out another's.    *)
(* A lease is [tenant, id]; the leases of a claim are a sequence.          *)
(***************************************************************************)
EXTENDS Integers, Sequences, FiniteSets

LOCAL INSTANCE SequencesExt
LOCAL INSTANCE FiniteSetsExt

(* groups[tenant]: its leases, in the order of the claim.                  *)
Group(leases, tenant) ==
    SelectSeq(leases, LAMBDA lease : lease.tenant = tenant)

(* order: the tenants, in the order in which they first appear.            *)
TenantOrder(leases) ==
    FoldLeft(LAMBDA order, lease :
                IF Contains(order, lease.tenant) THEN order
                                                 ELSE Append(order, lease.tenant),
             <<>>, leases)

maximumGroupSize(leases) ==
    Max({0} \cup {Len(Group(leases, lease.tenant)) : lease \in Range(leases)})

(* The body of the outer loop: one lease of every tenant that has one.     *)
Round(leases, index) ==
    LET tenants == SelectSeq(TenantOrder(leases),
                             LAMBDA tenant : index <= Len(Group(leases, tenant)))
    IN  [n \in 1 .. Len(tenants) |-> Group(leases, tenants[n])[index]]

(* Mutant of fairLeaseOrder: one tenant after the other.                   *)
tenantByTenant(leases) ==
    FoldLeft(LAMBDA result, tenant : result \o Group(leases, tenant), <<>>,
             TenantOrder(leases))

fairLeaseOrder(leases) ==
    FoldLeft(LAMBDA result, index : result \o Round(leases, index), <<>>,
             [index \in 1 .. maximumGroupSize(leases) |-> index])
=============================================================================
