---------------------------- MODULE WriterLease ----------------------------
(* The writer lease of a workspace: at most one row of the table          *)
(* writer_lease, and the three statements of catalogue.rs that touch it.    *)
(* A holder id is one invocation of a command (default_holder_id is unique  *)
(* per call), so a holder never acquires twice.                             *)
(*                                                                          *)
(* Time is the age of the row's heartbeat.  Nothing calls                   *)
(* heartbeat_writer_lease, so acquired_at, expires_at and heartbeat_at are  *)
(* written together and one age stands for the three; expires_at is stored  *)
(* and never read.  The age saturates one tick after the lease's duration,  *)
(* where every comparison has settled.                                      *)
EXTENDS Naturals

CONSTANTS
    Holder,         \* invocations of commands that take the lease
    NoHolder,       \* stands for "no row"
    StaleAge,       \* the heartbeat age past which a lease may be taken over
    LeaseDuration   \* the duration the lease is granted for

ASSUME LeaseAssumption ==
    /\ NoHolder \notin Holder
    /\ StaleAge \in Nat
    /\ LeaseDuration \in Nat
    /\ StaleAge < LeaseDuration

VARIABLES
    lease,          \* the row: its holder_id and the age of its heartbeat
    owner           \* history: who last acquired the lease, until the row goes

leaseVars == <<lease, owner>>

MaxAge == LeaseDuration + 1

NoLease == [holder |-> NoHolder, age |-> 0]

LeaseTypeOK ==
    /\ lease \in [holder : Holder \cup {NoHolder}, age : 0 .. MaxAge]
    /\ owner \in Holder \cup {NoHolder}

LeaseInit ==
    /\ lease = NoLease
    /\ owner = NoHolder

-----------------------------------------------------------------------------

(* Mutants.  Definitions named Mut... are variants of the definition that   *)
(* follows them, each with one plausible bug; no specification uses them.   *)
(* Takeover at the threshold.                                               *)
MutEarlyLeaseFree(h) == lease = NoLease \/ lease.holder = h \/ lease.age >= StaleAge

(* What acquire_writer_lease accepts: no row, its own row, or a row whose   *)
(* heartbeat is older than the staleness threshold.                         *)
LeaseFree(h) ==
    \/ lease = NoLease
    \/ lease.holder = h
    \/ lease.age > StaleAge

(* INSERT ... ON CONFLICT(workspace_id) DO UPDATE: the update refreshes the *)
(* times and leaves holder_id as it was.                                    *)
UpsertLease(h) ==
    lease' = [holder |-> IF lease = NoLease THEN h ELSE lease.holder, age |-> 0]

AcquireLease(h) ==
    /\ LeaseFree(h)
    /\ UpsertLease(h)
    /\ owner' = h

(* DELETE ... WHERE holder_id = h.                                          *)
ReleaseLease(h) ==
    IF lease.holder = h
    THEN lease' = NoLease /\ owner' = NoHolder
    ELSE UNCHANGED leaseVars

(* One tick of the clock the heartbeat's age is measured with.              *)
AgeLease ==
    /\ lease # NoLease
    /\ lease.age < MaxAge
    /\ lease' = [lease EXCEPT !.age = @ + 1]
    /\ UNCHANGED owner

=============================================================================
