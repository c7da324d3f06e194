----------------------------- MODULE LeaseStore -----------------------------
(***************************************************************************)
(* background/leases.py, InMemoryLeaseStore: one time-bounded lease per     *)
(* event key.  Every method body runs under one lock, so each is one step.  *)
(*                                                                          *)
(* leases[k]     the stored lease of key k, NoLease when there is none      *)
(* granted[k][o] the copy the last successful acquire or renew of owner o   *)
(*               returned; it is all that o knows of its lease              *)
(* now           the clock; a lease is expired from expires_at on           *)
(***************************************************************************)
EXTENDS Naturals

CONSTANTS Keys, Holders, NoLease,
          TTL          \* ttl_seconds of every acquire and renew

ASSUME LeaseAssumption == TTL \in Nat \ {0}

VARIABLES leases, granted, now

leaseVars == <<leases, granted, now>>

Lease == [owner : Holders, expires_at : Nat, version : Nat]

ASSUME NoLeaseAssumption == NoLease \notin Lease

LeaseTypeOK ==
  /\ leases \in [Keys -> Lease \union {NoLease}]
  /\ granted \in [Keys -> [Holders -> Lease \union {NoLease}]]
  /\ now \in Nat

LeaseInit ==
  /\ leases = [k \in Keys |-> NoLease]
  /\ granted = [k \in Keys |-> [o \in Holders |-> NoLease]]
  /\ now = 0

-----------------------------------------------------------------------------

Unexpired(lease) == lease # NoLease /\ lease.expires_at > now

\* Mutation: a lease counts as expired one tick before expires_at.
HeldByOtherUntilTick(k, o) ==
  leases[k] # NoLease /\ leases[k].expires_at > now + 1 /\ leases[k].owner # o

\* acquire raises LeaseConflictError exactly then.
HeldByOther(k, o) == Unexpired(leases[k]) /\ leases[k].owner # o

\* Mutations: a takeover starts again at version 0, or keeps the old version.
RestartedVersion(k) == 0
KeptVersion(k) == IF leases[k] = NoLease THEN 0 ELSE leases[k].version

\* A deleted lease leaves no trace: the next one starts at version 0 again.
NextVersion(k) == IF leases[k] = NoLease THEN 0 ELSE leases[k].version + 1

\* The new lease is stored and a copy of it is handed to the caller.
Grant(k, o, version) ==
  LET lease == [owner |-> o, expires_at |-> now + TTL, version |-> version]
  IN  /\ leases' = [leases EXCEPT ![k] = lease]
      /\ granted' = [granted EXCEPT ![k][o] = lease]
      /\ UNCHANGED now

Acquire(k, o) ==
  /\ ~ HeldByOther(k, o)
  /\ Grant(k, o, NextVersion(k))

\* renew raises LeaseExpiredError or LeaseConflictError in every other case.
Renew(k, o) ==
  /\ Unexpired(leases[k])
  /\ leases[k].owner = o
  /\ Grant(k, o, leases[k].version + 1)

\* release by a foreign owner raises LeaseConflictError.  It does not look at
\* the expiry: an owner can release its own expired lease.
ReleaseRefused(k, o) == leases[k] # NoLease /\ leases[k].owner # o

Release(k, o) ==
  /\ ~ ReleaseRefused(k, o)
  /\ leases' = [leases EXCEPT ![k] = NoLease]
  /\ granted' = [granted EXCEPT ![k][o] = NoLease]
  /\ UNCHANGED now

Tick ==
  /\ now' = now + 1
  /\ UNCHANGED <<leases, granted>>

-----------------------------------------------------------------------------
(* The store on its own, under any calls of any owners. *)

LeaseNext ==
  \/ \E k \in Keys, o \in Holders : Acquire(k, o) \/ Renew(k, o) \/ Release(k, o)
  \/ Tick

LeaseSpec == LeaseInit /\ [][LeaseNext]_leaseVars

\* Two owners never both believe, from the copies they were handed, that they
\* hold the same key now: the exclusion acquire and renew exist for.
LeaseExclusive ==
  \A k \in Keys : \A o, p \in Holders :
    Unexpired(granted[k][o]) /\ Unexpired(granted[k][p]) => o = p

\* An owner's unexpired copy is the stored lease, so no call of another owner
\* can replace or delete a lease behind its holder's back.
GrantIsStored ==
  \A k \in Keys, o \in Holders :
    Unexpired(granted[k][o]) => leases[k] = granted[k][o]

\* A takeover or renewal of an existing lease always carries a larger version.
VersionGrows ==
  [][\A k \in Keys :
       leases[k] # NoLease /\ leases'[k] # NoLease /\ leases'[k] # leases[k]
         => leases'[k].version > leases[k].version]_leaseVars
=============================================================================
