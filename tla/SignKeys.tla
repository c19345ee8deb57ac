--------------------------------- MODULE SignKeys ---------------------------------
(* CastrelSign: the versions of one signing key and what is asked of them.     *)
(* KeyManagementService.java runs every operation under its monitor and in one *)
(* transaction.  The console (Admin.jsx) offers what the version it shows      *)
(* allows; a request asked for then is approved when the key may have moved on *)
EXTENDS Naturals, FiniteSets

CONSTANTS
  MaxVersion,    \* versions of the key
  Certificates,  \* what a version may sign, with an end of its validity
  Releases,      \* and without one: agent releases, until they are revoked
  Backups,       \* offline backups of the key store
  KeyAdmins,     \* administrators with the role KEY_ADMIN, who ask
  Officers,      \* administrators with the role SECURITY_OFFICER, who approve
  MaxPending     \* requests that wait for an approval

VARIABLES
  version,     \* kms_keys: [state, due, expired], due once delete_at has passed
  current,     \* kms_aliases: the version that signs
  needs,       \* kms_dependencies: what still relies on a version
  granted,     \* kms_grants: the signing service may use the key
  pending      \* kms_requests that wait: [action, on, by, backup]

signKeysVars == <<version, current, needs, granted, pending>>

--------------------------------------------------------------------------------
Versions == 1..MaxVersion
Signed == Certificates \cup Releases
NoBackup == "none"   \* of a request that is not about one

Request == {"ACTIVATE", "RESUME", "SCHEDULE_DELETION", "DESTROY", "GRANT", "REVOKE", "ACK_BACKUP_PURGE"}

State(v) == version[v].state
Set(v, state) == [version EXCEPT ![v].state = state]

\* Variant: only what has an end of validity counts.
UnneededToday(v) == needs[v] \cap Certificates = {}

\* requireNoDependencies: certificates that are valid, releases, and backups not purged.
Unneeded(v) == needs[v] = {}

\* The states a version may be scheduled for deletion from.
Deletable(v) == v # current /\ State(v) \in {"VERIFY_ONLY", "SUSPENDED", "COMPROMISED", "PRE_ACTIVE"}

--------------------------------------------------------------------------------
(* What is signed, and what time does to it. *)

\* sign: an active version whose signing date is not over, for a service that may use it;
\* the dependency is recorded with the signature.
Sign(v, u) ==
  /\ State(v) = "ACTIVE" /\ ~version[v].expired /\ granted
  /\ needs' = [needs EXCEPT ![v] = @ \cup {u}]
  /\ UNCHANGED <<version, current, granted, pending>>

\* A certificate is over; a release is revoked, which gives the dependency back.
Lapse(v, u) ==
  /\ u \in needs[v] \cap Signed
  /\ needs' = [needs EXCEPT ![v] = @ \ {u}]
  /\ UNCHANGED <<version, current, granted, pending>>

\* The signing date of a version, its grace before destruction, the day of a request.
Age(v) ==
  /\ State(v) # "none"
  /\ \/ ~version[v].expired /\ version' = [version EXCEPT ![v].expired = TRUE]
     \/ State(v) = "PENDING_DELETION" /\ ~version[v].due /\ version' = [version EXCEPT ![v].due = TRUE]
  /\ UNCHANGED <<current, needs, granted, pending>>
ExpireRequest(r) ==
  /\ pending' = pending \ {r}
  /\ UNCHANGED <<version, current, needs, granted>>

\* registerBackup, of every version that still has its private key.
registerBackup(b) ==
  /\ \A v \in Versions : b \notin needs[v]
  /\ needs' = [v \in Versions |->
       IF State(v) \in {"none", "DESTROYED"} THEN needs[v] ELSE needs[v] \cup {b}]
  /\ UNCHANGED <<version, current, granted, pending>>

--------------------------------------------------------------------------------
(* The console. *)

\* The buttons KeyDetail enables on a version.
Offered(action, v) ==
  CASE action = "ACTIVATE" -> State(v) = "PRE_ACTIVE"
    [] action = "SUSPEND" -> State(v) \in {"ACTIVE", "VERIFY_ONLY"}
    [] action = "COMPROMISE" -> State(v) \notin {"none", "PRE_ACTIVE", "COMPROMISED", "DESTROYED"}
    [] action = "RESUME" -> State(v) = "SUSPENDED"
    [] action = "CANCEL_DELETION" -> State(v) = "PENDING_DELETION"
    [] action = "DESTROY" -> State(v) = "PENDING_DELETION" /\ version[v].due /\ Unneeded(v)
    [] action = "SCHEDULE_DELETION" -> Deletable(v) /\ Unneeded(v)
    [] action = "ACK_BACKUP_PURGE" -> needs[v] \cap Backups # {}
    [] action = "REVOKE" -> State(v) # "none" /\ granted
    [] OTHER -> State(v) # "none"

\* request: nothing of the version is looked at yet.
request(a, action, v, b) ==
  /\ Offered(action, v)
  /\ b \in IF action = "ACK_BACKUP_PURGE" THEN needs[v] \cap Backups ELSE {NoBackup}
  /\ Cardinality(pending) < MaxPending
  /\ pending' = pending \cup {[action |-> action, on |-> v, by |-> a, backup |-> b]}
  /\ UNCHANGED <<version, current, needs, granted>>

\* suspend and cancelDeletion act at once.
suspend(action, v) ==
  /\ action \in {"SUSPEND", "COMPROMISE"} /\ Offered(action, v)
  /\ State(v) \notin {"DESTROYED", "COMPROMISED", "PENDING_DELETION"}
  /\ version' = Set(v, IF action = "COMPROMISE" THEN "COMPROMISED" ELSE "SUSPENDED")
  /\ UNCHANGED <<current, needs, granted, pending>>
cancelDeletion(v) ==
  /\ Offered("CANCEL_DELETION", v) /\ State(v) = "PENDING_DELETION"
  /\ version' = [version EXCEPT ![v].state = "SUSPENDED", ![v].due = FALSE]
  /\ UNCHANGED <<current, needs, granted, pending>>

\* prepareRotation: one prepared version at a time.  An identifier already used answers
\* with the version it made, which changes nothing.
prepareRotation(v) ==
  /\ State(v) = "none" /\ \A w \in Versions : w < v => State(w) # "none"
  /\ \A w \in Versions : State(w) # "PRE_ACTIVE"
  /\ version' = Set(v, "PRE_ACTIVE")
  /\ UNCHANGED <<current, needs, granted, pending>>

--------------------------------------------------------------------------------
(* approve: another person; the version is looked at as it is now. *)

\* ACTIVATE
Activated(v) ==
  /\ State(v) = "PRE_ACTIVE" /\ ~version[v].expired
  /\ version' = [w \in Versions |->
       IF w = v THEN [version[w] EXCEPT !.state = "ACTIVE"]
       ELSE IF w = current /\ State(w) = "ACTIVE" THEN [version[w] EXCEPT !.state = "VERIFY_ONLY"]
       ELSE version[w]]
  /\ current' = v
  /\ UNCHANGED <<needs, granted>>

\* RESUME
Resumed(v) ==
  /\ State(v) = "SUSPENDED"
  /\ version' = Set(v, IF v = current THEN "ACTIVE" ELSE "VERIFY_ONLY")
  /\ UNCHANGED <<current, needs, granted>>

\* SCHEDULE_DELETION
Scheduled(v) ==
  /\ Deletable(v) /\ Unneeded(v)
  /\ version' = [version EXCEPT ![v].state = "PENDING_DELETION", ![v].due = FALSE]
  /\ UNCHANGED <<current, needs, granted>>

\* DESTROY
Destroyed(v) ==
  /\ State(v) = "PENDING_DELETION" /\ version[v].due /\ Unneeded(v)
  /\ version' = Set(v, "DESTROYED")
  /\ UNCHANGED <<current, needs, granted>>

\* GRANT and REVOKE
Allowed(action) ==
  /\ granted' = (action = "GRANT")
  /\ UNCHANGED <<version, current, needs>>

\* ACK_BACKUP_PURGE
Purged(v, b) ==
  /\ b \in needs[v] /\ needs' = [needs EXCEPT ![v] = @ \ {b}]
  /\ UNCHANGED <<version, current, granted>>

Execute(r) ==
  \/ r.action = "ACTIVATE" /\ Activated(r.on)
  \/ r.action = "RESUME" /\ Resumed(r.on)
  \/ r.action = "SCHEDULE_DELETION" /\ Scheduled(r.on)
  \/ r.action = "DESTROY" /\ Destroyed(r.on)
  \/ r.action \in {"GRANT", "REVOKE"} /\ Allowed(r.action)
  \/ r.action = "ACK_BACKUP_PURGE" /\ Purged(r.on, r.backup)

approve(a, r) ==
  /\ a # r.by /\ Execute(r)
  /\ pending' = pending \ {r}

--------------------------------------------------------------------------------
Init ==
  /\ version = [v \in Versions |->
       [state |-> IF v = 1 THEN "ACTIVE" ELSE "none", due |-> FALSE, expired |-> FALSE]]
  /\ current = 1 /\ granted = TRUE
  /\ needs = [v \in Versions |-> {}]
  /\ pending = {}

Next ==
  \/ \E v \in Versions : Age(v) \/ prepareRotation(v)
  \/ \E v \in Versions, u \in Signed : Sign(v, u) \/ Lapse(v, u)
  \/ \E b \in Backups : registerBackup(b)
  \/ \E v \in Versions : cancelDeletion(v) \/ \E action \in {"SUSPEND", "COMPROMISE"} : suspend(action, v)
  \/ \E a \in KeyAdmins, action \in Request, v \in Versions, b \in Backups \cup {NoBackup} :
       request(a, action, v, b)
  \/ \E r \in pending : ExpireRequest(r) \/ \E a \in Officers : approve(a, r)

Spec == Init /\ [][Next]_signKeysVars

--------------------------------------------------------------------------------
\* One version signs, and it is the one the alias names: rotations, suspensions and
\* resumptions that overtake each other never leave two.
OneSigner == \A v \in Versions : State(v) = "ACTIVE" => v = current

\* A version is on its way out, or gone, only while nothing that it signed is valid; and
\* it is gone only when every backup of it is.
NeededKept ==
  \A v \in Versions :
    /\ needs[v] \cap Signed # {} => State(v) \notin {"none", "PRE_ACTIVE", "PENDING_DELETION", "DESTROYED"}
    /\ needs[v] \cap Backups # {} => State(v) \notin {"none", "DESTROYED"}

\* Both together.
KeysTrue == OneSigner /\ NeededKept

\* The console says of a compromised version that it cannot be used again
\* (Admin.jsx:354); a cancelled deletion suspends it, and a suspended version resumes.
CompromisedForGood ==
  [][\A v \in Versions : State(v) = "COMPROMISED" => State(v)' \in {"COMPROMISED", "PENDING_DELETION", "DESTROYED"}]_signKeysVars

--------------------------------------------------------------------------------
(* What every reachable state has, besides: the invariant that the proofs keep. *)
SignKeysAssumption == MaxVersion \in Nat \ {0} /\ Signed \cap Backups = {}

KeyStates == {"none", "PRE_ACTIVE", "ACTIVE", "VERIFY_ONLY", "SUSPENDED", "COMPROMISED",
              "PENDING_DELETION", "DESTROYED"}
KeysType ==
  /\ version \in [Versions -> [state : KeyStates, due : BOOLEAN, expired : BOOLEAN]]
  /\ current \in Versions
  /\ needs \in [Versions -> SUBSET (Signed \cup Backups)]
  /\ \A r \in pending : r.on \in Versions
KeysInv == KeysType /\ KeysTrue
================================================================================
