---------------------------- MODULE SpoolContract ----------------------------
(***************************************************************************)
(* What the agent's durable queue promises its callers, with no files, no  *)
(* index and no crash in sight: a record is pending from the moment it is  *)
(* durable until the sender disposes of it, and it leaves in one of two    *)
(* ways, acknowledged or buried in the dead-letter store.  Only a dead     *)
(* letter may ever be discarded, and no outcome is ever taken back.        *)
(***************************************************************************)
CONSTANT Records     \* the records producers may enqueue

VARIABLE status

Statuses == {"new", "pending", "delivered", "dead", "discarded"}

Init == status \in [Records -> {"new", "pending"}]

Become(r, from, to) == /\ status[r] = from
                       /\ status' = [status EXCEPT ![r] = to]

Accept(r)  == Become(r, "new", "pending")
Deliver(r) == Become(r, "pending", "delivered")
Bury(r)    == Become(r, "pending", "dead")
Discard(r) == Become(r, "dead", "discarded")

Next == \E r \in Records : Accept(r) \/ Deliver(r) \/ Bury(r) \/ Discard(r)

Spec == Init /\ [][Next]_status
==============================================================================
