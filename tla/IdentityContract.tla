--------------------------- MODULE IdentityContract ---------------------------
(* What tlsidentity promises the agent: the CA, the client certificate and   *)
(* the metadata change together.  identity is the bundle a process that is   *)
(* started now would end up with; it is replaced as a whole by the bundle    *)
(* offered last, and by nothing else, whatever fails and whenever the        *)
(* process dies.                                                             *)
CONSTANTS Targets,    \* the files of a bundle
          Versions,   \* the enrolments the server can answer
          Initial     \* the bundles an installation can start from

VARIABLES identity, offered

Whole(v) == [t \in Targets |-> v]

Init == identity \in Initial /\ offered \in Versions

\* SaveEnrollment is called with the server's answer.
Offer == offered' \in Versions /\ UNCHANGED identity

\* SaveEnrollment commits.
Commit == identity' = Whole(offered) /\ UNCHANGED offered

Spec == Init /\ [][Offer \/ Commit]_<<identity, offered>>
===============================================================================
