------------------------------- MODULE SignServices -------------------------------
(* CastrelSign: the services it issues certificates to, their enrolment tokens *)
(* and the certificate requests of their owners, as the administrator's pages  *)
(* (Operations.jsx) and the portal (Portal.jsx) change them, and as the        *)
(* ApplicationsView of CastrelVault does through the same interface.  SQLite   *)
(* in WAL mode: a transaction that has read refuses to write once another one  *)
(* has committed; a statement outside a transaction just runs.                 *)
EXTENDS Naturals, Sequences, FiniteSets

CONSTANTS
  Services,     \* principals of applications
  Permissions,  \* business permissions
  Releases,     \* agent releases
  MaxTokens,    \* enrolment tokens created
  MaxCsrs,      \* certificate requests of owners
  MaxCerts,     \* certificates issued
  MaxOpen       \* transactions and read-then-write handlers in flight

VARIABLES
  service,   \* application_principals: [status, permissions]
  tokens,    \* application_enrollment_tokens: [of, state]
  csrs,      \* portal_certificate_requests: [of, state]
  certs,     \* application_certificates: [of, status, via], via what was consumed for it
  open,      \* what has read and not yet written: [kind, of, via, read, behind]
  release,   \* agent_releases
  form       \* Enroll: [step, of, busy]

signServicesVars == <<service, tokens, csrs, certs, open, release, form>>

--------------------------------------------------------------------------------
NoService == [status |-> "none", permissions |-> {}]
Status(p) == service[p].status
NoRead == {}
Opened(kind, of, via, read) == [kind |-> kind, of |-> of, via |-> via, read |-> read, behind |-> FALSE]

\* Something else commits: whatever is inside a transaction is behind it from now on.
Behind(txs) == {[t EXCEPT !.behind = @ \/ t.kind \in {"enroll", "review"}] : t \in txs}

Replace(s, test(_), value(_)) == [i \in DOMAIN s |-> IF test(s[i]) THEN value(s[i]) ELSE s[i]]

\* A page or an application starts a handler that reads first.
Begin(t) == Cardinality(open) < MaxOpen /\ t \notin open /\ open' = open \cup {t}

--------------------------------------------------------------------------------
(* The services page, here and in the console of CastrelVault. *)

\* createApplication: upsertPrincipal leaves the status of one that exists.
createApplication(p) ==
  /\ service' = [service EXCEPT ![p].status = IF @ = "none" THEN "ACTIVE" ELSE @]
  /\ open' = Behind(open)
  /\ UNCHANGED <<tokens, csrs, certs, release, form>>

\* grantPermission reads the permissions and writes them all, outside a transaction.
grantPermission(p, q) ==
  /\ Status(p) # "none"
  /\ Begin(Opened("grant", p, q, service[p].permissions))
  /\ UNCHANGED <<service, tokens, csrs, certs, release, form>>
writePermissions(t) ==
  /\ t.kind = "grant"
  /\ service' = [service EXCEPT ![t.of].permissions = t.read \cup {t.via}]
  /\ open' = Behind(open \ {t})
  /\ UNCHANGED <<tokens, csrs, certs, release, form>>

\* setStatus, from a page that may be old: blocking revokes the certificate and the
\* tokens nobody used; reactivating brings none of them back.
block(p) ==
  /\ Status(p) # "none"
  /\ service' = [service EXCEPT ![p].status = "BLOCKED"]
  /\ certs' = Replace(certs, LAMBDA c : c.of = p /\ c.status = "ACTIVE",
                             LAMBDA c : [c EXCEPT !.status = "REVOKED"])
  /\ tokens' = Replace(tokens, LAMBDA t : t.of = p /\ t.state = "ACTIVE",
                               LAMBDA t : [t EXCEPT !.state = "REVOKED"])
  /\ open' = Behind(open)
  /\ UNCHANGED <<csrs, release, form>>
reactivate(p) ==
  /\ Status(p) # "none"
  /\ service' = [service EXCEPT ![p].status = "ACTIVE"]
  /\ open' = Behind(open)
  /\ UNCHANGED <<tokens, csrs, certs, release, form>>

\* Tokens: one can be created for a service that is blocked; it expires or is revoked.
createToken(p) ==
  /\ Status(p) # "none" /\ Len(tokens) < MaxTokens
  /\ tokens' = Append(tokens, [of |-> p, state |-> "ACTIVE"])
  /\ open' = Behind(open)
  /\ UNCHANGED <<service, csrs, certs, release, form>>
endToken(i) ==
  /\ tokens[i].state = "ACTIVE"
  /\ tokens' = [tokens EXCEPT ![i].state = "REVOKED"]
  /\ open' = Behind(open)
  /\ UNCHANGED <<service, csrs, certs, release, form>>

--------------------------------------------------------------------------------
(* Certificates. *)

\* saveCertificate: the one before it is superseded.
Issue(p, via) ==
  /\ Len(certs) < MaxCerts
  /\ certs' = Append(Replace(certs, LAMBDA c : c.of = p /\ c.status = "ACTIVE",
                                    LAMBDA c : [c EXCEPT !.status = "SUPERSEDED"]),
                     [of |-> p, status |-> "ACTIVE", via |-> via])

\* enroll reads the service and its token in a transaction ...
enroll(i) ==
  /\ tokens[i].state = "ACTIVE" /\ Status(tokens[i].of) = "ACTIVE"
  /\ Begin(Opened("enroll", tokens[i].of, <<"token", i>>, NoRead))
  /\ UNCHANGED <<service, tokens, csrs, certs, release, form>>

\* ... and consumes the token (consumeToken: if it is still unused), signs and saves.
Enrolled(t) ==
  /\ t.kind = "enroll" /\ ~t.behind
  /\ tokens' = [tokens EXCEPT ![t.via[2]].state = "USED"]
  /\ Issue(t.of, t.via)
  /\ open' = Behind(open \ {t})
  /\ UNCHANGED <<service, csrs, release, form>>

\* The portal: Enroll confirms a service its list showed as active, and submits.
choose(p) ==
  /\ form.step = 0 /\ Status(p) = "ACTIVE"
  /\ form' = [step |-> 1, of |-> p, busy |-> FALSE]
  /\ UNCHANGED <<service, tokens, csrs, certs, open, release>>
back ==
  /\ form.step = 1 /\ ~form.busy /\ form' = [form EXCEPT !.step = 0]
  /\ UNCHANGED <<service, tokens, csrs, certs, open, release>>
send ==
  /\ form.step = 1 /\ ~form.busy /\ form' = [form EXCEPT !.busy = TRUE]
  /\ UNCHANGED <<service, tokens, csrs, certs, open, release>>
Leave ==
  /\ form.step # 0 /\ form' = [step |-> 0, of |-> form.of, busy |-> FALSE]
  /\ UNCHANGED <<service, tokens, csrs, certs, open, release>>

\* submit: one request of a service at a time; an answer that is lost leaves the form.
submit ==
  /\ form.busy
  /\ IF Status(form.of) = "ACTIVE" /\ Len(csrs) < MaxCsrs
        /\ \A i \in DOMAIN csrs : csrs[i].of = form.of => csrs[i].state # "PENDING"
     THEN /\ csrs' = Append(csrs, [of |-> form.of, state |-> "PENDING"])
          /\ open' = Behind(open)
          /\ \/ form' = [form EXCEPT !.step = 2, !.busy = FALSE]
             \/ form' = [form EXCEPT !.busy = FALSE]
     ELSE form' = [form EXCEPT !.busy = FALSE] /\ UNCHANGED <<csrs, open>>
  /\ UNCHANGED <<service, tokens, certs, release>>

\* review, one at a time: an approval reads the request, its owner's rights and the
\* service ...
review(i) ==
  /\ csrs[i].state = "PENDING" /\ Status(csrs[i].of) = "ACTIVE"
  /\ \A t \in open : t.kind # "review"
  /\ Begin(Opened("review", csrs[i].of, <<"request", i>>, NoRead))
  /\ UNCHANGED <<service, tokens, csrs, certs, release, form>>

\* ... and is carried out, with the certificate.
Approved(t) ==
  /\ t.kind = "review" /\ ~t.behind
  /\ csrs' = [csrs EXCEPT ![t.via[2]].state = "APPROVED"]
  /\ Issue(t.of, t.via)
  /\ open' = Behind(open \ {t})
  /\ UNCHANGED <<service, tokens, release, form>>
reject(i) ==
  /\ csrs[i].state = "PENDING" /\ \A t \in open : t.kind # "review"
  /\ csrs' = [csrs EXCEPT ![i].state = "REJECTED"]
  /\ open' = Behind(open)
  /\ UNCHANGED <<service, tokens, certs, release, form>>

\* A transaction that is behind, or fails, changes nothing.
rollback(t) ==
  /\ open' = open \ {t}
  /\ UNCHANGED <<service, tokens, csrs, certs, release, form>>

--------------------------------------------------------------------------------
(* Releases: activateRelease checks, and writes in a statement of its own. *)

activate(u) ==
  /\ release[u] \in {"DRAFT", "ACTIVE"}
  /\ Begin(Opened("activate", u, "none", NoRead))
  /\ UNCHANGED <<service, tokens, csrs, certs, release, form>>
writeActive(t) ==
  /\ t.kind = "activate"
  /\ release' = [release EXCEPT ![t.of] = "ACTIVE"] /\ open' = Behind(open \ {t})
  /\ UNCHANGED <<service, tokens, csrs, certs, form>>
revoke(u) ==
  /\ release[u] = "ACTIVE"
  /\ release' = [release EXCEPT ![u] = "REVOKED"] /\ open' = Behind(open)
  /\ UNCHANGED <<service, tokens, csrs, certs, form>>

Init ==
  /\ service = [p \in Services |-> NoService]
  /\ tokens = <<>> /\ csrs = <<>> /\ certs = <<>> /\ open = {}
  /\ release = [u \in Releases |-> "DRAFT"]
  /\ form \in [step : {0}, of : Services, busy : {FALSE}]

Next ==
  \/ \E p \in Services : createApplication(p) \/ block(p) \/ reactivate(p) \/ createToken(p) \/ choose(p)
  \/ \E p \in Services, q \in Permissions : grantPermission(p, q)
  \/ \E i \in DOMAIN tokens : endToken(i) \/ enroll(i)
  \/ \E i \in DOMAIN csrs : review(i) \/ reject(i)
  \/ \E t \in open : writePermissions(t) \/ Enrolled(t) \/ Approved(t) \/ writeActive(t) \/ rollback(t)
  \/ \E u \in Releases : activate(u) \/ revoke(u)
  \/ back \/ send \/ submit \/ Leave

Spec == Init /\ [][Next]_signServicesVars

--------------------------------------------------------------------------------
\* A service has one certificate that works, and none while it is blocked: an enrolment
\* or an approval that began before the block does not slip one in after it.
OneCertificate ==
  \A i \in DOMAIN certs :
    certs[i].status = "ACTIVE" =>
      /\ Status(certs[i].of) = "ACTIVE"
      /\ \A j \in DOMAIN certs : certs[j].of = certs[i].of /\ certs[j].status = "ACTIVE" => j = i

\* A token and an approval are good for one certificate, of the service they name.
OnceEach ==
  /\ \A i, j \in DOMAIN certs : certs[i].via = certs[j].via => i = j
  /\ \A i \in DOMAIN certs :
       LET n == certs[i].via[2]
       IN IF certs[i].via[1] = "token" THEN tokens[n] = [of |-> certs[i].of, state |-> "USED"]
          ELSE csrs[n] = [of |-> certs[i].of, state |-> "APPROVED"]

\* Both together.
ServicesTrue == OneCertificate /\ OnceEach

\* A permission once granted stays: two grants at the same time lose one.
PermissionsStay == [][\A p \in Services : service[p].permissions \subseteq service'[p].permissions]_signServicesVars

\* A revoked release is not activated again (Operations.jsx:602): an activation that was
\* checked before the revocation writes after it.
RevokedForGood == [][\A u \in Releases : release[u] = "REVOKED" => release'[u] = "REVOKED"]_signServicesVars

--------------------------------------------------------------------------------
(* What every reachable state has, besides: the invariant that the proofs keep. *)
SignServicesAssumption == MaxTokens \in Nat /\ MaxCsrs \in Nat /\ MaxCerts \in Nat

Handlers ==
  [kind : {"grant"}, of : Services, via : Permissions, read : SUBSET Permissions, behind : BOOLEAN]
    \cup [kind : {"enroll", "review"}, of : Services, via : {"token", "request"} \X Nat, read : {NoRead}, behind : BOOLEAN]
    \cup [kind : {"activate"}, of : Releases, via : {"none"}, read : {NoRead}, behind : BOOLEAN]
ServiceRow == [status : {"none", "ACTIVE", "BLOCKED"}, permissions : SUBSET Permissions]
TokenRow == [of : Services, state : {"ACTIVE", "REVOKED", "USED"}]
CsrRow == [of : Services, state : {"PENDING", "APPROVED", "REJECTED"}]
CertRow == [of : Services, status : {"ACTIVE", "REVOKED", "SUPERSEDED"}, via : {"token", "request"} \X Nat]
FormState == [step : {0, 1, 2}, of : Services, busy : BOOLEAN]
ServicesType ==
  /\ service \in [Services -> ServiceRow]
  /\ tokens \in Seq(TokenRow)
  /\ csrs \in Seq(CsrRow)
  /\ certs \in Seq(CertRow)
  /\ open \subseteq Handlers
  /\ form \in FormState

\* A transaction that is not behind writes what it read: an active service, a token
\* nobody used, a request nobody decided.
ReadIsSo ==
  \A t \in open : ~t.behind =>
    /\ t.kind \in {"enroll", "review"} => Status(t.of) = "ACTIVE"
    /\ t.kind = "enroll" =>
         /\ t.via[1] = "token" /\ t.via[2] \in DOMAIN tokens
         /\ tokens[t.via[2]] = [of |-> t.of, state |-> "ACTIVE"]
    /\ t.kind = "review" =>
         /\ t.via[1] = "request" /\ t.via[2] \in DOMAIN csrs
         /\ csrs[t.via[2]] = [of |-> t.of, state |-> "PENDING"]

\* What a certificate was issued for exists.
ViaThere ==
  \A i \in DOMAIN certs : certs[i].via[2] \in IF certs[i].via[1] = "token" THEN DOMAIN tokens ELSE DOMAIN csrs
ServicesInv == ServicesType /\ ReadIsSo /\ ViaThere /\ ServicesTrue

(* Parts of it that the proofs name. *)
\* The invariant, but for what is in flight.
Rest == /\ service \in [Services -> ServiceRow]
        /\ tokens \in Seq(TokenRow)
        /\ csrs \in Seq(CsrRow)
        /\ certs \in Seq(CertRow)
        /\ form \in FormState
        /\ ViaThere /\ OneCertificate /\ OnceEach
\* Certificates of a service stop working, and nothing else of them changes.
Stopped(p, status) == Replace(certs, LAMBDA c : c.of = p /\ c.status = "ACTIVE",
                                     LAMBDA c : [c EXCEPT !.status = status])
================================================================================
