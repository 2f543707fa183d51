----------------------------- MODULE Corrections -----------------------------
(***************************************************************************)
(* What happens to a certificate's values and verdict: the worker checks   *)
(* and persists it (worker/src/langgraph/nodes/processCertificates.ts,     *)
(* persistResults.ts), a user asks for a correction and another decides    *)
(* on it (webapp/tax-track/src/lib/certificate-override-server.ts).        *)
(* Whoever accepts a certificate goes on to match it with a sales report;  *)
(* module Reconciliation says how, here the match just ends.               *)
(*                                                                         *)
(* A fingerprint is a hash of a certificate's contents; a correction's     *)
(* hashes the ids of its rows with them, so two are equal only if contents *)
(* and hashed ids are.                                                     *)
(*                                                                         *)
(* A database transaction at READ COMMITTED is a read and a write with     *)
(* steps of others in between.                                             *)
(***************************************************************************)
EXTENDS FiniteSets

CONSTANTS
  Certificate,
  Content,       \* what a certificate says
  Extracted,     \* Extracted[c]: the contents extraction finds in c
  Early,         \* bound: the certificates that are accepted from the start
  Correction,    \* bound: Correction[q]: what q may be: a certificate, new contents,
                 \* and whether identity fields are among the changes
  Request,       \* correction requests
  Deletion,      \* bound: the certificates of a file, or of the batch, that is purged
  Worker,        \* workers, and
  Server,        \* requests to the web server: each does one thing at a time
  NoCertificate, NoContent, NoRequest

Actor == Worker \cup Server

ASSUME CorrectionsAssumption ==
  /\ NoCertificate \notin Certificate
  /\ Extracted \in [Certificate -> Content] /\ Early \subseteq Certificate
  /\ \A c, d \in Early : c # d => Extracted[c] # Extracted[d]
  /\ Correction \in [Request -> SUBSET (Certificate \X Content \X BOOLEAN)]
  /\ Deletion \subseteq SUBSET Certificate
  /\ NoContent \notin Content /\ NoRequest \notin Request

VARIABLES
  cert,          \* cert[c]: extracted_certificates
  request,       \* request[q]: certificate_override_requests
  actor,         \* actor[a]: what it is doing, on what it read
  unchecked      \* certificates accepted without a look at the latest (for properties)

correctionVars == <<cert, request, actor, unchecked>>

Verdict == {"error", "review", "duplicate", "accepted"}
Missing == [status |-> "absent", content |-> NoContent, ids |-> NoCertificate]
Gone == [Missing EXCEPT !.status = "gone"]

NewRequest == [status |-> "new", cert |-> NoCertificate, content |-> NoContent,
               identity |-> FALSE]

Idle == [at |-> "idle", cert |-> NoCertificate, content |-> NoContent,
         verdict |-> "absent", request |-> NoRequest, stale |-> FALSE]

CorrectionsInit ==
  /\ cert = [c \in Certificate |-> IF c \in Early
                                   THEN [status |-> "accepted", content |-> Extracted[c],
                                         ids |-> NoCertificate]
                                   ELSE Missing]
  /\ request = [q \in Request |-> NewRequest]
  /\ actor = [a \in Actor |-> Idle]
  /\ unchecked = {}

-----------------------------------------------------------------------------
(* Is another certificate with the fingerprint of contents x, hashed with  *)
(* ids, accepted already? Those that have the ids of c are c's alone.      *)
Duplicated(c, x, ids) ==
  \E d \in Certificate \ {c} :
    cert[d] = [status |-> "accepted", content |-> x, ids |-> ids]

(* The verdicts on contents x of c: rules and masterlist say it is valid,  *)
(* invalid or to be reviewed; a valid certificate may be a duplicate.      *)
VerdictsOn(c, x, ids) ==
  {"error", "review", IF Duplicated(c, x, ids) THEN "duplicate" ELSE "accepted"}

(* An actor accepts contents x for c: what the others found before is no   *)
(* longer the latest (for properties).                                     *)
Outdate(a, c, x, doing) ==
  [b \in Actor |->
     IF b = a THEN doing
     ELSE [actor[b] EXCEPT !.stale =
             @ \/ (actor[b].cert # c /\ actor[b].verdict = "accepted" /\ actor[b].content = x)]]

(* Writes a certificate. Whoever has accepted it goes on to match it.      *)
Write(a, c, status, x, ids, validated) ==
  LET doing == IF validated /\ status = "accepted"
                 THEN [actor[a] EXCEPT !.at = "matching", !.stale = FALSE]
                 ELSE Idle
  IN /\ cert' = [cert EXCEPT ![c] = [status |-> status, content |-> x, ids |-> ids]]
     /\ actor' = IF status = "accepted" THEN Outdate(a, c, x, doing)
                                        ELSE [actor EXCEPT ![a] = doing]

-----------------------------------------------------------------------------
(* Mutant: the worker does not look for duplicates.                        *)
CheckNothing(a, c) ==
  /\ actor[a] = Idle
  /\ cert[c] = Missing /\ \A b \in Actor : actor[b].cert # c
  /\ \E v \in {"error", "review", "accepted"} :
       actor' = [actor EXCEPT ![a] = [Idle EXCEPT !.at = "persisting", !.cert = c,
                                        !.content = Extracted[c], !.verdict = v]]
  /\ UNCHANGED <<cert, request, unchecked>>

(* The worker has extracted certificate c and looks for duplicates.        *)
CheckCertificate(a, c) ==
  /\ actor[a] = Idle
  /\ cert[c] = Missing /\ \A b \in Actor : actor[b].cert # c
  /\ \E v \in VerdictsOn(c, Extracted[c], NoCertificate) :
       actor' = [actor EXCEPT ![a] = [Idle EXCEPT !.at = "persisting", !.cert = c,
                                        !.content = Extracted[c], !.verdict = v]]
  /\ UNCHANGED <<cert, request, unchecked>>

(* Some minutes later the workflow's last node persists it, unless its     *)
(* file has been purged: its rows then have no file to refer to.           *)
PersistCertificate(a) ==
  /\ actor[a].at = "persisting" /\ cert[actor[a].cert] = Missing
  /\ Write(a, actor[a].cert, actor[a].verdict, actor[a].content, NoCertificate, TRUE)
  /\ unchecked' = IF actor[a].stale THEN unchecked \cup {actor[a].cert} ELSE unchecked
  /\ UNCHANGED request

(* A user asks for a correction; a certificate has one pending request at  *)
(* a time, a unique index sees to it. Identity fields are those of payor   *)
(* and payee.                                                              *)
CreateRequest(q, c, x, identity) ==
  /\ request[q] = NewRequest /\ <<c, x, identity>> \in Correction[q]
  /\ cert[c].status \in {"accepted", "review", "error"} /\ x # cert[c].content
  /\ \A p \in Request : ~(request[p].cert = c /\ request[p].status = "pending")
  /\ request' = [request EXCEPT ![q] = [status |-> "pending", cert |-> c, content |-> x,
                                        identity |-> identity]]
  /\ UNCHANGED <<cert, actor, unchecked>>

(* Somebody opens a pending request and decides on it. Nothing is locked:  *)
(* another may be deciding on the same request.                            *)
OpenRequest(a, q, step) ==
  /\ actor[a] = Idle /\ request[q].status = "pending"
  /\ actor' = [actor EXCEPT ![a] = [Idle EXCEPT !.at = step, !.request = q,
                                      !.cert = request[q].cert, !.content = request[q].content,
                                      !.verdict = cert[request[q].cert].status]]
  /\ UNCHANGED <<cert, request, unchecked>>

(* Corrected identity fields, or a certificate under review, are validated *)
(* again; otherwise the verdict stays.                                     *)
Revalidates(a) ==
  actor[a].verdict = "review" \/ request[actor[a].request].identity

(* The ids hashed with the corrected contents are those of its own rows:   *)
(* the look for duplicates finds none.                                     *)
ValidateCorrection(a) ==
  /\ actor[a].at = "validating"
  /\ IF Revalidates(a)
       THEN \E v \in VerdictsOn(actor[a].cert, actor[a].content, actor[a].cert) :
              actor' = [actor EXCEPT ![a].at = "approving", ![a].verdict = v]
       ELSE actor' = [actor EXCEPT ![a].at = "correcting"]
  /\ UNCHANGED <<cert, request, unchecked>>

Decide(a, decision) ==
  request' = [request EXCEPT ![actor[a].request].status = decision]

(* The rows are updated by their ids alone, whatever has become of them:   *)
(* those purged since are not there, and nothing is written.               *)
Still(a) == cert[actor[a].cert] # Gone

(* The correction is applied with the verdict found.                       *)
Approve(a) ==
  /\ actor[a].at = "approving" /\ Still(a)
  /\ Write(a, actor[a].cert, actor[a].verdict, actor[a].content, actor[a].cert, TRUE)
  /\ Decide(a, "approved")
  /\ UNCHANGED unchecked

(* The values change and the verdict stays what it is.                     *)
ApproveUnvalidated(a) ==
  LET c == actor[a].cert
  IN /\ actor[a].at = "correcting" /\ Still(a)
     /\ Write(a, c, cert[c].status, actor[a].content, c, FALSE)
     /\ Decide(a, "approved")
     /\ UNCHANGED unchecked

Reject(a) ==
  /\ actor[a].at = "rejecting" /\ Still(a)
  /\ Decide(a, "rejected")
  /\ actor' = [actor EXCEPT ![a] = Idle]
  /\ UNCHANGED <<cert, unchecked>>

(* The match is done, has failed, or the process has stopped before it     *)
(* committed anything.                                                     *)
Leave(a) ==
  /\ actor[a].at # "idle"
  /\ actor' = [actor EXCEPT ![a] = Idle]
  /\ UNCHANGED <<cert, request, unchecked>>

(* The rows of a file, or of the batch, are deleted: with its certificates *)
(* go the requests to correct them.                                        *)
DeleteCertificates(d) ==
  /\ \E c \in d : cert[c] # Gone
  /\ cert' = [c \in Certificate |-> IF c \in d THEN Gone ELSE cert[c]]
  /\ request' = [q \in Request |->
                   IF request[q].status # "new" /\ request[q].cert \in d
                     THEN [request[q] EXCEPT !.status = "gone"] ELSE request[q]]
  /\ UNCHANGED <<actor, unchecked>>

CorrectionStep ==
  \/ \E q \in Request, c \in Certificate, x \in Content, identity \in BOOLEAN :
       CreateRequest(q, c, x, identity)
  \/ \E a \in Worker : \/ \E c \in Certificate : CheckCertificate(a, c)
                       \/ PersistCertificate(a)
  \/ \E a \in Server :
       \/ \E q \in Request, step \in {"validating", "rejecting"} : OpenRequest(a, q, step)
       \/ ValidateCorrection(a) \/ Approve(a) \/ ApproveUnvalidated(a) \/ Reject(a)

CorrectionsNext ==
  \/ CorrectionStep
  \/ \E d \in Deletion : DeleteCertificates(d)
  \/ \E a \in Actor : Leave(a)

CorrectionsSpec == CorrectionsInit /\ [][CorrectionsNext]_correctionVars

-----------------------------------------------------------------------------
CorrectionsTypeOK ==
  /\ cert \in [Certificate -> [status : Verdict \cup {"absent", "gone"},
                               content : Content \cup {NoContent},
                               ids : Certificate \cup {NoCertificate}]]
  /\ request \in [Request -> [status : {"new", "pending", "approved", "rejected", "gone"},
                              cert : Certificate \cup {NoCertificate},
                              content : Content \cup {NoContent}, identity : BOOLEAN]]
  /\ actor \in [Actor -> [at : {"idle", "persisting", "validating", "rejecting",
                                "approving", "correcting", "matching"},
                          cert : Certificate \cup {NoCertificate},
                          content : Content \cup {NoContent},
                          verdict : Verdict \cup {"absent", "gone"},
                          request : Request \cup {NoRequest}, stale : BOOLEAN]]
  /\ unchecked \subseteq Certificate

(* No two accepted certificates that nobody has corrected say the same,    *)
(* and no sales are covered twice by one payment, unless one of the two    *)
(* was accepted by the worker while the other was between its check and    *)
(* its write.                                                              *)
AcceptedOnce ==
  \A c, d \in Certificate \ unchecked :
    c # d /\ cert[c].status = "accepted" /\ cert[c].ids = NoCertificate => cert[d] # cert[c]

=============================================================================
