-------------------------- MODULE CorrectionsProofs --------------------------
(***************************************************************************)
(* Corrections for every set of certificates, contents, requests, workers  *)
(* and requests to the server: two certificates that nobody has corrected  *)
(* and that say the same are not both accepted, unless the worker accepted *)
(* one without a look at the other.                                        *)
(***************************************************************************)
EXTENDS Corrections, TLAPS

(* What is known of a certificate, of a request, and of an actor.          *)
Written == [status : Verdict \cup {"absent", "gone"},
            content : Content \cup {NoContent}, ids : Certificate \cup {NoCertificate}]

Asked == [status : {"new", "pending", "approved", "rejected", "gone"},
          cert : Certificate \cup {NoCertificate}, content : Content \cup {NoContent},
          identity : BOOLEAN]

Doing == [at : {"idle", "persisting", "validating", "rejecting",
                "approving", "correcting", "matching"},
          cert : Certificate \cup {NoCertificate},
          content : Content \cup {NoContent},
          verdict : Verdict \cup {"absent", "gone"},
          request : Request \cup {NoRequest}, stale : BOOLEAN]

(* An actor that is at something has a certificate and contents to it, and *)
(* one that decides has a request.                                         *)
Busy ==
  /\ \A a \in Actor : actor[a].at # "idle" =>
       /\ actor[a].cert \in Certificate /\ actor[a].content \in Content
       /\ actor[a].at \in {"validating", "rejecting", "approving", "correcting"} =>
            actor[a].request \in Request /\ request[actor[a].request].status # "new"
       /\ actor[a].at \in {"persisting", "approving"} => actor[a].verdict \in Verdict
  /\ \A q \in Request : request[q].status # "new" =>
       request[q].cert \in Certificate /\ request[q].content \in Content

(* The acceptance a worker is about to write is right as of the last look, *)
(* unless another has accepted the same contents since.                    *)
AcceptanceHolds ==
  \A a \in Actor :
    actor[a].at = "persisting" /\ actor[a].verdict = "accepted" /\ ~actor[a].stale =>
      ~Duplicated(actor[a].cert, actor[a].content, NoCertificate)

CInv == CorrectionsTypeOK /\ Busy /\ AcceptanceHolds /\ AcceptedOnce

-----------------------------------------------------------------------------
(* The types, in terms of the three.                                       *)
LEMMA Types ==
  CorrectionsTypeOK <=> /\ cert \in [Certificate -> Written]
                        /\ request \in [Request -> Asked]
                        /\ actor \in [Actor -> Doing]
                        /\ unchecked \subseteq Certificate
BY DEF CorrectionsTypeOK, Written, Asked, Doing

LEMMA TypesNext ==
  CorrectionsTypeOK' <=> /\ cert' \in [Certificate -> Written]
                         /\ request' \in [Request -> Asked]
                         /\ actor' \in [Actor -> Doing]
                         /\ unchecked' \subseteq Certificate
BY DEF CorrectionsTypeOK, Written, Asked, Doing

(* The invariant holds before the first certificate is written.           *)
LEMMA CorrectionsInitially == CorrectionsInit => CInv
<1> SUFFICES ASSUME CorrectionsInit
             PROVE  CInv
  OBVIOUS
<1>1. CorrectionsTypeOK
  BY CorrectionsAssumption
  DEF CorrectionsInit, CorrectionsTypeOK, Missing, NewRequest, Idle, Verdict
<1>2. Busy /\ AcceptanceHolds
  BY DEF CorrectionsInit, Busy, AcceptanceHolds, Idle, NewRequest
<1>3. AcceptedOnce
  BY CorrectionsAssumption DEF CorrectionsInit, AcceptedOnce, Missing
<1> QED
  BY <1>1, <1>2, <1>3 DEF CInv

(* Of the others, a write changes what is stale at most.                   *)
LEMMA WriteKeepsOthers ==
  ASSUME CInv, NEW a \in Actor, NEW c \in Certificate, NEW x \in Content,
         NEW status, NEW ids, NEW validated,
         Write(a, c, status, x, ids, validated), NEW b \in Actor, b # a
  PROVE  /\ actor'[b] \in Doing
         /\ actor'[b].at = actor[b].at /\ actor'[b].cert = actor[b].cert
         /\ actor'[b].content = actor[b].content /\ actor'[b].request = actor[b].request
         /\ actor'[b].verdict = actor[b].verdict
         /\ actor'[b].stale = (actor[b].stale \/ (status = "accepted" /\ actor[b].cert # c
                                 /\ actor[b].verdict = "accepted" /\ actor[b].content = x))
<1>1. /\ actor \in [Actor -> Doing] /\ actor[b] \in Doing
      /\ actor = [d \in Actor |-> actor[d]]
  BY Types DEF CInv
<1> DEFINE lost == actor[b].stale \/ (actor[b].cert # c /\ actor[b].verdict = "accepted"
                                        /\ actor[b].content = x)
<1>2. lost \in BOOLEAN
  BY <1>1 DEF Doing
<1>3. CASE status = "accepted"
  <2>1. actor'[b] = [actor[b] EXCEPT !.stale = lost]
    BY <1>3 DEF Write, Outdate
  <2> HIDE DEF lost
  <2>2. actor'[b] \in Doing /\ actor'[b].stale = lost
    BY <1>1, <1>2, <2>1 DEF Doing
  <2>3. /\ actor'[b].at = actor[b].at /\ actor'[b].cert = actor[b].cert
        /\ actor'[b].content = actor[b].content /\ actor'[b].request = actor[b].request
        /\ actor'[b].verdict = actor[b].verdict
    BY <1>1, <2>1 DEF Doing
  <2> QED
    BY <1>3, <2>2, <2>3 DEF lost
<1>4. CASE status # "accepted"
  <2>1. actor'[b] = actor[b]
    BY <1>1, <1>4 DEF Write
  <2> QED
    BY <1>1, <1>4, <2>1 DEF Doing
<1> QED
  BY <1>3, <1>4

(* What a write leaves: the ways to write a certificate share it.          *)
LEMMA WriteKeepsTypes ==
  ASSUME CInv, NEW a \in Actor, NEW c \in Certificate, NEW x \in Content,
         NEW status \in Verdict \cup {"absent", "gone"},
         NEW ids \in Certificate \cup {NoCertificate}, NEW validated \in BOOLEAN,
         actor[a].at # "idle", actor[a].cert = c, actor[a].content = x,
         Write(a, c, status, x, ids, validated)
  PROVE  /\ cert' \in [Certificate -> Written]
         /\ actor' \in [Actor -> Doing]
         /\ \/ actor'[a] = Idle
            \/ actor'[a].at = "matching" /\ actor'[a].cert = c /\ actor'[a].content = x
<1>1. /\ cert \in [Certificate -> Written] /\ actor \in [Actor -> Doing]
      /\ actor[a] \in Doing
  BY Types DEF CInv
<1>2. cert' \in [Certificate -> Written]
  <2> DEFINE new == [status |-> status, content |-> x, ids |-> ids]
  <2>1. new \in Written
    BY DEF Written
  <2>2. cert' = [cert EXCEPT ![c] = new]
    BY DEF Write
  <2> HIDE DEF new
  <2> QED
    BY <1>1, <2>1, <2>2
<1> DEFINE doing == IF validated /\ status = "accepted"
                      THEN [actor[a] EXCEPT !.at = "matching", !.stale = FALSE] ELSE Idle
<1>3. /\ doing \in Doing
      /\ \/ doing = Idle
         \/ doing.at = "matching" /\ doing.cert = c /\ doing.content = x
  BY <1>1 DEF Idle, Doing
<1>4. actor' = [b \in Actor |-> actor'[b]] /\ actor'[a] = doing
  <2>1. actor' = IF status = "accepted" THEN Outdate(a, c, x, doing)
                                        ELSE [actor EXCEPT ![a] = doing]
    BY DEF Write
  <2> HIDE DEF doing
  <2> QED
    BY <1>1, <2>1 DEF Outdate
<1> HIDE DEF doing
<1>5. \A b \in Actor : b # a => actor'[b] \in Doing
  BY WriteKeepsOthers
<1> QED
  BY <1>2, <1>3, <1>4, <1>5

(* A worker's write whose look at the others was the latest, or that says  *)
(* it was not, keeps what is said of accepted certificates; a correction   *)
(* takes the certificate out of what is said.                              *)
LEMMA WriteKeepsAcceptance ==
  ASSUME CInv, NEW a \in Actor, NEW c \in Certificate, NEW x \in Content,
         NEW status \in Verdict \cup {"absent", "gone"},
         NEW ids \in Certificate \cup {NoCertificate}, NEW validated \in BOOLEAN,
         actor[a].at # "idle", actor[a].cert = c, actor[a].content = x,
         Write(a, c, status, x, ids, validated), unchecked \subseteq unchecked',
         status = "accepted" /\ ids = NoCertificate /\ c \notin unchecked' =>
           ~Duplicated(c, x, NoCertificate)
  PROVE  AcceptanceHolds' /\ AcceptedOnce'
<1>1. /\ cert' = [cert EXCEPT ![c] = [status |-> status, content |-> x, ids |-> ids]]
      /\ DOMAIN cert = Certificate
  BY DEF Write, CInv, CorrectionsTypeOK, Doing, Asked, Written
<1>2. AcceptanceHolds'
  <2> SUFFICES ASSUME NEW b \in Actor,
                      actor'[b].at = "persisting",
                      actor'[b].verdict = "accepted", ~actor'[b].stale,
                      NEW d \in Certificate \ {actor'[b].cert},
                      cert'[d] = [status |-> "accepted", content |-> actor'[b].content,
                                  ids |-> NoCertificate]
               PROVE  FALSE
    BY DEF AcceptanceHolds, Duplicated
  <2>1. b # a
    BY WriteKeepsTypes DEF Idle
  <2>2. /\ actor'[b].at = actor[b].at /\ actor'[b].cert = actor[b].cert
        /\ actor'[b].content = actor[b].content /\ actor'[b].verdict = actor[b].verdict
        /\ ~actor[b].stale
        /\ ~(status = "accepted" /\ actor[b].cert # c /\ actor[b].content = x)
    <3>1. /\ actor'[b].at = actor[b].at /\ actor'[b].cert = actor[b].cert
          /\ actor'[b].content = actor[b].content /\ actor'[b].verdict = actor[b].verdict
          /\ actor'[b].stale = (actor[b].stale \/ (status = "accepted" /\ actor[b].cert # c
                                 /\ actor[b].verdict = "accepted" /\ actor[b].content = x))
      BY <2>1, WriteKeepsOthers
    <3> QED
      BY <3>1
  <2>3. ~Duplicated(actor[b].cert, actor[b].content, NoCertificate)
    BY <2>2 DEF CInv, AcceptanceHolds
  <2>4. CASE d = c
    BY <1>1, <2>2, <2>4
  <2>5. CASE d # c
    BY <1>1, <2>2, <2>3, <2>5 DEF Duplicated
  <2> QED
    BY <2>4, <2>5
<1>3. AcceptedOnce'
  <2> SUFFICES ASSUME NEW e \in Certificate \ unchecked', NEW d \in Certificate \ unchecked',
                      e # d, cert'[e].status = "accepted", cert'[e].ids = NoCertificate,
                      cert'[d] = cert'[e]
               PROVE  FALSE
    BY DEF AcceptedOnce
  <2>1. CASE e # c /\ d # c
    BY <1>1, <2>1 DEF CInv, AcceptedOnce
  <2>2. CASE e = c \/ d = c
    <3>1. /\ status = "accepted" /\ ids = NoCertificate /\ c \notin unchecked'
          /\ cert'[c] = [status |-> status, content |-> x, ids |-> ids]
      BY <1>1, <2>2
    <3>2. PICK g \in Certificate \ {c} : cert[g] = cert'[c]
      BY <1>1, <2>2
    <3> QED
      BY <3>1, <3>2 DEF Duplicated
  <2> QED
    BY <2>1, <2>2
<1> QED
  BY <1>2, <1>3

-----------------------------------------------------------------------------
(* A step of one actor that writes neither certificates nor requests.      *)
LEMMA ActorMoves ==
  ASSUME CInv, NEW a \in Actor, NEW new \in Doing,
         actor' = [actor EXCEPT ![a] = new], UNCHANGED <<cert, request, unchecked>>,
         new.at # "idle" =>
           /\ new.cert \in Certificate /\ new.content \in Content
           /\ new.at \in {"validating", "rejecting", "approving", "correcting"} =>
                new.request \in Request /\ request[new.request].status # "new"
           /\ new.at \in {"persisting", "approving"} => new.verdict \in Verdict,
         new.at = "persisting" /\ new.verdict = "accepted" =>
           ~Duplicated(new.cert, new.content, NoCertificate)
  PROVE  CInv'
<1>1. actor \in [Actor -> Doing]
  BY DEF CInv, CorrectionsTypeOK, Asked, Written, Doing
<1>2. /\ actor' \in [Actor -> Doing]
      /\ actor'[a] = new /\ \A b \in Actor \ {a} : actor'[b] = actor[b]
  BY <1>1
<1>3. CorrectionsTypeOK'
  BY <1>2 DEF CInv, CorrectionsTypeOK, Asked, Written, Doing
<1>4. Busy'
  BY <1>2 DEF CInv, Busy
<1>5. AcceptanceHolds'
  <2>1. \A d \in Certificate, y \in Content :
          Duplicated(d, y, NoCertificate)' <=> Duplicated(d, y, NoCertificate)
    BY DEF Duplicated
  <2>2. ASSUME NEW b \in Actor, actor'[b].at = "persisting",
               actor'[b].verdict = "accepted", ~actor'[b].stale
        PROVE  ~Duplicated(actor'[b].cert, actor'[b].content, NoCertificate)
    BY <1>2, <2>2 DEF CInv, AcceptanceHolds
  <2>3. ASSUME NEW b \in Actor, actor'[b].at = "persisting"
        PROVE  actor'[b].cert \in Certificate /\ actor'[b].content \in Content
    BY <1>4, <2>3 DEF Busy
  <2> QED
    BY <2>1, <2>2, <2>3 DEF AcceptanceHolds
<1>6. AcceptedOnce'
  BY DEF CInv, AcceptedOnce
<1> QED
  BY <1>3, <1>4, <1>5, <1>6 DEF CInv

(* A worker that has checked a certificate.                                *)
LEMMA CheckKeeps ==
  ASSUME CInv, NEW a \in Worker, NEW c \in Certificate, CheckCertificate(a, c)
  PROVE  CInv'
<1>1. PICK v \in VerdictsOn(c, Extracted[c], NoCertificate) :
        actor' = [actor EXCEPT ![a] = [Idle EXCEPT !.at = "persisting", !.cert = c,
                                         !.content = Extracted[c], !.verdict = v]]
  BY DEF CheckCertificate
<1>2. /\ a \in Actor /\ Extracted[c] \in Content
      /\ v \in Verdict /\ (v = "accepted" => ~Duplicated(c, Extracted[c], NoCertificate))
  BY CorrectionsAssumption DEF Actor, VerdictsOn, Verdict
<1> DEFINE new == [Idle EXCEPT !.at = "persisting", !.cert = c,
                               !.content = Extracted[c], !.verdict = v]
<1>3. /\ new \in Doing /\ new.at = "persisting" /\ new.cert = c
      /\ new.content = Extracted[c] /\ new.verdict = v
  BY <1>2 DEF Doing, Idle
<1>4. actor' = [actor EXCEPT ![a] = new] /\ UNCHANGED <<cert, request, unchecked>>
  BY <1>1 DEF CheckCertificate
<1> HIDE DEF new
<1> QED
  BY <1>2, <1>3, <1>4, ActorMoves

(* A user who has opened a request.                                        *)
LEMMA OpenKeeps ==
  ASSUME CInv, NEW a \in Server, NEW q \in Request,
         NEW step \in {"validating", "rejecting"}, OpenRequest(a, q, step)
  PROVE  CInv'
<1> DEFINE new == [Idle EXCEPT !.at = step, !.request = q, !.cert = request[q].cert,
                               !.content = request[q].content,
                               !.verdict = cert[request[q].cert].status]
<1>1. /\ actor' = [actor EXCEPT ![a] = new]
      /\ UNCHANGED <<cert, request, unchecked>> /\ request[q].status = "pending"
  BY DEF OpenRequest
<1>2. a \in Actor /\ request[q].cert \in Certificate /\ request[q].content \in Content
  BY <1>1 DEF CInv, Busy, Actor
<1>3. cert[request[q].cert].status \in Verdict \cup {"absent", "gone"}
  BY <1>2 DEF CInv, CorrectionsTypeOK, Doing, Asked, Written
<1>4. /\ new \in Doing /\ new.at = step /\ new.request = q
      /\ new.cert = request[q].cert /\ new.content = request[q].content
  BY <1>2, <1>3 DEF Doing, Idle
<1> HIDE DEF new
<1> QED
  BY <1>1, <1>2, <1>4, ActorMoves

(* A user whose correction is validated, or is not.                        *)
LEMMA ValidateKeeps ==
  ASSUME CInv, NEW a \in Server, ValidateCorrection(a)
  PROVE  CInv'
<1> DEFINE c == actor[a].cert
           x == actor[a].content
<1>1. /\ a \in Actor /\ UNCHANGED <<cert, request, unchecked>>
      /\ actor[a].at = "validating"
  BY DEF ValidateCorrection, Actor
<1>2. /\ c \in Certificate /\ x \in Content
      /\ actor[a].request \in Request /\ request[actor[a].request].status # "new"
  BY <1>1 DEF CInv, Busy
<1>3. /\ actor \in [Actor -> Doing]
      /\ actor[a] \in Doing
  BY <1>1 DEF CInv, CorrectionsTypeOK, Asked, Written, Doing
<1>4. CASE Revalidates(a)
  <2>1. PICK v \in VerdictsOn(c, x, c) :
          actor' = [actor EXCEPT ![a].at = "approving", ![a].verdict = v]
    BY <1>4 DEF ValidateCorrection
  <2>2. v \in Verdict
    BY DEF VerdictsOn, Verdict
  <2> DEFINE new == [actor[a] EXCEPT !.at = "approving", !.verdict = v]
  <2>3. actor' = [actor EXCEPT ![a] = new]
    BY <1>1, <1>3, <2>1
  <2>4. /\ new \in Doing /\ new.at = "approving" /\ new.cert = c /\ new.content = x
        /\ new.verdict = v /\ new.request = actor[a].request
    BY <1>1, <1>3, <2>2 DEF Doing
  <2> HIDE DEF new, c, x
  <2> QED
    BY <1>1, <1>2, <2>2, <2>3, <2>4, ActorMoves
<1>5. CASE ~Revalidates(a)
  <2> DEFINE new == [actor[a] EXCEPT !.at = "correcting"]
  <2>1. actor' = [actor EXCEPT ![a] = new]
    BY <1>5 DEF ValidateCorrection
  <2>2. /\ new \in Doing /\ new.at = "correcting" /\ new.cert = c /\ new.content = x
        /\ new.request = actor[a].request
    BY <1>1, <1>3 DEF Doing
  <2> HIDE DEF new, c, x
  <2> QED
    BY <1>1, <1>2, <2>1, <2>2, ActorMoves
<1> QED
  BY <1>4, <1>5

(* An actor that stops what it is at.                                      *)
LEMMA LeaveKeeps ==
  ASSUME CInv, NEW a \in Actor, Leave(a)
  PROVE  CInv'
<1>1. Idle \in Doing /\ Idle.at = "idle"
  BY DEF Idle, Doing
<1> QED
  BY <1>1, ActorMoves DEF Leave

-----------------------------------------------------------------------------
(* Steps on requests.                                                      *)
LEMMA RequestKeeps ==
  ASSUME CInv, NEW q \in Request, NEW c \in Certificate, NEW x \in Content,
         NEW identity \in BOOLEAN, CreateRequest(q, c, x, identity)
  PROVE  CInv'
<1>1. /\ request' = [request EXCEPT ![q] = [status |-> "pending", cert |-> c,
                                            content |-> x, identity |-> identity]]
      /\ UNCHANGED <<cert, actor, unchecked>>
  BY DEF CreateRequest
<1>2. CorrectionsTypeOK'
  BY <1>1 DEF CInv, CorrectionsTypeOK, Doing, Asked, Written
<1>3. Busy'
  BY <1>1 DEF CInv, CorrectionsTypeOK, Doing, Asked, Written, Busy
<1>4. AcceptanceHolds' /\ AcceptedOnce'
  BY <1>1 DEF CInv, AcceptanceHolds, AcceptedOnce, Duplicated
<1> QED
  BY <1>2, <1>3, <1>4 DEF CInv

(* A decision leaves what was asked for.                                   *)
LEMMA DecisionKeepsTypes ==
  ASSUME CInv, NEW a \in Actor, actor[a].request \in Request,
         NEW decision \in {"approved", "rejected"}, Decide(a, decision),
         request[actor[a].request].status # "new"
  PROVE  /\ request' \in [Request -> Asked]
         /\ \A q \in Request : request'[q].status # "new" =>
              request'[q].cert \in Certificate /\ request'[q].content \in Content
<1> USE DEF CInv, CorrectionsTypeOK, Doing, Asked, Written
<1> DEFINE p == actor[a].request
           new == [request[p] EXCEPT !.status = decision]
<1>1. request \in [Request -> Asked]
  OBVIOUS
<1>2. /\ new \in Asked /\ new.cert = request[p].cert /\ new.content = request[p].content
      /\ request[p].cert \in Certificate /\ request[p].content \in Content
  BY <1>1 DEF Busy
<1>3. request' = [request EXCEPT ![p] = new]
  BY DEF Decide
<1> HIDE DEF new
<1>4. /\ request' \in [Request -> Asked] /\ request'[p] = new
      /\ \A q \in Request \ {p} : request'[q] = request[q]
  BY <1>1, <1>2, <1>3
<1>5. \A q \in Request : request'[q].status # "new" =>
        request'[q].cert \in Certificate /\ request'[q].content \in Content
  BY <1>2, <1>4 DEF Busy
<1> QED
  BY <1>4, <1>5

-----------------------------------------------------------------------------
(* Steps that write a certificate: what is left of Busy.                   *)
LEMMA WriteKeepsBusy ==
  ASSUME CInv, NEW a \in Actor, NEW c \in Certificate, NEW x \in Content,
         NEW status \in Verdict \cup {"absent", "gone"},
         NEW ids \in Certificate \cup {NoCertificate}, NEW validated \in BOOLEAN,
         actor[a].at # "idle", actor[a].cert = c, actor[a].content = x,
         Write(a, c, status, x, ids, validated),
         \A q \in Request : request[q].status # "new" => request'[q].status # "new",
         \A q \in Request : request'[q].status # "new" =>
           request'[q].cert \in Certificate /\ request'[q].content \in Content
  PROVE  Busy'
<1>1. ASSUME NEW b \in Actor, actor'[b].at # "idle"
      PROVE  /\ actor'[b].cert \in Certificate /\ actor'[b].content \in Content
             /\ actor'[b].at \in {"validating", "rejecting", "approving", "correcting"} =>
                  actor'[b].request \in Request /\ request'[actor'[b].request].status # "new"
             /\ actor'[b].at \in {"persisting", "approving"} => actor'[b].verdict \in Verdict
  <2>1. CASE b = a
    BY <1>1, <2>1, WriteKeepsTypes DEF Idle
  <2>2. CASE b # a
    <3>1. /\ actor'[b].at = actor[b].at /\ actor'[b].cert = actor[b].cert
          /\ actor'[b].content = actor[b].content /\ actor'[b].request = actor[b].request
          /\ actor'[b].verdict = actor[b].verdict
      BY <2>2, WriteKeepsOthers
    <3>2. actor[b].at # "idle" /\ Busy
      BY <1>1, <3>1 DEF CInv
    <3>3. /\ actor[b].cert \in Certificate /\ actor[b].content \in Content
          /\ actor[b].at \in {"validating", "rejecting", "approving", "correcting"} =>
               actor[b].request \in Request /\ request[actor[b].request].status # "new"
          /\ actor[b].at \in {"persisting", "approving"} => actor[b].verdict \in Verdict
      BY <3>2 DEF Busy
    <3> QED
      BY <3>1, <3>3
  <2> QED
    BY <2>1, <2>2
<1> QED
  BY <1>1 DEF Busy

(* The worker's result is persisted.                                       *)
LEMMA PersistKeeps ==
  ASSUME CInv, NEW a \in Worker, PersistCertificate(a)
  PROVE  CInv'
<1> DEFINE c == actor[a].cert
           x == actor[a].content
           v == actor[a].verdict
<1>1. /\ a \in Actor /\ actor[a].at = "persisting"
      /\ Write(a, c, v, x, NoCertificate, TRUE)
      /\ unchecked' = IF actor[a].stale THEN unchecked \cup {c} ELSE unchecked
      /\ UNCHANGED request
  BY DEF PersistCertificate, Actor
<1>2. c \in Certificate /\ x \in Content /\ v \in Verdict \cup {"absent", "gone"}
  BY <1>1 DEF CInv, Busy
<1>3. v = "accepted" /\ c \notin unchecked' => ~Duplicated(c, x, NoCertificate)
  BY <1>1 DEF CInv, AcceptanceHolds
<1>4. unchecked \subseteq unchecked' /\ unchecked' \subseteq Certificate
  BY <1>1, <1>2 DEF CInv, CorrectionsTypeOK, Doing, Asked, Written
<1> HIDE DEF c, x, v
<1>5. actor[a].cert = c /\ actor[a].content = x
  BY DEF c, x
<1>6. AcceptanceHolds' /\ AcceptedOnce'
  BY <1>1, <1>2, <1>3, <1>4, <1>5, WriteKeepsAcceptance
<1>7. \A q \in Request : request[q].status # "new" =>
        request[q].cert \in Certificate /\ request[q].content \in Content
  BY DEF CInv, Busy
<1>8. Busy'
  BY <1>1, <1>2, <1>5, <1>7, WriteKeepsBusy
<1>9. CorrectionsTypeOK'
  BY <1>1, <1>2, <1>4, <1>5, WriteKeepsTypes DEF CInv, CorrectionsTypeOK, Doing, Asked, Written
<1> QED
  BY <1>6, <1>8, <1>9 DEF CInv

(* A correction is approved, with a verdict of its own or the one it had.  *)
LEMMA ApproveKeeps ==
  ASSUME CInv, NEW a \in Server, Approve(a) \/ ApproveUnvalidated(a)
  PROVE  CInv'
<1> DEFINE c == actor[a].cert
           x == actor[a].content
<1>1. /\ a \in Actor /\ actor[a].at \in {"approving", "correcting"}
      /\ Decide(a, "approved") /\ UNCHANGED unchecked
  BY DEF Approve, ApproveUnvalidated, Actor
<1>2. /\ c \in Certificate /\ x \in Content /\ c # NoCertificate
      /\ actor[a].request \in Request /\ request[actor[a].request].status # "new"
  BY <1>1, CorrectionsAssumption DEF CInv, Busy
<1>3. PICK status \in Verdict \cup {"absent", "gone"}, validated \in BOOLEAN :
        Write(a, c, status, x, c, validated)
  <2>1. CASE Approve(a)
    <3>1. actor[a].verdict \in Verdict
      BY <1>1, <2>1 DEF CInv, Busy, Approve
    <3> QED
      BY <2>1, <3>1 DEF Approve
  <2>2. CASE ApproveUnvalidated(a)
    <3>1. cert[c].status \in Verdict \cup {"absent", "gone"}
      BY <1>2 DEF CInv, CorrectionsTypeOK, Doing, Asked, Written
    <3> QED
      BY <2>2, <3>1 DEF ApproveUnvalidated
  <2> QED
    BY <2>1, <2>2
<1>4. /\ request' \in [Request -> Asked]
      /\ \A q \in Request : request'[q].status # "new" =>
           request'[q].cert \in Certificate /\ request'[q].content \in Content
  BY <1>1, <1>2, DecisionKeepsTypes
<1>5. \A q \in Request : request[q].status # "new" => request'[q].status # "new"
  BY <1>1, <1>2 DEF CInv, CorrectionsTypeOK, Doing, Asked, Written, Decide
<1> HIDE DEF c, x
<1>6. actor[a].cert = c /\ actor[a].content = x /\ actor[a].at # "idle"
  BY <1>1 DEF c, x
<1>7. AcceptanceHolds' /\ AcceptedOnce'
  BY <1>1, <1>2, <1>3, <1>6, WriteKeepsAcceptance
<1>8. PICK ids \in Certificate \cup {NoCertificate} :
        Write(a, c, status, x, ids, validated)
  BY <1>2, <1>3
<1>9. Busy'
  BY <1>1, <1>2, <1>4, <1>5, <1>6, <1>8, WriteKeepsBusy
<1>10. CorrectionsTypeOK'
  <2>1. /\ cert' \in [Certificate -> Written]
        /\ actor' \in [Actor -> Doing]
    BY <1>1, <1>2, <1>6, <1>8, WriteKeepsTypes DEF Doing
  <2> QED
    BY <1>1, <1>4, <2>1 DEF CInv, CorrectionsTypeOK, Asked, Written, Doing
<1> QED
  BY <1>7, <1>9, <1>10 DEF CInv

(* A correction is rejected.                                               *)
LEMMA RejectKeeps ==
  ASSUME CInv, NEW a \in Server, Reject(a)
  PROVE  CInv'
<1>1. /\ a \in Actor /\ actor[a].at = "rejecting" /\ Decide(a, "rejected")
      /\ actor' = [actor EXCEPT ![a] = Idle] /\ UNCHANGED <<cert, unchecked>>
  BY DEF Reject, Actor
<1>2. actor[a].request \in Request /\ request[actor[a].request].status # "new"
  BY <1>1 DEF CInv, Busy
<1>3. /\ request' \in [Request -> Asked]
      /\ \A q \in Request : request'[q].status # "new" =>
           request'[q].cert \in Certificate /\ request'[q].content \in Content
  BY <1>1, <1>2, DecisionKeepsTypes
<1>4. \A q \in Request : request[q].status # "new" => request'[q].status # "new"
  BY <1>1, <1>2 DEF CInv, CorrectionsTypeOK, Doing, Asked, Written, Decide
<1>5. /\ actor \in [Actor -> Doing] /\ Idle \in Doing /\ Idle.at = "idle"
  BY DEF CInv, CorrectionsTypeOK, Asked, Written, Doing, Idle
<1>6. /\ actor' \in [Actor -> Doing]
      /\ actor'[a].at = "idle" /\ \A b \in Actor \ {a} : actor'[b] = actor[b]
  BY <1>1, <1>5
<1>7. CorrectionsTypeOK'
  BY <1>1, <1>3, <1>6 DEF CInv, CorrectionsTypeOK, Asked, Written, Doing
<1>8. Busy'
  BY <1>3, <1>4, <1>6 DEF CInv, Busy
<1>9. AcceptanceHolds' /\ AcceptedOnce'
  BY <1>1, <1>6 DEF CInv, AcceptanceHolds, AcceptedOnce, Duplicated
<1> QED
  BY <1>7, <1>8, <1>9 DEF CInv

(* A file or the batch is purged.                                          *)
LEMMA DeletionKeeps ==
  ASSUME CInv, NEW d \in Deletion, DeleteCertificates(d)
  PROVE  CInv'
<1>1. /\ cert' = [c \in Certificate |-> IF c \in d THEN Gone ELSE cert[c]]
      /\ request' = [q \in Request |->
                       IF request[q].status # "new" /\ request[q].cert \in d
                         THEN [request[q] EXCEPT !.status = "gone"] ELSE request[q]]
      /\ UNCHANGED <<actor, unchecked>>
  BY DEF DeleteCertificates
<1>2. /\ cert \in [Certificate -> Written] /\ request \in [Request -> Asked]
      /\ Gone \in Written /\ Gone.status = "gone"
  BY DEF CInv, CorrectionsTypeOK, Doing, Asked, Written, Gone, Missing
<1>3. cert' \in [Certificate -> Written]
  BY <1>1, <1>2
<1>4. ASSUME NEW q \in Request
      PROVE  /\ request'[q] \in Asked /\ request'[q].cert = request[q].cert
             /\ request'[q].content = request[q].content
             /\ (request'[q].status = "new" <=> request[q].status = "new")
  BY <1>1, <1>2 DEF Asked
<1>5. request' \in [Request -> Asked]
  <2>1. request' = [q \in Request |-> request'[q]]
    BY <1>1
  <2> QED
    BY <1>4, <2>1
<1>6. CorrectionsTypeOK'
  BY <1>1, <1>3, <1>5 DEF CInv, CorrectionsTypeOK, Doing, Asked, Written
<1>7. Busy'
  BY <1>1, <1>4 DEF CInv, Busy
<1>8. \A c \in Certificate : cert'[c].status = "accepted" => cert'[c] = cert[c]
  BY <1>1, <1>2
<1>9. AcceptanceHolds'
  BY <1>1, <1>8 DEF CInv, AcceptanceHolds, Duplicated
<1>10. AcceptedOnce'
  BY <1>1, <1>8 DEF CInv, AcceptedOnce
<1> QED
  BY <1>6, <1>7, <1>9, <1>10 DEF CInv

-----------------------------------------------------------------------------
(* Every step of a worker, a request or a processor keeps it.              *)
LEMMA CorrectionsKeep == CInv /\ [CorrectionsNext]_correctionVars => CInv'
<1> SUFFICES ASSUME CInv, [CorrectionsNext]_correctionVars
             PROVE  CInv'
  OBVIOUS
<1>1. ASSUME NEW q \in Request, NEW c \in Certificate, NEW x \in Content,
             NEW identity \in BOOLEAN, CreateRequest(q, c, x, identity)
      PROVE  CInv'
  BY <1>1, RequestKeeps
<1>2. ASSUME NEW a \in Worker, NEW c \in Certificate, CheckCertificate(a, c)
      PROVE  CInv'
  BY <1>2, CheckKeeps
<1>3. ASSUME NEW a \in Worker, PersistCertificate(a)
      PROVE  CInv'
  BY <1>3, PersistKeeps
<1>4. ASSUME NEW a \in Server, NEW q \in Request, NEW step \in {"validating", "rejecting"},
             OpenRequest(a, q, step)
      PROVE  CInv'
  BY <1>4, OpenKeeps
<1>5. ASSUME NEW a \in Server, ValidateCorrection(a)
      PROVE  CInv'
  BY <1>5, ValidateKeeps
<1>6. ASSUME NEW a \in Server, Approve(a) \/ ApproveUnvalidated(a)
      PROVE  CInv'
  BY <1>6, ApproveKeeps
<1>7. ASSUME NEW a \in Server, Reject(a)
      PROVE  CInv'
  BY <1>7, RejectKeeps
<1>8. ASSUME NEW a \in Actor, Leave(a)
      PROVE  CInv'
  BY <1>8, LeaveKeeps
<1>9. ASSUME NEW d \in Deletion, DeleteCertificates(d)
      PROVE  CInv'
  BY <1>9, DeletionKeeps
<1>10. CASE UNCHANGED correctionVars
  BY <1>10 DEF correctionVars, CInv, CorrectionsTypeOK, Doing, Asked, Written, Busy, AcceptanceHolds, AcceptedOnce,
              Duplicated
<1> QED
  BY <1>1, <1>2, <1>3, <1>4, <1>5, <1>6, <1>7, <1>8, <1>9, <1>10
  DEF CorrectionsNext, CorrectionStep

(* Types, what an actor holds, its acceptances, and AcceptedOnce together. *)
THEOREM CorrectionsInv == CorrectionsSpec => []CInv
<1> QED
  BY CorrectionsInitially, CorrectionsKeep, PTL DEF CorrectionsSpec
=============================================================================
