------------------------ MODULE ClientAccess_proofs ------------------------
(***************************************************************************)
(* Proofs about ClientAccess: a revoked credential is refused, the newest  *)
(* one is honoured, and a vendor's request is taken for that vendor's and  *)
(* nobody else's, for any number of clients, replicas and vendors.         *)
(***************************************************************************)
EXTENDS ClientAccess, WellFoundedInduction, TLAPS

-----------------------------------------------------------------------------
(* The greatest and the least of some places of a sequence                 *)

\* A set of places has a least one.
LEMMA MinOfPlaces ==
    ASSUME NEW S, S \subseteq Nat, S # {}
    PROVE  Min(S) \in S /\ \A j \in S : Min(S) =< j
<1>1. PICK i \in S : \A j \in S : ~(<<j, i>> \in OpToRel(<, Nat))
  BY NatLessThanWellFounded, WFMin, Zenon
<1>2. \A j \in S : ~(j < i)
  BY <1>1, Zenon DEF OpToRel
<1>3. \A j \in S : i =< j
  BY <1>2
<1> QED
  BY <1>3 DEF Min

\* A set of places has a greatest one: the one least far from the end.
LEMMA MaxOfPlaces ==
    ASSUME NEW n \in Nat, NEW S, S \subseteq 1 .. n, S # {}
    PROVE  Max(S) \in S /\ \A j \in S : Max(S) >= j
<1> DEFINE Far == {n - i : i \in S}
<1>1. Far \subseteq Nat /\ Far # {}
  <2>1. \A i \in S : n - i \in Nat
    OBVIOUS
  <2> QED
    BY <2>1
<1>2. Min(Far) \in Far /\ \A j \in Far : Min(Far) =< j
  BY <1>1, MinOfPlaces
<1>3. PICK i \in S : Min(Far) = n - i
  BY <1>2
<1>4. \A j \in S : i >= j
  <2> TAKE j \in S
  <2>1. n - i =< n - j
    BY <1>2, <1>3
  <2> QED
    BY <2>1
<1> QED
  BY <1>4 DEF Max

-----------------------------------------------------------------------------
(* Credentials                                                             *)

\* What a sequence of rows is.
LEMMA RowsOfSeq ==
    ASSUME NEW Row, NEW rows \in Seq(Row)
    PROVE  /\ Len(rows) \in Nat /\ DOMAIN rows = 1 .. Len(rows)
           /\ \A i \in DOMAIN rows : rows[i] \in Row
OBVIOUS

\* The credential the queries return is the latest active one, and the latest
\* active one is the credential they return.
LEMMA NewestIsLatest ==
    ASSUME NEW T, None \notin T, NEW creds \in Seq([id: T, active: BOOLEAN])
    PROVE  /\ NewestActive(creds) # None => Latest(creds, NewestActive(creds))
           /\ \A id : Latest(creds, id) => NewestActive(creds) = id
           /\ NewestActive(creds) \in T \cup {None}
<1> DEFINE active == {i \in DOMAIN creds : creds[i].active}
<1>1. Len(creds) \in Nat /\ DOMAIN creds = 1 .. Len(creds)
      /\ \A i \in DOMAIN creds : creds[i] \in [id: T, active: BOOLEAN]
  BY RowsOfSeq
<1>2. CASE active = {}
  BY <1>1, <1>2 DEF NewestActive, Latest
<1>3. CASE active # {}
  <2>1. Max(active) \in active /\ \A j \in active : Max(active) >= j
    BY <1>1, <1>3, MaxOfPlaces
  <2>2. NewestActive(creds) = creds[Max(active)].id
    BY <1>3 DEF NewestActive
  <2> HIDE DEF active
  <2>3. \A j \in DOMAIN creds : j > Max(active) => ~creds[j].active
    <3> SUFFICES ASSUME NEW j \in DOMAIN creds, j > Max(active), creds[j].active
                 PROVE  FALSE
      OBVIOUS
    <3>1. j \in active /\ Max(active) \in DOMAIN creds
      BY <2>1 DEF active
    <3> QED
      BY <1>1, <2>1, <3>1
  <2>4. Latest(creds, creds[Max(active)].id)
    BY <2>1, <2>3 DEF Latest, active
  <2>5. ASSUME NEW id, Latest(creds, id)
        PROVE  creds[Max(active)].id = id
    <3>1. PICK i \in DOMAIN creds :
              /\ creds[i].id = id /\ creds[i].active
              /\ \A j \in DOMAIN creds : j > i => ~creds[j].active
      BY <2>5 DEF Latest
    <3>2. i \in active /\ Max(active) \in DOMAIN creds /\ creds[Max(active)].active
      BY <2>1, <3>1 DEF active
    <3>3. i = Max(active)
      BY <1>1, <2>1, <3>1, <3>2
    <3> QED
      BY <3>1, <3>3
  <2>6. creds[Max(active)].id \in T
    BY <1>1, <2>1 DEF active
  <2> QED
    BY <2>2, <2>4, <2>5, <2>6
<1> QED
  BY <1>2, <1>3

\* What is revoked is not the latest active.
LEMMA RevokedIsNotLatest ==
    ASSUME NEW creds, NEW id, IsRevoked(creds, id)
    PROVE  ~Latest(creds, id)
BY DEF IsRevoked, Latest

\* The ids of a sequence of credentials differ.
Distinct(creds) == \A i, j \in DOMAIN creds : creds[i].id = creds[j].id => i = j

\* A credential whose id is not on file is added: ids still differ, and what
\* was revoked still is.
LEMMA AddedCredential ==
    ASSUME NEW T, NEW creds \in Seq([id: T, active: BOOLEAN]), NEW id \in T,
           id \notin OnFile(creds)
    PROVE  LET added == Append(creds, [id |-> id, active |-> TRUE])
           IN  /\ added \in Seq([id: T, active: BOOLEAN])
               /\ Distinct(creds) => Distinct(added)
               /\ \A old : IsRevoked(creds, old) => IsRevoked(added, old)
<1> DEFINE added == Append(creds, [id |-> id, active |-> TRUE])
<1>1. /\ added \in Seq([id: T, active: BOOLEAN])
      /\ Len(creds) \in Nat /\ DOMAIN creds = 1 .. Len(creds)
      /\ DOMAIN added = 1 .. Len(creds) + 1
      /\ \A i \in DOMAIN creds : added[i] = creds[i]
      /\ added[Len(creds) + 1] = [id |-> id, active |-> TRUE]
  OBVIOUS
<1> HIDE DEF added
<1>2. \A i \in DOMAIN added : i \in DOMAIN creds \/ i = Len(creds) + 1
  BY <1>1
<1>3. \A i \in DOMAIN creds : creds[i].id # id
  BY DEF OnFile
<1>4. Distinct(creds) => Distinct(added)
  BY <1>1, <1>2, <1>3 DEF Distinct
<1>5. ASSUME NEW old, IsRevoked(creds, old)
      PROVE  IsRevoked(added, old)
  <2>1. old # id
    BY <1>5 DEF IsRevoked
  <2>2. old \in OnFile(added)
    BY <1>1, <1>5 DEF IsRevoked, OnFile
  <2> QED
    BY <1>1, <1>2, <1>5, <2>1, <2>2 DEF IsRevoked
<1> QED
  BY <1>1, <1>4, <1>5 DEF added

\* A credential is revoked: ids still differ, and what was revoked still is.
LEMMA RevokedCredential ==
    ASSUME NEW T, NEW creds \in Seq([id: T, active: BOOLEAN]), NEW id
    PROVE  /\ Revoked(creds, id) \in Seq([id: T, active: BOOLEAN])
           /\ Distinct(creds) => Distinct(Revoked(creds, id))
           /\ creds # << >> <=> Revoked(creds, id) # << >>
           /\ \A old : IsRevoked(creds, old) => IsRevoked(Revoked(creds, id), old)
<1>1. Len(creds) \in Nat /\ DOMAIN creds = 1 .. Len(creds)
      /\ \A i \in DOMAIN creds : creds[i] \in [id: T, active: BOOLEAN]
  BY RowsOfSeq
<1>2. /\ DOMAIN Revoked(creds, id) = 1 .. Len(creds)
      /\ \A i \in DOMAIN creds :
             /\ Revoked(creds, id)[i] \in [id: T, active: BOOLEAN]
             /\ Revoked(creds, id)[i].id = creds[i].id
             /\ ~creds[i].active => ~Revoked(creds, id)[i].active
  BY <1>1 DEF Revoked
<1>3. Revoked(creds, id) = [i \in 1 .. Len(creds) |-> Revoked(creds, id)[i]]
  BY <1>1 DEF Revoked
<1>4. Revoked(creds, id) \in Seq([id: T, active: BOOLEAN])
  BY <1>1, <1>2, <1>3
<1>5. creds # << >> <=> Revoked(creds, id) # << >>
  BY <1>1, <1>2, <1>4
<1>6. Distinct(creds) => Distinct(Revoked(creds, id))
  BY <1>1, <1>2 DEF Distinct
<1>7. \A old : IsRevoked(creds, old) => IsRevoked(Revoked(creds, id), old)
  BY <1>1, <1>2 DEF IsRevoked, OnFile
<1> QED
  BY <1>4, <1>5, <1>6, <1>7

-----------------------------------------------------------------------------
(* Vendors                                                                 *)

\* A vendor's verdict is a rejection or "ok".
LEMMA VerdictIsKnown ==
    ASSUME NEW p, NEW h, NEW t, NEW v
    PROVE  AuthenticateVendor(p, h, t, v) \in Rejections \cup {"ok"}
<1>1. \A value, allowed :
        /\ PinnedHeader(value, allowed, "unknownChannel") \in Rejections \cup {"ok"}
        /\ PinnedHeader(value, allowed, "unknownClient") \in Rejections \cup {"ok"}
  BY DEF PinnedHeader, Rejections
<1>2. ExternalId(h, v) \in Rejections \cup {"ok"}
  BY DEF ExternalId, Rejections
<1>3. ValidateSNAPHeaders(h, v) \in Rejections \cup {"ok"}
  <2>1. "missing" \in Rejections
    BY DEF Rejections
  <2> QED
    BY <1>1, <1>2, <2>1 DEF ValidateSNAPHeaders
<1>4. ValidateTimestamp(h) \in Rejections \cup {"ok"}
  BY DEF ValidateTimestamp, Rejections
<1>5. ResolveAccessToken(p, t, v) \in Rejections \cup {"ok"}
  BY DEF ResolveAccessToken, Rejections
<1>6. "signature" \in Rejections
  BY DEF Rejections
<1> QED
  BY <1>3, <1>4, <1>5, <1>6 DEF AuthenticateVendor

\* A request that vendor v's checks let pass was signed with v's secret, and
\* with a token that names v's client where v has one.
LEMMA VerifiedIsSigned ==
    ASSUME NEW p, NEW h, NEW t, NEW v, AuthenticateVendor(p, h, t, v) = "ok"
    PROVE  /\ h.signature.secret = v.name
           /\ v.client # None => /\ ValidateToken(p, t) /\ t.client = v.client
                                 /\ h.signature.token = "sent"
<1>1. ResolveAccessToken(p, t, v) = "ok" /\ SignatureVerifies(h, v)
  BY DEF AuthenticateVendor
<1>2. h.signature.secret = v.name /\ (v.client # None => h.signature.token = "sent")
  BY <1>1 DEF SignatureVerifies, Signed, Bound
<1>3. v.client # None => ValidateToken(p, t) /\ t.client = v.client
  BY <1>1 DEF ResolveAccessToken
<1> QED
  BY <1>2, <1>3

\* A request as v is to send it, with a token of v's client that this process
\* honours where v has one, passes v's checks.
LEMMA GenuineIsVerified ==
    ASSUME NEW p, NEW h \in VendorHeaders, NEW t, NEW v \in Vendors, GenuineHeaders(h, v),
           v.client # None => ValidateToken(p, t) /\ t.client = v.client
    PROVE  AuthenticateVendor(p, h, t, v) = "ok" /\ Claims(h, v)
<1>1. ValidateSNAPHeaders(h, v) = "ok" /\ ValidateTimestamp(h) = "ok"
  BY DEF GenuineHeaders
<1>2. ResolveAccessToken(p, t, v) = "ok"
  <2>1. CASE v.client = None
    BY <2>1 DEF ResolveAccessToken
  <2>2. CASE v.client # None
    BY <2>2 DEF ResolveAccessToken, ValidateToken
  <2> QED
    BY <2>1, <2>2
<1>3. SignatureVerifies(h, v)
  BY SignatureAssumption DEF SignatureVerifies, GenuineHeaders, Signed, Bound
<1>4. /\ PinnedHeader(h.channel, v.channel, "unknownChannel") = "ok"
      /\ PinnedHeader(h.partner, v.partner, "unknownClient") = "ok"
  BY <1>1 DEF ValidateSNAPHeaders
<1>5. Claims(h, v)
  BY <1>4 DEF PinnedHeader, Claims
<1> QED
  BY <1>1, <1>2, <1>3, <1>5 DEF AuthenticateVendor

\* The middleware's answer is a rejection, when no candidate's checks let the
\* request pass, or the name of one whose checks did.
LEMMA AnswerOfMiddleware ==
    ASSUME NEW p, NEW h, NEW t
    PROVE  \/ /\ MultiVendorSNAPAuth(p, h, t) \in Rejections
              /\ \A v \in Vendors : Claims(h, v) => AuthenticateVendor(p, h, t, v) # "ok"
           \/ \E v \in Vendors : /\ AuthenticateVendor(p, h, t, v) = "ok"
                                 /\ MultiVendorSNAPAuth(p, h, t) = v.name
<1> DEFINE verdict(i) == AuthenticateVendor(p, h, t, VendorConfigs[i])
           candidates == CandidateVendors(h)
           verified == {i \in candidates : verdict(i) = "ok"}
<1>1. DOMAIN VendorConfigs = 1 .. Len(VendorConfigs) /\ DOMAIN VendorConfigs # {}
  BY VendorAssumption
<1>2. /\ candidates \subseteq DOMAIN VendorConfigs /\ candidates # {}
      /\ \A i \in DOMAIN VendorConfigs :
             Claims(h, VendorConfigs[i]) => i \in candidates
  BY <1>1 DEF CandidateVendors
<1>3. MultiVendorSNAPAuth(p, h, t) = IF verified # {} THEN VendorConfigs[Min(verified)].name
                                     ELSE verdict(Min(candidates))
  BY DEF MultiVendorSNAPAuth
<1> HIDE DEF candidates
<1>4. CASE verified # {}
  <2>1. Min(verified) \in verified
    BY <1>1, <1>2, <1>4, MinOfPlaces
  <2>2. VendorConfigs[Min(verified)] \in Vendors
    BY <1>2, <2>1 DEF Vendors
  <2> QED
    BY <1>3, <1>4, <2>1, <2>2
<1>5. CASE verified = {}
  <2>1. Min(candidates) \in candidates
    BY <1>1, <1>2, MinOfPlaces
  <2>2. verdict(Min(candidates)) # "ok"
    BY <1>5, <2>1
  <2>3. verdict(Min(candidates)) \in Rejections
    BY <2>2, VerdictIsKnown
  <2>4. \A v \in Vendors : Claims(h, v) => AuthenticateVendor(p, h, t, v) # "ok"
    BY <1>2, <1>5 DEF Vendors
  <2> QED
    BY <1>3, <1>5, <2>3, <2>4
<1> QED
  BY <1>4, <1>5

-----------------------------------------------------------------------------
(* The inductive invariant                                                 *)

\* What a request carries at each stage.
RequestInHand ==
    /\ req.pc # "idle" => req.proc \in Processes /\ req.client \in Clients
    /\ req.pc \in {"app", "key"} => req.by \in Keys /\ req.token = None /\ req.head = None
    /\ req.pc \in {"token", "secret"} => req.by \in Secrets /\ req.token # None /\ req.head = None
    /\ req.pc = "vendor" => req.head \in VendorHeaders /\ ~req.dead

\* A token names the client that holds it.
TokenIsOwn ==
    /\ \A c \in Clients : tok[c] # None => tok[c].client = c
    /\ req.token # None => req.token.client = req.client

\* What had been revoked when the request began stays revoked while it is
\* served.
DeadStaysRevoked ==
    /\ req.dead /\ req.pc \in {"app", "key"} => IsRevoked(keys[req.client], req.by)
    /\ req.dead /\ req.pc \in {"token", "secret"} => IsRevoked(secrets[req.client], req.by)

\* A request that was in order, and is left alone, stays in order.
GoodStaysGood ==
    /\ req.good /\ req.pc = "app" => req.time = "fresh" /\ apps[req.client] = "ACTIVE"
    /\ req.good /\ req.pc \in {"app", "key"} => Latest(keys[req.client], req.by)
    /\ req.good /\ req.pc \in {"token", "secret"} =>
           req.time = "fresh" /\ req.hash = "hex" /\ Latest(secrets[req.client], req.by)
    /\ req.good /\ req.pc \in {"token", "vendor"} => ValidateToken(req.proc, req.token)

IInv == TypeOK /\ RequestInHand /\ TokenIsOwn

\* What an operator's step leaves of the request.
LEMMA DisturbedRequest ==
    ASSUME TypeOK, NEW c, req' = Disturbed(c)
    PROVE  /\ req' \in Request
           /\ req'.pc = req.pc /\ req'.proc = req.proc /\ req'.client = req.client
           /\ req'.time = req.time /\ req'.by = req.by /\ req'.token = req.token
           /\ req'.hash = req.hash /\ req'.head = req.head /\ req'.dead = req.dead
           /\ req'.answer = req.answer
           /\ req'.good => req.good /\ req.client # c
<1> DEFINE good == req.good /\ req.client # c
<1>1. req \in Request /\ good \in BOOLEAN /\ req' = [req EXCEPT !.good = good]
  BY DEF TypeOK, Disturbed
<1>2. good => req.good /\ req.client # c
  OBVIOUS
<1> HIDE DEF good
<1>3. req' \in Request
  BY <1>1 DEF Request
<1>4. req'.good = good
  BY <1>1 DEF Request
<1> QED
  BY <1>1, <1>2, <1>3, <1>4 DEF Request

\* What answering leaves of the request.
LEMMA AnsweredRequest ==
    ASSUME TypeOK, NEW a \in Rejections \cup Granted, Answer(a)
    PROVE  /\ req' \in Request
           /\ req'.pc = "answered" /\ req'.proc = req.proc /\ req'.client = req.client
           /\ req'.token = req.token /\ req'.head = req.head /\ req'.good = req.good
           /\ req'.dead = req.dead /\ req'.answer = a
BY DEF TypeOK, Answer, Request, Stages

\* The request after a query that failed.
LEMMA FailedRequest ==
    ASSUME TypeOK, NEW a \in Rejections \cup Granted, Fails(a)
    PROVE  /\ req' \in Request
           /\ req'.pc = "answered" /\ req'.proc = req.proc /\ req'.client = req.client
           /\ req'.token = req.token /\ req'.head = req.head /\ ~req'.good
           /\ req'.dead = req.dead /\ req'.answer = a
BY DEF TypeOK, Fails, Request, Stages

\* A new request.
LEMMA IdleIsRequest == Idle \in Request
BY DEF Idle, Request, Stages, Timestamps

\* Keys are added and revoked: the ids of each client still differ, each is of
\* a client on file, and what was revoked still is.
LEMMA KeysChange ==
    ASSUME TypeOK, NEW c \in Clients, apps[c] # None, NEW new,
           keys' = [keys EXCEPT ![c] = new], apps' = apps, secrets' = secrets,
           new \in Seq(KeyRow), Distinct(keys[c]) => Distinct(new),
           \A old : IsRevoked(keys[c], old) => IsRevoked(new, old)
    PROVE  /\ keys' \in [Clients -> Seq(KeyRow)]
           /\ \A d \in Clients :
                /\ IsInjective([i \in DOMAIN keys'[d] |-> keys'[d][i].id])
                /\ keys'[d] # << >> \/ secrets'[d] # << >> => apps'[d] # None
                /\ \A old : IsRevoked(keys[d], old) => IsRevoked(keys'[d], old)
                /\ d # c => keys'[d] = keys[d]
<1>1. keys \in [Clients -> Seq(KeyRow)]
  BY DEF TypeOK
<1>2. keys' \in [Clients -> Seq(KeyRow)]
  BY <1>1
<1>3. keys'[c] = new /\ \A d \in Clients : d # c => keys'[d] = keys[d]
  BY <1>1
<1>4. \A creds : Distinct(creds) <=> IsInjective([i \in DOMAIN creds |-> creds[i].id])
  BY DEF Distinct, IsInjective
<1>5. \A d \in Clients : Distinct(keys[d])
  BY <1>4 DEF TypeOK
<1>6. \A d \in Clients : keys[d] # << >> \/ secrets[d] # << >> => apps[d] # None
  BY DEF TypeOK
<1> QED
  BY <1>2, <1>3, <1>4, <1>5, <1>6

\* Secrets likewise.
LEMMA SecretsChange ==
    ASSUME TypeOK, NEW c \in Clients, apps[c] # None, NEW new,
           secrets' = [secrets EXCEPT ![c] = new], apps' = apps, keys' = keys,
           new \in Seq(SecretRow), Distinct(secrets[c]) => Distinct(new),
           \A old : IsRevoked(secrets[c], old) => IsRevoked(new, old)
    PROVE  /\ secrets' \in [Clients -> Seq(SecretRow)]
           /\ \A d \in Clients :
                /\ IsInjective([i \in DOMAIN secrets'[d] |-> secrets'[d][i].id])
                /\ keys'[d] # << >> \/ secrets'[d] # << >> => apps'[d] # None
                /\ \A old : IsRevoked(secrets[d], old) => IsRevoked(secrets'[d], old)
                /\ d # c => secrets'[d] = secrets[d]
<1>1. secrets \in [Clients -> Seq(SecretRow)]
  BY DEF TypeOK
<1>2. secrets' \in [Clients -> Seq(SecretRow)]
  BY <1>1
<1>3. secrets'[c] = new /\ \A d \in Clients : d # c => secrets'[d] = secrets[d]
  BY <1>1
<1>4. \A creds : Distinct(creds) <=> IsInjective([i \in DOMAIN creds |-> creds[i].id])
  BY DEF Distinct, IsInjective
<1>5. \A d \in Clients : Distinct(secrets[d])
  BY <1>4 DEF TypeOK
<1>6. \A d \in Clients : keys[d] # << >> \/ secrets[d] # << >> => apps[d] # None
  BY DEF TypeOK
<1> QED
  BY <1>2, <1>3, <1>4, <1>5, <1>6

\* One of an operator's steps: which client it is about, and that it takes no
\* revocation back.
LEMMA OperatorStep ==
    ASSUME TypeOK, Operate
    PROVE  /\ TypeOK' /\ UNCHANGED <<run, tok>>
           /\ \A c \in Clients : \A old :
                /\ IsRevoked(keys[c], old) => IsRevoked(keys'[c], old)
                /\ IsRevoked(secrets[c], old) => IsRevoked(secrets'[c], old)
           /\ \/ UNCHANGED <<apps, keys, secrets, req>>
              \/ \E c \in Clients :
                   /\ req' = Disturbed(c)
                   /\ \A d \in Clients \ {c} : /\ apps'[d] = apps[d] /\ keys'[d] = keys[d]
                                               /\ secrets'[d] = secrets[d]
<1>1. ASSUME NEW c \in Clients, NEW k \in Keys, InsertKey(c, k), apps' = apps,
             secrets' = secrets, run' = run, tok' = tok,
             registering' \in [client: Clients, key: Keys] \cup {None}
      PROVE  /\ TypeOK' /\ req' = Disturbed(c)
             /\ \A d \in Clients : \A old : IsRevoked(keys[d], old) => IsRevoked(keys'[d], old)
             /\ \A d \in Clients \ {c} : keys'[d] = keys[d]
  <2> DEFINE new == Append(keys[c], [id |-> k, active |-> TRUE])
  <2>1. keys[c] \in Seq([id: Keys, active: BOOLEAN]) /\ k \notin OnFile(keys[c])
    BY <1>1 DEF InsertKey, KeyRow, TypeOK
  <2>2. /\ new \in Seq(KeyRow) /\ (Distinct(keys[c]) => Distinct(new))
        /\ \A old : IsRevoked(keys[c], old) => IsRevoked(new, old)
    BY <2>1, AddedCredential DEF KeyRow
  <2>3. keys' = [keys EXCEPT ![c] = new] /\ apps[c] # None /\ req' = Disturbed(c)
    BY <1>1 DEF InsertKey
  <2> HIDE DEF new
  <2>4. req' \in Request
    BY <2>3, DisturbedRequest
  <2>5. /\ keys' \in [Clients -> Seq(KeyRow)]
        /\ \A d \in Clients :
             /\ IsInjective([i \in DOMAIN keys'[d] |-> keys'[d][i].id])
             /\ keys'[d] # << >> \/ secrets'[d] # << >> => apps'[d] # None
             /\ \A old : IsRevoked(keys[d], old) => IsRevoked(keys'[d], old)
             /\ d # c => keys'[d] = keys[d]
    BY <1>1, <2>2, <2>3, KeysChange
  <2>6. TypeOK'
    BY <1>1, <2>4, <2>5 DEF TypeOK
  <2> QED
    BY <2>3, <2>5, <2>6
<1>2. CASE CreateFirstKey
  BY <1>1, <1>2 DEF CreateFirstKey, TypeOK
<1>3. CASE FirstKeyFails
  BY <1>3 DEF FirstKeyFails, TypeOK
<1>4. ASSUME NEW c \in Clients, RevokeClient(c)
      PROVE  /\ TypeOK' /\ req' = Disturbed(c) /\ UNCHANGED <<keys, secrets, run, tok>>
             /\ \A d \in Clients \ {c} : apps'[d] = apps[d]
  <2>1. req' \in Request
    BY <1>4, DisturbedRequest DEF RevokeClient
  <2>2. UNCHANGED <<keys, secrets, registering, run, tok>> /\ req' = Disturbed(c)
    BY <1>4 DEF RevokeClient
  <2>3. apps' \in [Clients -> {None, "ACTIVE", "REVOKED"}] /\ apps'[c] # None
        /\ \A d \in Clients \ {c} : apps'[d] = apps[d]
    BY <1>4, AccessAssumption DEF RevokeClient, TypeOK
  <2>4. \A d \in Clients : keys'[d] # << >> \/ secrets'[d] # << >> => apps'[d] # None
    BY <2>2, <2>3 DEF TypeOK
  <2>5. TypeOK'
    BY <2>1, <2>2, <2>3, <2>4 DEF TypeOK
  <2> QED
    BY <2>2, <2>3, <2>5
<1>5. ASSUME NEW c \in Clients, NEW k \in Keys, CreateClient(c, k)
      PROVE  /\ TypeOK' /\ req' = Disturbed(c) /\ UNCHANGED <<keys, secrets, run, tok>>
             /\ \A d \in Clients \ {c} : apps'[d] = apps[d]
  <2>1. req' \in Request
    BY <1>5, DisturbedRequest DEF CreateClient
  <2>2. registering' \in [client: Clients, key: Keys]
    BY <1>5 DEF CreateClient
  <2>3. apps' \in [Clients -> {None, "ACTIVE", "REVOKED"}] /\ apps'[c] # None
        /\ \A d \in Clients \ {c} : apps'[d] = apps[d]
    BY <1>5, AccessAssumption DEF CreateClient, TypeOK
  <2>4. UNCHANGED <<keys, secrets, run, tok>> /\ req' = Disturbed(c)
    BY <1>5 DEF CreateClient
  <2>5. \A d \in Clients : keys'[d] # << >> \/ secrets'[d] # << >> => apps'[d] # None
    BY <2>3, <2>4 DEF TypeOK
  <2>6. TypeOK'
    BY <2>1, <2>2, <2>3, <2>4, <2>5 DEF TypeOK
  <2> QED
    BY <2>3, <2>4, <2>6
<1>6. ASSUME NEW c \in Clients, NEW k \in Keys, RevokeClientKey(c, k)
      PROVE  /\ TypeOK' /\ req' = Disturbed(c) /\ UNCHANGED <<apps, secrets, run, tok>>
             /\ \A d \in Clients : \A old : IsRevoked(keys[d], old) => IsRevoked(keys'[d], old)
             /\ \A d \in Clients \ {c} : keys'[d] = keys[d]
  <2> DEFINE new == Revoked(keys[c], k)
  <2>1. keys[c] \in Seq([id: Keys, active: BOOLEAN])
    BY DEF KeyRow, TypeOK
  <2>2. /\ new \in Seq(KeyRow) /\ (Distinct(keys[c]) => Distinct(new))
        /\ \A old : IsRevoked(keys[c], old) => IsRevoked(new, old)
    BY <2>1, RevokedCredential DEF KeyRow
  <2>3. keys' = [keys EXCEPT ![c] = new] /\ req' = Disturbed(c)
        /\ UNCHANGED <<apps, secrets, registering, run, tok>>
    BY <1>6 DEF RevokeClientKey
  <2>4. apps[c] # None
    <3>1. keys[c] # << >>
      BY <1>6, <2>1 DEF RevokeClientKey, OnFile
    <3> QED
      BY <3>1 DEF TypeOK
  <2> HIDE DEF new
  <2>5. req' \in Request
    BY <2>3, DisturbedRequest
  <2>6. /\ keys' \in [Clients -> Seq(KeyRow)]
        /\ \A d \in Clients :
             /\ IsInjective([i \in DOMAIN keys'[d] |-> keys'[d][i].id])
             /\ keys'[d] # << >> \/ secrets'[d] # << >> => apps'[d] # None
             /\ \A old : IsRevoked(keys[d], old) => IsRevoked(keys'[d], old)
             /\ d # c => keys'[d] = keys[d]
    BY <2>2, <2>3, <2>4, KeysChange
  <2>7. TypeOK'
    BY <2>3, <2>5, <2>6, ZenonT(30) DEF TypeOK
  <2> QED
    BY <2>3, <2>6, <2>7
<1>7. ASSUME NEW c \in Clients, NEW s \in Secrets, AddClientSecret(c, s)
      PROVE  /\ TypeOK' /\ req' = Disturbed(c) /\ UNCHANGED <<apps, keys, run, tok>>
             /\ \A d \in Clients : \A old : IsRevoked(secrets[d], old) => IsRevoked(secrets'[d], old)
             /\ \A d \in Clients \ {c} : secrets'[d] = secrets[d]
  <2> DEFINE new == Append(secrets[c], [id |-> s, active |-> TRUE])
  <2>1. secrets[c] \in Seq([id: Secrets, active: BOOLEAN]) /\ s \notin OnFile(secrets[c])
    BY <1>7 DEF AddClientSecret, SecretRow, TypeOK
  <2>2. /\ new \in Seq(SecretRow) /\ (Distinct(secrets[c]) => Distinct(new))
        /\ \A old : IsRevoked(secrets[c], old) => IsRevoked(new, old)
    BY <2>1, AddedCredential DEF SecretRow
  <2>3. secrets' = [secrets EXCEPT ![c] = new] /\ apps[c] # None /\ req' = Disturbed(c)
        /\ UNCHANGED <<apps, keys, registering, run, tok>>
    BY <1>7 DEF AddClientSecret
  <2> HIDE DEF new
  <2>4. req' \in Request
    BY <2>3, DisturbedRequest
  <2>5. /\ secrets' \in [Clients -> Seq(SecretRow)]
        /\ \A d \in Clients :
             /\ IsInjective([i \in DOMAIN secrets'[d] |-> secrets'[d][i].id])
             /\ keys'[d] # << >> \/ secrets'[d] # << >> => apps'[d] # None
             /\ \A old : IsRevoked(secrets[d], old) => IsRevoked(secrets'[d], old)
             /\ d # c => secrets'[d] = secrets[d]
    BY <2>2, <2>3, SecretsChange
  <2>6. TypeOK'
    BY <2>3, <2>4, <2>5, ZenonT(30) DEF TypeOK
  <2> QED
    BY <2>3, <2>5, <2>6
<1>8. ASSUME NEW c \in Clients, NEW s \in Secrets, RevokeClientSecret(c, s)
      PROVE  /\ TypeOK' /\ req' = Disturbed(c) /\ UNCHANGED <<apps, keys, run, tok>>
             /\ \A d \in Clients : \A old : IsRevoked(secrets[d], old) => IsRevoked(secrets'[d], old)
             /\ \A d \in Clients \ {c} : secrets'[d] = secrets[d]
  <2> DEFINE new == Revoked(secrets[c], s)
  <2>1. secrets[c] \in Seq([id: Secrets, active: BOOLEAN])
    BY DEF SecretRow, TypeOK
  <2>2. /\ new \in Seq(SecretRow) /\ (Distinct(secrets[c]) => Distinct(new))
        /\ \A old : IsRevoked(secrets[c], old) => IsRevoked(new, old)
    BY <2>1, RevokedCredential DEF SecretRow
  <2>3. secrets' = [secrets EXCEPT ![c] = new] /\ req' = Disturbed(c)
        /\ UNCHANGED <<apps, keys, registering, run, tok>>
    BY <1>8 DEF RevokeClientSecret
  <2>4. apps[c] # None
    <3>1. secrets[c] # << >>
      BY <1>8, <2>1 DEF RevokeClientSecret, OnFile
    <3> QED
      BY <3>1 DEF TypeOK
  <2> HIDE DEF new
  <2>5. req' \in Request
    BY <2>3, DisturbedRequest
  <2>6. /\ secrets' \in [Clients -> Seq(SecretRow)]
        /\ \A d \in Clients :
             /\ IsInjective([i \in DOMAIN secrets'[d] |-> secrets'[d][i].id])
             /\ keys'[d] # << >> \/ secrets'[d] # << >> => apps'[d] # None
             /\ \A old : IsRevoked(secrets[d], old) => IsRevoked(secrets'[d], old)
             /\ d # c => secrets'[d] = secrets[d]
    BY <2>2, <2>3, <2>4, SecretsChange
  <2>7. TypeOK'
    BY <2>3, <2>5, <2>6, ZenonT(30) DEF TypeOK
  <2> QED
    BY <2>3, <2>6, <2>7
<1>9. ASSUME NEW c \in Clients, NEW k \in Keys, AddClientKey(c, k)
      PROVE  /\ TypeOK' /\ req' = Disturbed(c) /\ UNCHANGED <<apps, secrets, run, tok>>
             /\ \A d \in Clients : \A old : IsRevoked(keys[d], old) => IsRevoked(keys'[d], old)
             /\ \A d \in Clients \ {c} : keys'[d] = keys[d]
  BY <1>1, <1>9 DEF AddClientKey, TypeOK
<1> QED
  BY <1>2, <1>3, <1>4, <1>5, <1>6, <1>7, <1>8, <1>9 DEF Operate

\* The invariant holds before anything is registered.
LEMMA InitInvariant == Init => IInv
<1> SUFFICES ASSUME Init PROVE IInv
  OBVIOUS
<1>1. \A c \in Clients : keys[c] = << >> /\ secrets[c] = << >>
  BY DEF Init
<1>2. \A c \in Clients : /\ IsInjective([i \in DOMAIN keys[c] |-> keys[c][i].id])
                         /\ IsInjective([i \in DOMAIN secrets[c] |-> secrets[c][i].id])
  BY <1>1 DEF IsInjective
<1>3. keys \in [Clients -> Seq(KeyRow)] /\ secrets \in [Clients -> Seq(SecretRow)]
  BY DEF Init
<1>4. run \in [Processes -> 0 .. MaxRestarts] /\ apps \in [Clients -> {None, "ACTIVE", "REVOKED"}]
      /\ tok \in [Clients -> Token \cup {None}] /\ registering = None /\ req = Idle
  BY AccessAssumption DEF Init
<1>5. TypeOK
  BY <1>1, <1>2, <1>3, <1>4, IdleIsRequest DEF TypeOK
<1>6. RequestInHand /\ TokenIsOwn
  BY <1>4 DEF RequestInHand, TokenIsOwn, Init, Idle
<1> QED
  BY <1>5, <1>6 DEF IInv

\* What the steps that serve a request, or let time pass, write: they leave the
\* store alone.
LEMMA StoreIsLeftAlone ==
    ASSUME TypeOK, UNCHANGED store, run' \in [Processes -> 0 .. MaxRestarts],
           tok' \in [Clients -> Token \cup {None}], req' \in Request
    PROVE  TypeOK'
BY DEF TypeOK, store

\* The invariant is kept by the operators, the requests, the clock and restarts.
LEMMA Invariance == IInv /\ [Next]_vars => IInv'
<1> SUFFICES ASSUME IInv, [Next]_vars PROVE IInv'
  OBVIOUS
<1> USE DEF IInv
<1>0. /\ req \in Request /\ run \in [Processes -> 0 .. MaxRestarts]
      /\ tok \in [Clients -> Token \cup {None}]
  BY DEF TypeOK
<1>1. CASE Operate
  <2>1. TypeOK' /\ tok' = tok /\ \/ req' = req
                                 \/ \E c \in Clients : req' = Disturbed(c)
    BY <1>1, OperatorStep
  <2>2. CASE req' = req
    BY <2>1, <2>2 DEF RequestInHand, TokenIsOwn
  <2>3. ASSUME NEW c \in Clients, req' = Disturbed(c)
        PROVE  RequestInHand' /\ TokenIsOwn'
    BY <2>1, <2>3, DisturbedRequest DEF RequestInHand, TokenIsOwn
  <2> QED
    BY <2>1, <2>2, <2>3
<1>2. ASSUME NEW p \in Processes, NEW c \in Clients, NEW k \in Keys, NEW time \in Timestamps,
             TokenRequested(p, c, k, time)
      PROVE  IInv'
  <2>1. /\ req' \in Request /\ req'.pc = "app" /\ req'.proc = p /\ req'.client = c
        /\ req'.by = k /\ req'.token = None /\ req'.head = None
    <3> DEFINE good == time = "fresh" /\ apps[c] = "ACTIVE" /\ Latest(keys[c], k)
               dead == IsRevoked(keys[c], k)
    <3>1. good \in BOOLEAN /\ dead \in BOOLEAN
      BY DEF Latest, IsRevoked
    <3>2. req' = [Idle EXCEPT !.pc = "app", !.proc = p, !.client = c, !.by = k, !.time = time,
                              !.good = good, !.dead = dead]
      BY <1>2 DEF TokenRequested
    <3> HIDE DEF good, dead
    <3> QED
      BY <3>1, <3>2 DEF Idle, Request, Stages
  <2>2. UNCHANGED <<store, run, tok>>
    BY <1>2 DEF TokenRequested
  <2> QED
    BY <1>0, <2>1, <2>2, StoreIsLeftAlone DEF RequestInHand, TokenIsOwn
<1>3. ASSUME NEW p \in Processes, NEW c \in Clients, NEW s \in Secrets, NEW time \in Timestamps,
             NEW hash \in BodyHashes, MerchantRequested(p, c, s, time, hash)
      PROVE  IInv'
  <2>1. /\ req' \in Request /\ req'.pc = "token" /\ req'.proc = p /\ req'.client = c
        /\ req'.by = s /\ req'.token = tok[c] /\ req'.head = None /\ tok[c] # None
    <3> DEFINE good == time = "fresh" /\ hash = "hex" /\ ValidateToken(p, tok[c])
                       /\ Latest(secrets[c], s)
               dead == IsRevoked(secrets[c], s)
    <3>1. good \in BOOLEAN /\ dead \in BOOLEAN
      BY DEF Latest, IsRevoked, ValidateToken
    <3>2. tok[c] # None
          /\ req' = [Idle EXCEPT !.pc = "token", !.proc = p, !.client = c, !.by = s, !.time = time,
                                 !.token = tok[c], !.hash = hash, !.good = good, !.dead = dead]
      BY <1>3 DEF MerchantRequested
    <3>3. tok[c] \in Token \cup {None}
      BY <1>0 DEF TypeOK
    <3> HIDE DEF good, dead
    <3>4. req' = [pc |-> "token", proc |-> p, client |-> c, time |-> time, by |-> s,
                  token |-> tok[c], hash |-> hash, head |-> None, good |-> good,
                  dead |-> dead, answer |-> None]
      BY <3>2 DEF Idle
    <3>5. req' \in Request
      BY <3>1, <3>3, <3>4 DEF Request, Stages
    <3>6. tok[c] # None
      BY <3>2
    <3> QED
      BY <3>4, <3>5, <3>6
  <2>2. UNCHANGED <<store, run, tok>>
    BY <1>3 DEF MerchantRequested
  <2> QED
    BY <1>0, <2>1, <2>2, StoreIsLeftAlone DEF RequestInHand, TokenIsOwn
<1>4. ASSUME NEW p \in Processes, NEW c \in Clients, NEW h \in VendorHeaders,
             VendorRequested(p, c, h)
      PROVE  IInv'
  <2>1. /\ req' \in Request /\ req'.pc = "vendor" /\ req'.proc = p /\ req'.client = c
        /\ req'.token = tok[c] /\ req'.head = h /\ req'.dead = FALSE
    <3> DEFINE good == ValidateToken(p, tok[c])
    <3>1. good \in BOOLEAN
      BY DEF ValidateToken
    <3>2. req' = [Idle EXCEPT !.pc = "vendor", !.proc = p, !.client = c, !.head = h,
                              !.token = tok[c], !.good = good]
      BY <1>4 DEF VendorRequested
    <3>3. tok[c] \in Token \cup {None}
      BY <1>0 DEF TypeOK
    <3> HIDE DEF good
    <3>4. req' = [pc |-> "vendor", proc |-> p, client |-> c, time |-> "fresh", by |-> None,
                  token |-> tok[c], hash |-> None, head |-> h, good |-> good,
                  dead |-> FALSE, answer |-> None]
      BY <3>2 DEF Idle
    <3>5. req' \in Request
      BY <3>1, <3>3, <3>4 DEF Request, Stages, Timestamps
    <3> QED
      BY <3>4, <3>5
  <2>2. UNCHANGED <<store, run, tok>>
    BY <1>4 DEF VendorRequested
  <2> QED
    BY <1>0, <2>1, <2>2, StoreIsLeftAlone DEF RequestInHand, TokenIsOwn
<1>5. ASSUME NEW a \in Rejections \cup Granted, Answer(a) \/ Fails(a), req.pc # "idle",
             UNCHANGED <<store, run, tok>>
      PROVE  IInv'
  BY <1>0, <1>5, AnsweredRequest, FailedRequest, StoreIsLeftAlone DEF RequestInHand, TokenIsOwn
<1>6. CASE CheckClient
  <2>1. UNCHANGED <<store, run, tok>> /\ req.pc = "app"
    BY <1>6 DEF CheckClient
  <2>2. CASE Answer("invalidTimestamp") \/ Answer("unknownClient") \/ Fails("internalError")
    BY <1>5, <2>1, <2>2 DEF Rejections
  <2>3. CASE req' = [req EXCEPT !.pc = "key"]
    <3>1. /\ req' \in Request /\ req'.pc = "key" /\ req'.proc = req.proc
          /\ req'.client = req.client /\ req'.by = req.by /\ req'.token = req.token
          /\ req'.head = req.head
      BY <1>0, <2>3 DEF Request, Stages
    <3> QED
      BY <1>0, <2>1, <3>1, StoreIsLeftAlone DEF RequestInHand, TokenIsOwn
  <2> QED
    BY <1>6, <2>2, <2>3 DEF CheckClient
<1>7. CASE IssueToken
  <2>1. UNCHANGED <<store, run>> /\ req.pc = "key" /\ req.proc \in Processes
        /\ req.client \in Clients /\ req.token = None
    BY <1>7 DEF IssueToken, RequestInHand
  <2>2. CASE /\ tok' = tok
             /\ Answer("unknownClient") \/ Answer("signature") \/ Fails("unknownClient")
    <3>1. req.pc # "idle" /\ UNCHANGED <<store, run, tok>>
      BY <2>1, <2>2
    <3> QED
      BY <1>5, <2>2, <3>1 DEF Rejections
  <2>3. CASE /\ Answer("issued")
             /\ tok' = [tok EXCEPT ![req.client] =
                          [client |-> req.client, proc |-> req.proc,
                           run |-> run[req.proc], left |-> Lifetime]]
    <3> DEFINE new == [client |-> req.client, proc |-> req.proc,
                       run |-> run[req.proc], left |-> Lifetime]
    <3>1. new \in Token /\ new.client = req.client
      BY <1>0, <2>1, AccessAssumption DEF Token
    <3>2. tok' = [tok EXCEPT ![req.client] = new]
      BY <2>3
    <3> HIDE DEF new
    <3>3. tok' \in [Clients -> Token \cup {None}]
      BY <1>0, <3>1, <3>2
    <3>4. \A c \in Clients : tok'[c] # None => tok'[c].client = c
      BY <1>0, <3>1, <3>2 DEF TokenIsOwn
    <3>5. "issued" \in Granted
      BY DEF Granted
    <3>6. /\ req' \in Request /\ req'.pc = "answered" /\ req'.proc = req.proc
          /\ req'.client = req.client /\ req'.token = req.token
      BY <2>3, <3>5, AnsweredRequest
    <3> QED
      BY <1>0, <2>1, <3>3, <3>4, <3>6, StoreIsLeftAlone DEF RequestInHand, TokenIsOwn
  <2> QED
    BY <1>7, <2>2, <2>3 DEF IssueToken
<1>8. CASE CheckBearer
  <2>1. UNCHANGED <<store, run, tok>> /\ req.pc = "token"
    BY <1>8 DEF CheckBearer
  <2>2. CASE Answer("invalidToken")
    BY <1>5, <2>1, <2>2 DEF Rejections
  <2>3. CASE req' = [req EXCEPT !.pc = "secret"]
    <3>1. /\ req' \in Request /\ req'.pc = "secret" /\ req'.proc = req.proc
          /\ req'.client = req.client /\ req'.by = req.by /\ req'.token = req.token
          /\ req'.head = req.head
      BY <1>0, <2>3 DEF Request, Stages
    <3> QED
      BY <1>0, <2>1, <3>1, StoreIsLeftAlone DEF RequestInHand, TokenIsOwn
  <2> QED
    BY <1>8, <2>2, <2>3 DEF CheckBearer
<1>9. CASE CheckMerchantSignature
  <2>1. UNCHANGED <<store, run, tok>> /\ req.pc = "secret"
        /\ \/ Answer("noSecret") \/ Fails("noSecret") \/ Answer("timestamp")
           \/ Answer("signature") \/ Answer("accepted")
    BY <1>9 DEF CheckMerchantSignature
  <2> QED
    BY <1>5, <2>1 DEF Rejections, Granted
<1>10. CASE AuthenticateVendorRequest
  <2> DEFINE a == MultiVendorSNAPAuth(req.proc, req.head, req.token)
  <2>1. a \in Rejections \cup Granted
    BY AnswerOfMiddleware DEF Granted
  <2>2. UNCHANGED <<store, run, tok>> /\ req.pc = "vendor" /\ Answer(a)
    BY <1>10 DEF AuthenticateVendorRequest
  <2> HIDE DEF a
  <2> QED
    BY <1>5, <2>1, <2>2
<1>11. ASSUME req' = Idle, UNCHANGED <<store, tok>>, run' \in [Processes -> 0 .. MaxRestarts]
       PROVE  IInv'
  <2>1. TypeOK'
    BY <1>0, <1>11, IdleIsRequest, StoreIsLeftAlone
  <2> QED
    BY <1>11, <2>1 DEF RequestInHand, TokenIsOwn, Idle
<1>12. CASE Respond
  BY <1>0, <1>11, <1>12 DEF Respond
<1>13. CASE Tick
  <2> DEFINE Older(t) == IF t # None /\ t.left > 0 THEN [t EXCEPT !.left = @ - 1] ELSE t
  <2>1. \A t \in Token \cup {None} :
          /\ Older(t) \in Token \cup {None}
          /\ t # None => Older(t).client = t.client /\ Older(t) # None
          /\ (t = None) => Older(t) = None
    BY AccessAssumption, NoTokenAssumption DEF Token
  <2>2. /\ UNCHANGED <<store, run>> /\ tok' = [c \in Clients |-> Older(tok[c])]
        /\ \/ req' = req
           \/ req' = [req EXCEPT !.token = Older(@),
                                 !.good = @ /\ (req.token # None => req.token.left > 1)]
              /\ req.pc # "answered"
    BY <1>13 DEF Tick
  <2> HIDE DEF Older
  <2>3. req' \in Request /\ (req.token # None => req'.token.client = req.token.client)
        /\ (req.token = None => req'.token = None)
        /\ req'.pc = req.pc /\ req'.proc = req.proc /\ req'.client = req.client
        /\ req'.by = req.by /\ req'.head = req.head /\ req'.dead = req.dead
    <3>1. req \in Request /\ req.token \in Token \cup {None}
      BY <1>0 DEF TypeOK, Request
    <3>2. CASE req' = req
      BY <3>1, <3>2
    <3>3. ASSUME NEW good \in BOOLEAN, req' = [req EXCEPT !.token = Older(@), !.good = good]
          PROVE  /\ req' \in Request /\ req'.token = Older(req.token)
                 /\ req'.pc = req.pc /\ req'.proc = req.proc /\ req'.client = req.client
                 /\ req'.by = req.by /\ req'.head = req.head /\ req'.dead = req.dead
      <4>1. Older(req.token) \in Token \cup {None}
        BY <2>1, <3>1
      <4>2. req' \in Request
        BY <3>1, <3>3, <4>1 DEF Request
      <4> QED
        BY <3>1, <3>3, <4>2 DEF Request
    <3>4. (req.good /\ (req.token # None => req.token.left > 1)) \in BOOLEAN
      OBVIOUS
    <3> QED
      BY <2>1, <2>2, <3>1, <3>2, <3>3, <3>4
  <2>4. tok' \in [Clients -> Token \cup {None}]
    BY <1>0, <2>1, <2>2
  <2>5. TypeOK'
    BY <1>0, <2>2, <2>3, <2>4, StoreIsLeftAlone
  <2>6. TokenIsOwn'
    BY <1>0, <2>1, <2>2, <2>3 DEF TokenIsOwn
  <2>7. RequestInHand'
    <3>1. req.pc \in {"token", "secret"} => req'.token # None
      BY <1>0, <2>1, <2>2, NoTokenAssumption DEF RequestInHand, Request
    <3> QED
      BY <2>3, <3>1 DEF RequestInHand
  <2> QED
    BY <2>5, <2>6, <2>7
<1>14. ASSUME NEW p \in Processes, Restart(p)
       PROVE  IInv'
  <2>1. run' \in [Processes -> 0 .. MaxRestarts] /\ UNCHANGED <<store, tok>>
    BY <1>0, <1>14, AccessAssumption DEF Restart
  <2>2. CASE req' = Idle
    BY <1>11, <2>1, <2>2
  <2>3. CASE req' = req
    BY <1>0, <2>1, <2>3, StoreIsLeftAlone DEF RequestInHand, TokenIsOwn
  <2> QED
    BY <1>14, <2>2, <2>3 DEF Restart
<1>15. CASE UNCHANGED vars
  <2>1. UNCHANGED <<apps, keys, secrets, registering, run, tok, req>>
    BY <1>15 DEF vars, store
  <2> QED
    BY <2>1 DEF TypeOK, RequestInHand, TokenIsOwn
<1> QED
  BY <1>1, <1>2, <1>3, <1>4, <1>6, <1>7, <1>8, <1>9, <1>10, <1>12, <1>13, <1>14, <1>15
     DEF Next, Serve

\* TypeOK: the rows of each client have ids of their own and belong to a client
\* on file, whatever operators do in whatever order; tokens and requests are of
\* their kinds.
THEOREM TypeCorrect == Spec => []TypeOK
<1>1. Init => IInv
  BY InitInvariant
<1>2. IInv /\ [Next]_vars => IInv'
  BY Invariance
<1>3. IInv => TypeOK
  BY DEF IInv
<1> QED
  BY <1>1, <1>2, <1>3, PTL DEF Spec

-----------------------------------------------------------------------------
(* Revocation                                                              *)

\* What had been revoked before the request began is revoked when it is looked
\* up, and the query does not return it.
LEMMA RevocationStep ==
    ASSUME IInv, DeadStaysRevoked, RevokedIsRefused, [Next]_vars
    PROVE  DeadStaysRevoked' /\ RevokedIsRefused'
<1> USE DEF RevokedIsRefused, Answered
<1>0. req \in Request /\ TypeOK
  BY DEF IInv, TypeOK
<1>1. CASE Operate
  <2>1. /\ req'.pc = req.pc /\ req'.client = req.client /\ req'.by = req.by
        /\ req'.dead = req.dead /\ req'.answer = req.answer
    BY <1>0, <1>1, OperatorStep, DisturbedRequest
  <2>2. \A c \in Clients : \A old :
          /\ IsRevoked(keys[c], old) => IsRevoked(keys'[c], old)
          /\ IsRevoked(secrets[c], old) => IsRevoked(secrets'[c], old)
    BY <1>0, <1>1, OperatorStep
  <2> QED
    BY <2>1, <2>2 DEF DeadStaysRevoked, IInv, RequestInHand
<1>2. ASSUME NEW p \in Processes, NEW c \in Clients, NEW k \in Keys, NEW time \in Timestamps,
             TokenRequested(p, c, k, time)
      PROVE  DeadStaysRevoked' /\ RevokedIsRefused'
  <2>1. /\ req'.pc = "app" /\ req'.client = c /\ req'.by = k
        /\ req'.dead = IsRevoked(keys[c], k)
    BY <1>2 DEF TokenRequested, Idle
  <2>2. keys' = keys
    BY <1>2 DEF TokenRequested, store
  <2> QED
    BY <2>1, <2>2 DEF DeadStaysRevoked
<1>3. ASSUME NEW p \in Processes, NEW c \in Clients, NEW s \in Secrets, NEW time \in Timestamps,
             NEW hash \in BodyHashes, MerchantRequested(p, c, s, time, hash)
      PROVE  DeadStaysRevoked' /\ RevokedIsRefused'
  <2>1. /\ req'.pc = "token" /\ req'.client = c /\ req'.by = s
        /\ req'.dead = IsRevoked(secrets[c], s)
    BY <1>3 DEF MerchantRequested, Idle
  <2>2. secrets' = secrets
    BY <1>3 DEF MerchantRequested, store
  <2> QED
    BY <2>1, <2>2 DEF DeadStaysRevoked
<1>4. ASSUME NEW p \in Processes, NEW c \in Clients, NEW h \in VendorHeaders,
             VendorRequested(p, c, h)
      PROVE  DeadStaysRevoked' /\ RevokedIsRefused'
  <2>1. req'.pc = "vendor"
    BY <1>4 DEF VendorRequested, Idle
  <2> QED
    BY <2>1 DEF DeadStaysRevoked
<1>5. ASSUME NEW a, Answer(a) \/ Fails(a), req.dead => a \notin {"issued", "accepted"}
      PROVE  DeadStaysRevoked' /\ RevokedIsRefused'
  <2>1. req'.pc = "answered" /\ req'.answer = a /\ req'.dead = req.dead
    BY <1>0, <1>5 DEF Answer, Fails, Request
  <2> QED
    BY <1>5, <2>1 DEF DeadStaysRevoked
<1>6. ASSUME NEW stage, <<req.pc, stage>> \in {<<"app", "key">>, <<"token", "secret">>},
             req' = [req EXCEPT !.pc = stage], UNCHANGED store
      PROVE  DeadStaysRevoked' /\ RevokedIsRefused'
  <2>1. req'.pc = stage /\ req'.client = req.client /\ req'.by = req.by /\ req'.dead = req.dead
    BY <1>0, <1>6 DEF Request
  <2> QED
    BY <1>6, <2>1 DEF DeadStaysRevoked, store
<1>7. CASE CheckClient
  BY <1>5, <1>6, <1>7 DEF CheckClient
<1>8. CASE IssueToken
  <2>1. req.pc = "key" /\ req.client \in Clients /\ req.by \in Keys
    BY <1>8 DEF IssueToken, IInv, RequestInHand
  <2>2. keys[req.client] \in Seq([id: Keys, active: BOOLEAN]) /\ None \notin Keys
    BY <1>0, <2>1, AccessAssumption DEF TypeOK, KeyRow
  <2>3. NewestActive(keys[req.client]) = req.by => ~req.dead
    BY <2>1, <2>2, NewestIsLatest, RevokedIsNotLatest DEF DeadStaysRevoked
  <2> QED
    BY <1>5, <1>8, <2>3 DEF IssueToken
<1>9. CASE CheckBearer
  BY <1>5, <1>6, <1>9 DEF CheckBearer
<1>10. CASE CheckMerchantSignature
  <2>1. req.pc = "secret" /\ req.client \in Clients /\ req.by \in Secrets
    BY <1>10 DEF CheckMerchantSignature, IInv, RequestInHand
  <2>2. secrets[req.client] \in Seq([id: Secrets, active: BOOLEAN]) /\ None \notin Secrets
    BY <1>0, <2>1, AccessAssumption DEF TypeOK, SecretRow
  <2>3. NewestActive(secrets[req.client]) = req.by => ~req.dead
    BY <2>1, <2>2, NewestIsLatest, RevokedIsNotLatest DEF DeadStaysRevoked
  <2> QED
    BY <1>5, <1>10, <2>3 DEF CheckMerchantSignature
<1>11. CASE AuthenticateVendorRequest
  <2>1. ~req.dead
    BY <1>11 DEF AuthenticateVendorRequest, IInv, RequestInHand
  <2> QED
    BY <1>5, <1>11, <2>1 DEF AuthenticateVendorRequest
<1>12. CASE req' = Idle
  BY <1>12 DEF DeadStaysRevoked, Idle
<1>13. CASE Tick
  <2>1. /\ req'.pc = req.pc /\ req'.client = req.client /\ req'.by = req.by
        /\ req'.dead = req.dead /\ req'.answer = req.answer
    BY <1>0, <1>13 DEF Tick, Request
  <2>2. UNCHANGED <<keys, secrets>>
    BY <1>13 DEF Tick, store
  <2> QED
    BY <2>1, <2>2 DEF DeadStaysRevoked
<1>14. CASE UNCHANGED <<keys, secrets, req>>
  BY <1>14 DEF DeadStaysRevoked
<1>15. ASSUME NEW p \in Processes, Restart(p)
       PROVE  DeadStaysRevoked' /\ RevokedIsRefused'
  BY <1>12, <1>14, <1>15 DEF Restart, store
<1>16. CASE Respond
  BY <1>12, <1>16 DEF Respond
<1>17. CASE UNCHANGED vars
  BY <1>14, <1>17 DEF vars, store
<1> QED
  BY <1>1, <1>2, <1>3, <1>4, <1>7, <1>8, <1>9, <1>10, <1>11, <1>13, <1>15, <1>16, <1>17
     DEF Next, Serve

\* RevokedIsRefused: no token is issued on a revoked key and no request accepted
\* on a revoked secret, by any replica and whatever operators do while the
\* request is served (RevokeClientKey, RevokeClientSecret).
THEOREM RevocationHolds == Spec => []RevokedIsRefused
<1> DEFINE Inv == IInv /\ DeadStaysRevoked /\ RevokedIsRefused
<1>1. Init => Inv
  <2> SUFFICES ASSUME Init PROVE Inv
    OBVIOUS
  <2>1. req = Idle
    BY DEF Init
  <2> QED
    BY <2>1, InitInvariant DEF DeadStaysRevoked, RevokedIsRefused, Answered, Idle
<1>2. Inv /\ [Next]_vars => Inv'
  BY Invariance, RevocationStep
<1>3. Inv => RevokedIsRefused
  OBVIOUS
<1> QED
  BY <1>1, <1>2, <1>3, PTL DEF Spec

-----------------------------------------------------------------------------
(* Requests in order                                                       *)

\* A token that this process honours, and that has more than a tick to live, is
\* honoured a tick later.
LEMMA HonouredATickLater ==
    ASSUME NEW p, NEW t \in Token, ValidateToken(p, t), t.left > 1, run' = run
    PROVE  ValidateToken(p, [t EXCEPT !.left = @ - 1])'
<1>1. [t EXCEPT !.left = @ - 1] \in Token
  BY AccessAssumption DEF Token
<1>2. [t EXCEPT !.left = @ - 1] # None
  BY <1>1, NoTokenAssumption
<1> QED
  BY <1>1, <1>2 DEF ValidateToken, Token

\* A request that is in order stays so, step by step, until it is granted, or
\* until an operator, the clock or a restart ends its being in order.
LEMMA GoodStep ==
    ASSUME IInv, GoodStaysGood, NewestIsHonoured, [Next]_vars
    PROVE  GoodStaysGood' /\ NewestIsHonoured'
<1> USE DEF NewestIsHonoured, Answered
<1>0. req \in Request /\ TypeOK
  BY DEF IInv, TypeOK
<1>1. CASE Operate
  <2>1. CASE UNCHANGED <<apps, keys, secrets, run, req>>
    BY <2>1 DEF GoodStaysGood, ValidateToken
  <2>2. ASSUME NEW c \in Clients, req' = Disturbed(c), run' = run,
               \A d \in Clients \ {c} : /\ apps'[d] = apps[d] /\ keys'[d] = keys[d]
                                        /\ secrets'[d] = secrets[d]
        PROVE  GoodStaysGood' /\ NewestIsHonoured'
    <3>1. /\ req'.pc = req.pc /\ req'.proc = req.proc /\ req'.client = req.client
          /\ req'.time = req.time /\ req'.by = req.by /\ req'.token = req.token
          /\ req'.hash = req.hash /\ req'.head = req.head /\ req'.answer = req.answer
          /\ req'.good => req.good /\ req.client # c
      BY <1>0, <2>2, DisturbedRequest
    <3>2. req'.good /\ req.pc # "idle" => /\ apps'[req.client] = apps[req.client]
                                          /\ keys'[req.client] = keys[req.client]
                                          /\ secrets'[req.client] = secrets[req.client]
      BY <2>2, <3>1 DEF IInv, RequestInHand
    <3> QED
      BY <2>2, <3>1, <3>2 DEF GoodStaysGood, ValidateToken
  <2> QED
    BY <1>0, <1>1, <2>1, <2>2, OperatorStep
<1>2. ASSUME NEW p \in Processes, NEW c \in Clients, NEW k \in Keys, NEW time \in Timestamps,
             TokenRequested(p, c, k, time)
      PROVE  GoodStaysGood' /\ NewestIsHonoured'
  <2>1. /\ req'.pc = "app" /\ req'.client = c /\ req'.by = k /\ req'.time = time
        /\ req'.good = (time = "fresh" /\ apps[c] = "ACTIVE" /\ Latest(keys[c], k))
    BY <1>2 DEF TokenRequested, Idle
  <2>2. UNCHANGED <<apps, keys>>
    BY <1>2 DEF TokenRequested, store
  <2> QED
    BY <2>1, <2>2 DEF GoodStaysGood
<1>3. ASSUME NEW p \in Processes, NEW c \in Clients, NEW s \in Secrets, NEW time \in Timestamps,
             NEW hash \in BodyHashes, MerchantRequested(p, c, s, time, hash)
      PROVE  GoodStaysGood' /\ NewestIsHonoured'
  <2>1. /\ req'.pc = "token" /\ req'.client = c /\ req'.by = s /\ req'.time = time
        /\ req'.hash = hash /\ req'.proc = p /\ req'.token = tok[c]
        /\ req'.good = (time = "fresh" /\ hash = "hex" /\ ValidateToken(p, tok[c])
                        /\ Latest(secrets[c], s))
    BY <1>3 DEF MerchantRequested, Idle
  <2>2. UNCHANGED <<secrets, run>>
    BY <1>3 DEF MerchantRequested, store
  <2> QED
    BY <2>1, <2>2 DEF GoodStaysGood, ValidateToken
<1>4. ASSUME NEW p \in Processes, NEW c \in Clients, NEW h \in VendorHeaders,
             VendorRequested(p, c, h)
      PROVE  GoodStaysGood' /\ NewestIsHonoured'
  <2>1. /\ req'.pc = "vendor" /\ req'.proc = p /\ req'.token = tok[c]
        /\ req'.good = ValidateToken(p, tok[c])
    BY <1>4 DEF VendorRequested, Idle
  <2>2. run' = run
    BY <1>4 DEF VendorRequested
  <2> QED
    BY <2>1, <2>2 DEF GoodStaysGood, ValidateToken
<1>5. ASSUME NEW a, Fails(a) \/ (Answer(a) /\ (req.good /\ req.head = None => a \in {"issued", "accepted"}))
      PROVE  GoodStaysGood' /\ NewestIsHonoured'
  <2>1. CASE Answer(a) /\ (req.good /\ req.head = None => a \in {"issued", "accepted"})
    <3>1. /\ req'.pc = "answered" /\ req'.answer = a /\ req'.good = req.good
          /\ req'.head = req.head
      BY <1>0, <2>1 DEF Answer, Request
    <3> QED
      BY <2>1, <3>1 DEF GoodStaysGood
  <2>2. CASE Fails(a)
    <3>1. req'.pc = "answered" /\ ~req'.good
      BY <1>0, <2>2 DEF Fails, Request
    <3> QED
      BY <3>1 DEF GoodStaysGood
  <2> QED
    BY <1>5, <2>1, <2>2
<1>6. CASE CheckClient
  <2>1. CASE Answer("invalidTimestamp") /\ req.time # "fresh"
    BY <1>5, <1>6, <2>1 DEF CheckClient, GoodStaysGood
  <2>2. CASE Answer("unknownClient") /\ apps[req.client] # "ACTIVE"
    BY <1>5, <1>6, <2>2 DEF CheckClient, GoodStaysGood
  <2>3. CASE req' = [req EXCEPT !.pc = "key"]
    <3>1. req'.pc = "key" /\ req'.client = req.client /\ req'.by = req.by /\ req'.good = req.good
      BY <1>0, <2>3 DEF Request
    <3>2. keys' = keys /\ req.pc = "app"
      BY <1>6 DEF CheckClient, store
    <3> QED
      BY <3>1, <3>2 DEF GoodStaysGood
  <2>4. CASE Fails("internalError")
    BY <1>5, <2>4
  <2> QED
    BY <1>6, <2>1, <2>2, <2>3, <2>4 DEF CheckClient, InWindow
<1>7. CASE IssueToken
  <2>1. req.pc = "key" /\ req.client \in Clients /\ req.by \in Keys
    BY <1>7 DEF IssueToken, IInv, RequestInHand
  <2>2. keys[req.client] \in Seq([id: Keys, active: BOOLEAN]) /\ None \notin Keys
    BY <1>0, <2>1, AccessAssumption DEF TypeOK, KeyRow
  <2>3. req.good => NewestActive(keys[req.client]) = req.by
    BY <2>1, <2>2, NewestIsLatest DEF GoodStaysGood
  <2>4. \/ Answer("issued") \/ Fails("unknownClient")
        \/ \E a : Answer(a) /\ NewestActive(keys[req.client]) # req.by
    BY <1>7, <2>1, <2>2 DEF IssueToken
  <2> QED
    BY <1>5, <2>3, <2>4
<1>8. CASE CheckBearer
  <2>1. CASE Answer("invalidToken") /\ ~ValidateToken(req.proc, req.token)
    BY <1>5, <1>8, <2>1 DEF CheckBearer, GoodStaysGood
  <2>2. CASE req' = [req EXCEPT !.pc = "secret"]
    <3>1. /\ req'.pc = "secret" /\ req'.client = req.client /\ req'.by = req.by
          /\ req'.good = req.good /\ req'.time = req.time /\ req'.hash = req.hash
      BY <1>0, <2>2 DEF Request
    <3>2. secrets' = secrets /\ req.pc = "token"
      BY <1>8 DEF CheckBearer, store
    <3> QED
      BY <3>1, <3>2 DEF GoodStaysGood
  <2> QED
    BY <1>8, <2>1, <2>2 DEF CheckBearer
<1>9. CASE CheckMerchantSignature
  <2>1. req.pc = "secret" /\ req.client \in Clients /\ req.by \in Secrets
    BY <1>9 DEF CheckMerchantSignature, IInv, RequestInHand
  <2>2. secrets[req.client] \in Seq([id: Secrets, active: BOOLEAN]) /\ None \notin Secrets
    BY <1>0, <2>1, AccessAssumption DEF TypeOK, SecretRow
  <2>3. req.good => /\ NewestActive(secrets[req.client]) = req.by /\ req.time = "fresh"
                    /\ req.hash \in AcceptedHashes
    BY <2>1, <2>2, NewestIsLatest DEF GoodStaysGood, AcceptedHashes, BodyHashes
  <2>4. \/ Answer("accepted") \/ Fails("noSecret")
        \/ \E a : /\ Answer(a)
                  /\ \/ NewestActive(secrets[req.client]) # req.by \/ req.time # "fresh"
                     \/ req.hash \notin AcceptedHashes
    BY <1>9, <2>1, <2>2 DEF CheckMerchantSignature, InWindow
  <2> QED
    BY <1>5, <2>3, <2>4
<1>10. CASE AuthenticateVendorRequest
  <2>1. req.head # None
    BY <1>10, AccessAssumption DEF AuthenticateVendorRequest, IInv, RequestInHand
  <2> QED
    BY <1>5, <1>10, <2>1 DEF AuthenticateVendorRequest
<1>11. CASE req' = Idle
  BY <1>11 DEF GoodStaysGood, Idle
<1>12. CASE Tick
  <2>1. UNCHANGED <<apps, keys, secrets, run>>
    BY <1>12 DEF Tick, store
  <2>2. CASE req' = req
    BY <2>1, <2>2 DEF GoodStaysGood, ValidateToken
  <2>3. CASE req.pc # "answered" /\ req' # req
    <3>1. /\ req'.pc = req.pc /\ req'.proc = req.proc /\ req'.client = req.client
          /\ req'.time = req.time /\ req'.by = req.by /\ req'.hash = req.hash
          /\ req'.good => req.good /\ (req.token # None => req.token.left > 1)
          /\ req.token # None /\ req.token.left > 0 =>
                 req'.token = [req.token EXCEPT !.left = @ - 1]
      BY <1>0, <1>12, <2>3 DEF Tick, Request
    <3>2. req'.good /\ req.pc \in {"token", "vendor"} =>
              /\ ValidateToken(req.proc, req.token) /\ req.token \in Token /\ req.token.left > 1
              /\ req'.token = [req.token EXCEPT !.left = @ - 1]
      BY <1>0, <3>1 DEF GoodStaysGood, ValidateToken, Request
    <3>3. req'.good /\ req.pc \in {"token", "vendor"} => ValidateToken(req.proc, req.token)'
      BY <2>1, <3>1, <3>2, HonouredATickLater
    <3> QED
      BY <2>1, <2>3, <3>1, <3>3 DEF GoodStaysGood
  <2> QED
    BY <1>12, <2>2, <2>3 DEF Tick
<1>13. ASSUME NEW p \in Processes, Restart(p)
       PROVE  GoodStaysGood' /\ NewestIsHonoured'
  <2>1. CASE req.proc = p
    BY <1>11, <1>13, <2>1 DEF Restart
  <2>2. CASE req.proc # p
    <3>1. req' = req /\ UNCHANGED <<apps, keys, secrets>>
      BY <1>13, <2>2 DEF Restart, store
    <3>2. req.pc # "idle" => run'[req.proc] = run[req.proc]
      BY <1>13, <2>2 DEF Restart, IInv, RequestInHand, TypeOK
    <3> QED
      BY <3>1, <3>2 DEF GoodStaysGood, ValidateToken
  <2> QED
    BY <2>1, <2>2
<1>14. CASE Respond
  BY <1>11, <1>14 DEF Respond
<1>15. CASE UNCHANGED vars
  <2>1. UNCHANGED <<apps, keys, secrets, run, req>>
    BY <1>15 DEF vars, store
  <2> QED
    BY <2>1 DEF GoodStaysGood, ValidateToken
<1> QED
  BY <1>1, <1>2, <1>3, <1>4, <1>6, <1>7, <1>8, <1>9, <1>10, <1>12, <1>13, <1>14, <1>15
     DEF Next, Serve

\* NewestIsHonoured: a client that signs with its newest active credential, and
\* whose registration is left alone meanwhile, is given its token or let in
\* (GenerateB2BToken, MerchantAuthMiddleware).
THEOREM NewestIsGranted == Spec => []NewestIsHonoured
<1> DEFINE Inv == IInv /\ GoodStaysGood /\ NewestIsHonoured
<1>1. Init => Inv
  <2> SUFFICES ASSUME Init PROVE Inv
    OBVIOUS
  <2>1. req = Idle
    BY DEF Init
  <2> QED
    BY <2>1, InitInvariant DEF GoodStaysGood, NewestIsHonoured, Answered, Idle
<1>2. Inv /\ [Next]_vars => Inv'
  BY Invariance, GoodStep
<1>3. Inv => NewestIsHonoured
  OBVIOUS
<1> QED
  BY <1>1, <1>2, <1>3, PTL DEF Spec

-----------------------------------------------------------------------------
(* Vendors' requests                                                       *)

\* Nothing that happens to a request after its answer changes whose it is.
LEMMA AnsweredIsKept ==
    ASSUME IInv, [Next]_vars, Answered, Answered'
    PROVE  /\ req'.head = req.head /\ req'.client = req.client /\ req'.proc = req.proc
           /\ req'.token = req.token /\ req'.answer = req.answer
           /\ req'.good => req.good
           /\ run'[req.proc] = run[req.proc]
<1> USE DEF Answered
<1>0. req \in Request /\ TypeOK /\ run \in [Processes -> 0 .. MaxRestarts]
  BY DEF IInv, TypeOK
<1>1. CASE Operate
  <2>1. CASE req' = req /\ run' = run
    BY <2>1
  <2>2. ASSUME NEW c, req' = Disturbed(c), run' = run
        PROVE  /\ req'.head = req.head /\ req'.client = req.client /\ req'.proc = req.proc
               /\ req'.token = req.token /\ req'.answer = req.answer
               /\ req'.good => req.good
               /\ run'[req.proc] = run[req.proc]
    BY <1>0, <2>2, DisturbedRequest
  <2> QED
    BY <1>0, <1>1, <2>1, <2>2, OperatorStep
<1>2. CASE Serve
  <2>1. Respond
    BY <1>2 DEF Serve, TokenRequested, MerchantRequested, VendorRequested, CheckClient,
               IssueToken, CheckBearer, CheckMerchantSignature, AuthenticateVendorRequest
  <2> QED
    BY <2>1 DEF Respond, Idle
<1>3. CASE Tick
  BY <1>3 DEF Tick
<1>4. ASSUME NEW p \in Processes, Restart(p)
      PROVE  req' = req /\ run'[req.proc] = run[req.proc]
  <2>1. req.proc # p /\ req' = req
    BY <1>4 DEF Restart, Idle
  <2> QED
    BY <1>0, <1>4, <2>1 DEF Restart, IInv, RequestInHand
<1>5. CASE UNCHANGED vars
  BY <1>5 DEF vars
<1> QED
  BY <1>1, <1>2, <1>3, <1>4, <1>5 DEF Next

\* A request with a vendor's headers is answered by the vendors' middleware.
LEMMA VendorIsAnswered ==
    ASSUME IInv, [Next]_vars, ~Answered, Answered', req'.head # None
    PROVE  /\ req.pc = "vendor" /\ req.head \in VendorHeaders /\ run' = run
           /\ req'.head = req.head /\ req'.client = req.client /\ req'.proc = req.proc
           /\ req'.token = req.token /\ req'.good = req.good
           /\ req'.answer = MultiVendorSNAPAuth(req.proc, req.head, req.token)
<1> USE DEF Answered
<1>0. req \in Request /\ TypeOK
  BY DEF IInv, TypeOK
<1>1. ~Operate
  BY <1>0, OperatorStep, DisturbedRequest
<1>2. ~Tick /\ ~UNCHANGED vars
  BY <1>0 DEF Tick, Request, vars
<1>3. \A p \in Processes : ~Restart(p)
  BY DEF Restart, Idle
<1>4. /\ \A p \in Processes, c \in Clients, k \in Keys, time \in Timestamps :
             ~TokenRequested(p, c, k, time)
      /\ \A p \in Processes, c \in Clients, s \in Secrets, time \in Timestamps,
            hash \in BodyHashes : ~MerchantRequested(p, c, s, time, hash)
      /\ \A p \in Processes, c \in Clients, h \in VendorHeaders : ~VendorRequested(p, c, h)
      /\ ~Respond
  <2>1. ASSUME NEW p \in Processes, NEW c \in Clients, NEW k \in Keys, NEW time \in Timestamps,
               TokenRequested(p, c, k, time)
        PROVE  FALSE
    <3>1. req'.pc = "app"
      BY <2>1 DEF TokenRequested, Idle
    <3> QED
      BY <3>1
  <2>2. ASSUME NEW p \in Processes, NEW c \in Clients, NEW s \in Secrets,
               NEW time \in Timestamps, NEW hash \in BodyHashes,
               MerchantRequested(p, c, s, time, hash)
        PROVE  FALSE
    <3>1. req'.pc = "token"
      BY <2>2 DEF MerchantRequested, Idle
    <3> QED
      BY <3>1
  <2>3. ASSUME NEW p \in Processes, NEW c \in Clients, NEW h \in VendorHeaders,
               VendorRequested(p, c, h)
        PROVE  FALSE
    <3>1. req'.pc = "vendor"
      BY <2>3 DEF VendorRequested, Idle
    <3> QED
      BY <3>1
  <2>4. ~Respond
    BY DEF Respond
  <2> QED
    BY <2>1, <2>2, <2>3, <2>4
<1>5. ASSUME req.pc \in {"app", "key", "token", "secret"}, NEW a, Answer(a) \/ Fails(a)
      PROVE  FALSE
  <2>1. req'.head = req.head /\ req.head = None
    BY <1>0, <1>5 DEF Answer, Fails, Request, IInv, RequestInHand
  <2> QED
    BY <2>1
<1>6. ASSUME NEW stage \in {"key", "secret"}, req' = [req EXCEPT !.pc = stage]
      PROVE  FALSE
  BY <1>0, <1>6 DEF Request
<1>7. ~CheckClient /\ ~IssueToken /\ ~CheckBearer /\ ~CheckMerchantSignature
  BY <1>5, <1>6 DEF CheckClient, IssueToken, CheckBearer, CheckMerchantSignature
<1>8. AuthenticateVendorRequest
  BY <1>1, <1>2, <1>3, <1>4, <1>7 DEF Next, Serve
<1> QED
  BY <1>0, <1>8 DEF AuthenticateVendorRequest, Answer, Request, IInv, RequestInHand

\* AcceptedAsItself: a request is taken for a vendor's only if it was signed with
\* that vendor's secret, and where it is to have a token with an unexpired one of
\* this process issued to that vendor and bound into the signature
\* (MultiVendorSNAPAuth).
THEOREM AcceptedOnlyAsItself == Spec => []AcceptedAsItself
<1> DEFINE Inv == IInv /\ AcceptedAsItself
<1>1. Init => Inv
  <2>1. Init => AcceptedAsItself
    BY DEF Init, AcceptedAsItself, Answered, Idle
  <2> QED
    BY <2>1, InitInvariant
<1>2. ASSUME Inv, [Next]_vars, Answered', req'.head # None, NEW v \in Vendors,
             req'.answer = v.name
      PROVE  /\ req'.head.signature.secret = v.name
             /\ v.client # None => /\ req'.client = v.client /\ ValidateToken(req.proc, req.token)'
                                   /\ req'.head.signature.token = "sent"
  <2>1. CASE Answered
    BY <1>2, <2>1, AnsweredIsKept DEF AcceptedAsItself, ValidateToken
  <2>2. CASE ~Answered
    <3>1. /\ req.head \in VendorHeaders /\ run' = run
          /\ req'.head = req.head /\ req'.client = req.client /\ req'.proc = req.proc
          /\ req'.token = req.token
          /\ req'.answer = MultiVendorSNAPAuth(req.proc, req.head, req.token)
      BY <1>2, <2>2, VendorIsAnswered
    <3>2. req'.answer \notin Rejections
      BY <1>2, NameAssumption
    <3>3. PICK u \in Vendors : /\ AuthenticateVendor(req.proc, req.head, req.token, u) = "ok"
                               /\ req'.answer = u.name
      BY <3>1, <3>2, AnswerOfMiddleware
    <3>4. u = v
      <4>1. PICK i \in DOMAIN VendorConfigs : u = VendorConfigs[i]
        BY DEF Vendors
      <4>2. PICK j \in DOMAIN VendorConfigs : v = VendorConfigs[j]
        BY DEF Vendors
      <4> QED
        BY <1>2, <3>3, <4>1, <4>2, VendorAssumption
    <3>5. /\ req.head.signature.secret = v.name
          /\ v.client # None => /\ ValidateToken(req.proc, req.token) /\ req.token.client = v.client
                                /\ req.head.signature.token = "sent"
      BY <3>3, <3>4, VerifiedIsSigned
    <3>6. req.token # None => req.token.client = req.client
      BY <1>2 DEF IInv, TokenIsOwn
    <3> QED
      BY <3>1, <3>5, <3>6 DEF ValidateToken
  <2> QED
    BY <2>1, <2>2
<1>3. Inv /\ [Next]_vars => Inv'
  <2> SUFFICES ASSUME Inv, [Next]_vars PROVE Inv'
    OBVIOUS
  <2>1. AcceptedAsItself'
    BY <1>2 DEF AcceptedAsItself, ValidateToken
  <2> QED
    BY <2>1, Invariance
<1>4. Inv => AcceptedAsItself
  OBVIOUS
<1> QED
  BY <1>1, <1>3, <1>4, PTL DEF Spec

\* GenuineVendorIsHeard: whatever other vendors are configured, and in whatever
\* order, a request as a vendor is to send it is taken for that vendor's
\* (MultiVendorSNAPAuth, candidateVendors).
THEOREM GenuineIsHeard == Spec => []GenuineVendorIsHeard
<1> DEFINE Inv == IInv /\ GoodStaysGood /\ NewestIsHonoured /\ GenuineVendorIsHeard
<1>1. Init => Inv
  <2> SUFFICES ASSUME Init PROVE Inv
    OBVIOUS
  <2>1. req = Idle
    BY DEF Init
  <2> QED
    BY <2>1, InitInvariant
       DEF GoodStaysGood, NewestIsHonoured, GenuineVendorIsHeard, Answered, Idle
<1>2. ASSUME Inv, [Next]_vars, Answered', req'.head # None, NEW v \in Vendors,
             GenuineHeaders(req'.head, v), v.client # None => req'.good /\ req'.client = v.client
      PROVE  req'.answer = v.name
  <2>1. CASE Answered
    BY <1>2, <2>1, AnsweredIsKept DEF GenuineVendorIsHeard
  <2>2. CASE ~Answered
    <3>1. /\ req.pc = "vendor" /\ req.head \in VendorHeaders
          /\ req'.head = req.head /\ req'.client = req.client /\ req'.good = req.good
          /\ req'.answer = MultiVendorSNAPAuth(req.proc, req.head, req.token)
      BY <1>2, <2>2, VendorIsAnswered
    <3>2. v.client # None => /\ ValidateToken(req.proc, req.token)
                             /\ req.token.client = v.client
      BY <1>2, <3>1 DEF GoodStaysGood, IInv, TokenIsOwn, ValidateToken
    <3>3. AuthenticateVendor(req.proc, req.head, req.token, v) = "ok" /\ Claims(req.head, v)
      BY <1>2, <3>1, <3>2, GenuineIsVerified
    <3>4. PICK u \in Vendors : /\ AuthenticateVendor(req.proc, req.head, req.token, u) = "ok"
                               /\ req'.answer = u.name
      BY <3>1, <3>3, AnswerOfMiddleware
    <3>5. u.name = req.head.signature.secret
      BY <3>4, VerifiedIsSigned
    <3>6. v.name = req.head.signature.secret
      BY <3>3, VerifiedIsSigned
    <3> QED
      BY <3>4, <3>5, <3>6
  <2> QED
    BY <2>1, <2>2
<1>3. Inv /\ [Next]_vars => Inv'
  <2> SUFFICES ASSUME Inv, [Next]_vars PROVE Inv'
    OBVIOUS
  <2>1. GenuineVendorIsHeard'
    BY <1>2 DEF GenuineVendorIsHeard, GenuineHeaders, ValidateSNAPHeaders, ValidateTimestamp
  <2> QED
    BY <2>1, Invariance, GoodStep
<1>4. Inv => GenuineVendorIsHeard
  OBVIOUS
<1> QED
  BY <1>1, <1>3, <1>4, PTL DEF Spec
=============================================================================
