---------------------------- MODULE ClientAccess ----------------------------
(***************************************************************************)
(* Who may call: client onboarding by operators (client_usecase), the      *)
(* access tokens each process issues and honours (token_usecase,           *)
(* jwt_issuer), and the two middlewares that authenticate a request, of a  *)
(* merchant (merchant_auth) and of a vendor (snap_auth).                   *)
(*                                                                         *)
(* Credentials are kept per client in the order of their created_at.  A    *)
(* signature is what was signed: the key or secret, the token bound into   *)
(* it and the form of the body hash.  One request is in flight at a time:  *)
(* requests write nothing, so what a request meets is the operators, the   *)
(* clock and restarts.                                                     *)
(***************************************************************************)
EXTENDS Integers, Sequences, FiniteSetsExt

CONSTANTS
    Clients,        \* client_apps.client_id
    Keys,           \* key pairs, each registered under a key_id of its own
    Secrets,        \* shared secrets, likewise
    Processes,      \* replicas of the service
    Lifetime,       \* ticks an access token lives: 900 seconds
    MaxRestarts,    \* bound: restarts of a process
    MaxRecords,     \* bound: credentials registered per client
    LegacyBodyHash, \* MERCHANT_LEGACY_BODY_HASH
    SkipSkewCheck,  \* APP_ENV is dev or uat
    VendorConfigs,  \* the vendors' configurations, in the order they are loaded
    VendorHeaders,  \* headers vendors send, but for their token
    None

ASSUME AccessAssumption ==
    /\ Lifetime \in Nat \ {0} /\ MaxRestarts \in Nat /\ MaxRecords \in Nat
    /\ LegacyBodyHash \in BOOLEAN /\ SkipSkewCheck \in BOOLEAN
    /\ None \notin Clients \cup Keys \cup Secrets \cup Processes \cup VendorHeaders
    /\ None \notin {"ACTIVE", "REVOKED", "sent"}

\* The vendors' routes ask for credentials only when a vendor is configured.  A
\* vendor is one .env.<vendor>.<channel> file, so that one name is one
\* configuration; the name stands here for its secret too: vendors have secrets
\* of their own.
ASSUME VendorAssumption ==
    /\ VendorConfigs \in Seq([name: STRING, partner: SUBSET STRING, channel: SUBSET STRING,
                              client: Clients \cup {None}, strict: BOOLEAN,
                              required: SUBSET STRING, hash: {"hex", "base64"}])
    /\ VendorConfigs # << >>
    /\ \A i, j \in DOMAIN VendorConfigs :
           VendorConfigs[i].name = VendorConfigs[j].name => VendorConfigs[i] = VendorConfigs[j]

VARIABLES
    apps,        \* client_apps.status, None before the client is registered
    keys,        \* client_keys
    secrets,     \* client_secrets
    registering, \* RegisterClient between its two statements
    run,         \* which run of each process: its JWT keys are made at startup
    tok,         \* the token each client obtained last
    req          \* the request in flight

store == <<apps, keys, secrets, registering>>
vars == <<store, run, tok, req>>

-----------------------------------------------------------------------------

\* A timestamp within five minutes of now, one that is not, and one that does not
\* parse.
Timestamps == {"fresh", "stale", "malformed"}

\* Only the age is forgiven where skipSkewCheck is set.
InWindow(time) == time = "fresh" \/ (time = "stale" /\ SkipSkewCheck)

\* The spec's hex, and the superseded base64 forms, of the minified body or of
\* the raw one.
BodyHashes == {"hex", "base64"}

\* A token: who it names, which run of which process signed it, and how many
\* ticks it still lives.
Token == [client: Clients, proc: Processes, run: 0 .. MaxRestarts, left: 0 .. Lifetime]

ASSUME NoTokenAssumption == None \notin Token

\* The rows of client_keys and client_secrets.
KeyRow == [id: Keys, active: BOOLEAN]
SecretRow == [id: Secrets, active: BOOLEAN]

\* What a merchant or vendor signs with its shared secret.  Of the access token
\* bound into it there is whether it is the one sent along ("sent"), some other
\* string, or none.
Signed(secret, token, hash) == [secret |-> secret, token |-> token, hash |-> hash]

\* X-SIGNATURE, if it is sent.
ASSUME SignatureAssumption ==
    \A h \in VendorHeaders : LET x == h.signature
                             IN  x # None => x = Signed(x.secret, x.token, x.hash)

Stages == {"idle", "app", "key", "token", "secret", "vendor", "answered"}

Idle == [pc |-> "idle", proc |-> None, client |-> None, time |-> "fresh", by |-> None,
         token |-> None, hash |-> None, head |-> None, good |-> FALSE,
         dead |-> FALSE, answer |-> None]

\* How a request is refused, and how it is granted: a vendor's is answered with
\* the name of the vendor it was taken for.
Rejections == {"invalidTimestamp", "unknownClient", "signature", "invalidToken", "noSecret",
               "timestamp", "missing", "invalidField", "unknownChannel", "skew", "internalError"}
Vendors == {VendorConfigs[i] : i \in DOMAIN VendorConfigs}

\* An answer is one or the other.
ASSUME NameAssumption == {v.name : v \in Vendors} \cap Rejections = {}

Granted == {"issued", "accepted"} \cup {v.name : v \in Vendors}

Request ==
    [pc: Stages, proc: Processes \cup {None}, client: Clients \cup {None}, time: Timestamps,
     by: Keys \cup Secrets \cup {None}, token: Token \cup {None},
     hash: BodyHashes \cup {None}, head: VendorHeaders \cup {None}, good: BOOLEAN,
     dead: BOOLEAN, answer: Rejections \cup Granted \cup {None}]

TypeOK ==
    /\ apps \in [Clients -> {None, "ACTIVE", "REVOKED"}]
    /\ keys \in [Clients -> Seq(KeyRow)]
    /\ secrets \in [Clients -> Seq(SecretRow)]
    /\ tok \in [Clients -> Token \cup {None}]
    /\ \A c \in Clients :
        \* UNIQUE (client_id, key_id) and (client_id, secret_id), REFERENCES client_apps
        /\ IsInjective([i \in DOMAIN keys[c] |-> keys[c][i].id])
        /\ IsInjective([i \in DOMAIN secrets[c] |-> secrets[c][i].id])
        /\ keys[c] # << >> \/ secrets[c] # << >> => apps[c] # None
    /\ registering \in [client: Clients, key: Keys] \cup {None}
    /\ run \in [Processes -> 0 .. MaxRestarts]
    /\ req \in Request

Init ==
    /\ apps = [c \in Clients |-> None]
    /\ keys = [c \in Clients |-> << >>]
    /\ secrets = [c \in Clients |-> << >>]
    /\ registering = None
    /\ run = [p \in Processes |-> 0]
    /\ tok = [c \in Clients |-> None]
    /\ req = Idle

\* The ids on file, and the active ones, of a sequence of credentials.
OnFile(creds) == {creds[i].id : i \in DOMAIN creds}

\* Mutant: the newest credential, revoked or not.
NewestOnFile(creds) == IF creds = << >> THEN None ELSE creds[Len(creds)].id

\* WHERE is_active = true ORDER BY created_at DESC LIMIT 1
\* (GetActiveClientPublicKey, GetActiveClientSecret).
NewestActive(creds) ==
    LET active == {i \in DOMAIN creds : creds[i].active}
    IN  IF active = {} THEN None ELSE creds[Max(active)].id

\* For the properties: id is active and none registered after it is.
Latest(creds, id) ==
    \E i \in DOMAIN creds :
        /\ creds[i].id = id /\ creds[i].active
        /\ \A j \in DOMAIN creds : j > i => ~creds[j].active

\* Likewise: id is on file and no longer active.
IsRevoked(creds, id) ==
    id \in OnFile(creds) /\ \A i \in DOMAIN creds : creds[i].id = id => ~creds[i].active

\* is_active = false for one credential.
Revoked(creds, id) ==
    [i \in DOMAIN creds |-> IF creds[i].id = id THEN [creds[i] EXCEPT !.active = FALSE]
                            ELSE creds[i]]

\* What operators did to client c's credentials may reach the request.
Disturbed(c) == [req EXCEPT !.good = @ /\ req.client # c]

-----------------------------------------------------------------------------
(* Operators: ClientUsecase                                                *)

\* RegisterClient, first statement: the client_app.  UNIQUE (client_id) refuses
\* a second one.
CreateClient(c, k) ==
    /\ registering = None /\ apps[c] = None
    /\ apps' = [apps EXCEPT ![c] = "ACTIVE"]
    /\ registering' = [client |-> c, key |-> k]
    /\ req' = Disturbed(c)
    /\ UNCHANGED <<keys, secrets, run, tok>>

\* A key is inserted unless its key_id is taken.
InsertKey(c, k) ==
    /\ apps[c] # None /\ k \notin OnFile(keys[c]) /\ Len(keys[c]) < MaxRecords
    /\ keys' = [keys EXCEPT ![c] = Append(@, [id |-> k, active |-> TRUE])]
    /\ req' = Disturbed(c)

\* RegisterClient, second statement: the first key.
CreateFirstKey ==
    /\ registering # None
    /\ InsertKey(registering.client, registering.key)
    /\ registering' = None
    /\ UNCHANGED <<apps, secrets, run, tok>>

\* The second statement fails: the operator has a 500 and the client_app stays.
FirstKeyFails ==
    /\ registering # None
    /\ registering' = None
    /\ UNCHANGED <<apps, keys, secrets, run, tok, req>>

\* AddClientKey.
AddClientKey(c, k) ==
    /\ InsertKey(c, k)
    /\ UNCHANGED <<apps, secrets, registering, run, tok>>

\* RevokeClientKey: an UPDATE that may match no row.
RevokeClientKey(c, k) ==
    /\ k \in OnFile(keys[c])
    /\ keys' = [keys EXCEPT ![c] = Revoked(@, k)]
    /\ req' = Disturbed(c)
    /\ UNCHANGED <<apps, secrets, registering, run, tok>>

\* AddClientSecret.
AddClientSecret(c, s) ==
    /\ apps[c] # None /\ s \notin OnFile(secrets[c]) /\ Len(secrets[c]) < MaxRecords
    /\ secrets' = [secrets EXCEPT ![c] = Append(@, [id |-> s, active |-> TRUE])]
    /\ req' = Disturbed(c)
    /\ UNCHANGED <<apps, keys, registering, run, tok>>

\* RevokeClientSecret.
RevokeClientSecret(c, s) ==
    /\ s \in OnFile(secrets[c])
    /\ secrets' = [secrets EXCEPT ![c] = Revoked(@, s)]
    /\ req' = Disturbed(c)
    /\ UNCHANGED <<apps, keys, registering, run, tok>>

\* A client's status is changed in the database: no endpoint does.
RevokeClient(c) ==
    /\ apps[c] = "ACTIVE"
    /\ apps' = [apps EXCEPT ![c] = "REVOKED"]
    /\ req' = Disturbed(c)
    /\ UNCHANGED <<keys, secrets, registering, run, tok>>

-----------------------------------------------------------------------------
(* Tokens: JWTIssuer                                                       *)

\* A process restarts with new JWT keys (generateDefaultRSAKeys); the request
\* it was serving is gone.
Restart(p) ==
    /\ run[p] < MaxRestarts
    /\ run' = [run EXCEPT ![p] = @ + 1]
    /\ req' = IF req.proc = p THEN Idle ELSE req
    /\ UNCHANGED <<store, tok>>

\* A tick of every token's life.
Tick ==
    /\ \E c \in Clients : tok[c] # None /\ tok[c].left > 0
    /\ LET Older(t) == IF t # None /\ t.left > 0 THEN [t EXCEPT !.left = @ - 1] ELSE t
       IN  /\ tok' = [c \in Clients |-> Older(tok[c])]
           /\ req' = IF req.pc = "answered" THEN req
                     ELSE [req EXCEPT !.token = Older(@),
                                      !.good = @ /\ (req.token # None => req.token.left > 1)]
    /\ UNCHANGED <<store, run>>

\* ValidateToken at process p: signed with this run's key, and not expired.
ValidateToken(p, t) == t # None /\ t.proc = p /\ t.run = run[p] /\ t.left > 0

-----------------------------------------------------------------------------
(* POST /access-token/b2b: TokenUsecase.GenerateB2BToken                   *)

\* A client asks process p for a token, signing with one of its keys.  "good"
\* is: with the one that is the newest active, and in order otherwise; "dead":
\* with one that had been revoked.
TokenRequested(p, c, k, time) ==
    /\ req.pc = "idle"
    /\ req' = [Idle EXCEPT !.pc = "app", !.proc = p, !.client = c, !.by = k, !.time = time,
                           !.good = time = "fresh" /\ apps[c] = "ACTIVE"
                                    /\ Latest(keys[c], k),
                           !.dead = IsRevoked(keys[c], k)]
    /\ UNCHANGED <<store, run, tok>>

\* The answer.
Answer(a) == req' = [req EXCEPT !.pc = "answered", !.answer = a]

\* The answer when a query fails, which no request can help.
Fails(a) == req' = [req EXCEPT !.pc = "answered", !.answer = a, !.good = FALSE]

\* The headers are checked, then GetClientByID.
CheckClient ==
    /\ req.pc = "app"
    /\ \/ ~InWindow(req.time) /\ Answer("invalidTimestamp")
       \/ /\ InWindow(req.time)
          /\ \/ apps[req.client] # "ACTIVE" /\ Answer("unknownClient")
             \/ apps[req.client] = "ACTIVE" /\ req' = [req EXCEPT !.pc = "key"]
             \/ Fails("internalError")
    /\ UNCHANGED <<store, run, tok>>

\* GetActiveClientPublicKey, any error of which is an unknown client, the
\* verification and the token.
IssueToken ==
    /\ req.pc = "key"
    /\ LET k == NewestActive(keys[req.client])
       IN  \/ k = None /\ Answer("unknownClient") /\ UNCHANGED tok
           \/ Fails("unknownClient") /\ UNCHANGED tok
           \/ k \notin {None, req.by} /\ Answer("signature") /\ UNCHANGED tok
           \/ /\ k = req.by
              /\ tok' = [tok EXCEPT ![req.client] =
                           [client |-> req.client, proc |-> req.proc,
                            run |-> run[req.proc], left |-> Lifetime]]
              /\ Answer("issued")
    /\ UNCHANGED <<store, run>>

-----------------------------------------------------------------------------
(* Merchant requests: MerchantAuthMiddleware                               *)

\* A merchant calls process p with its token, signing with one of its secrets.
MerchantRequested(p, c, s, time, hash) ==
    /\ req.pc = "idle"
    /\ tok[c] # None
    /\ req' = [Idle EXCEPT !.pc = "token", !.proc = p, !.client = c, !.by = s, !.time = time,
                           !.token = tok[c], !.hash = hash,
                           !.good = time = "fresh" /\ hash = "hex"
                                    /\ ValidateToken(p, tok[c])
                                    /\ Latest(secrets[c], s),
                           !.dead = IsRevoked(secrets[c], s)]
    /\ UNCHANGED <<store, run, tok>>

\* The bearer token.
CheckBearer ==
    /\ req.pc = "token"
    /\ \/ ~ValidateToken(req.proc, req.token) /\ Answer("invalidToken")
       \/ ValidateToken(req.proc, req.token) /\ req' = [req EXCEPT !.pc = "secret"]
    /\ UNCHANGED <<store, run, tok>>

\* verifyMerchantSignature: the spec's hex, and during the cutover the two
\* superseded forms.
AcceptedHashes == IF LegacyBodyHash THEN BodyHashes ELSE {"hex"}

\* GetActiveClientSecret, any error of which is a missing secret, the timestamp
\* and the signature.
CheckMerchantSignature ==
    /\ req.pc = "secret"
    /\ LET s == NewestActive(secrets[req.client])
           valid == req.by = s /\ req.hash \in AcceptedHashes
       IN  \/ s = None /\ Answer("noSecret")
           \/ Fails("noSecret")
           \/ s # None /\ ~InWindow(req.time) /\ Answer("timestamp")
           \/ s # None /\ InWindow(req.time) /\ ~valid /\ Answer("signature")
           \/ s # None /\ InWindow(req.time) /\ valid /\ Answer("accepted")
    /\ UNCHANGED <<store, run, tok>>

-----------------------------------------------------------------------------
(* Vendor requests: MultiVendorSNAPAuth                                    *)

\* documentedTransferVAHeaders, as far as a configuration asks for them.
Documented == {"timestamp", "signature", "partner", "channel", "externalId"}

\* A header that is not pinned, or not sent, rules no vendor out.
Claims(h, v) ==
    /\ v.partner # {} /\ h.partner # None => h.partner \in v.partner
    /\ v.channel # {} /\ h.channel # None => h.channel \in v.channel

\* Mutant: the vendor that was registered last, as when every vendor had a route
\* of its own.
LastVendorOnly(h) == {Len(VendorConfigs)}

\* candidateVendors: those whose pins match, or all when none does, as places
\* in the order they are tried.
CandidateVendors(h) ==
    LET claimed == {i \in DOMAIN VendorConfigs : Claims(h, VendorConfigs[i])}
    IN  IF claimed = {} THEN DOMAIN VendorConfigs ELSE claimed

\* validatePinnedHeader.
PinnedHeader(value, allowed, mismatch) ==
    IF allowed = {} THEN "ok"
    ELSE IF value = None THEN "missing"
    ELSE IF value \notin allowed THEN mismatch
    ELSE "ok"

\* X-EXTERNAL-ID: mandatory, at most 36 long, numeric for strict vendors.
ExternalId(h, v) ==
    IF h.externalId = None THEN "missing"
    ELSE IF h.externalId = "long" THEN "invalidField"
    ELSE IF v.strict /\ h.externalId # "numeric" THEN "invalidField"
    ELSE "ok"

\* validateSNAPHeaders: the required headers BCA documents, X-TIMESTAMP and
\* X-SIGNATURE when none is configured, then the pins and X-EXTERNAL-ID.
ValidateSNAPHeaders(h, v) ==
    LET required == IF v.required = {} THEN {"timestamp", "signature"} ELSE v.required
        channel == PinnedHeader(h.channel, v.channel, "unknownChannel")
        partner == PinnedHeader(h.partner, v.partner, "unknownClient")
    IN  IF \E n \in required \cap Documented : h[n] = None THEN "missing"
        ELSE IF channel # "ok" THEN channel
        ELSE IF partner # "ok" THEN partner
        ELSE ExternalId(h, v)

\* validateSNAPTimestamp.
ValidateTimestamp(h) ==
    IF h.timestamp \in {None, "malformed"} THEN "invalidField"
    ELSE IF ~InWindow(h.timestamp) THEN "skew"
    ELSE "ok"

\* Mutant: a token only has to name the client.
ResolveClientOnly(p, t, v) ==
    IF v.client = None THEN "ok"
    ELSE IF t = None THEN "invalidToken"
    ELSE IF t.client # v.client THEN "unknownClient"
    ELSE "ok"

\* resolveVendorAccessToken: a vendor with a ClientID must present a valid
\* token that names it; the token is bound into the signature.
ResolveAccessToken(p, t, v) ==
    IF v.client = None THEN "ok"
    ELSE IF ~ValidateToken(p, t) THEN "invalidToken"
    ELSE IF t.client # v.client THEN "unknownClient"
    ELSE "ok"

\* The token that v binds into its signatures: the one it sends, if it has a
\* ClientID.
Bound(v) == IF v.client = None THEN None ELSE "sent"

\* symmetricSignature.verify with the vendor's secret and encoding.
SignatureVerifies(h, v) == h.signature # None /\ h.signature = Signed(v.name, Bound(v), v.hash)

\* authenticateVendor.
AuthenticateVendor(p, h, t, v) ==
    LET headers == ValidateSNAPHeaders(h, v)
        timestamp == ValidateTimestamp(h)
        bearer == ResolveAccessToken(p, t, v)
    IN  IF headers # "ok" THEN headers
        ELSE IF timestamp # "ok" THEN timestamp
        ELSE IF bearer # "ok" THEN bearer
        ELSE IF ~SignatureVerifies(h, v) THEN "signature"
        ELSE "ok"

\* MultiVendorSNAPAuth: the first candidate that verifies owns the request; if
\* none does, the first candidate's rejection is reported.
MultiVendorSNAPAuth(p, h, t) ==
    LET candidates == CandidateVendors(h)
        Rejection(i) == AuthenticateVendor(p, h, t, VendorConfigs[i])
        verified == {i \in candidates : Rejection(i) = "ok"}
    IN  IF verified # {} THEN VendorConfigs[Min(verified)].name
        ELSE Rejection(Min(candidates))

\* A vendor calls process p, with the token of client c if it has one.
VendorRequested(p, c, h) ==
    /\ req.pc = "idle"
    /\ req' = [Idle EXCEPT !.pc = "vendor", !.proc = p, !.client = c, !.head = h,
                           !.token = tok[c],
                           !.good = ValidateToken(p, tok[c])]
    /\ UNCHANGED <<store, run, tok>>

\* The middleware reads nothing but the request and the configuration.
AuthenticateVendorRequest ==
    /\ req.pc = "vendor"
    /\ Answer(MultiVendorSNAPAuth(req.proc, req.head, req.token))
    /\ UNCHANGED <<store, run, tok>>

\* The answer has been sent.
Respond ==
    /\ req.pc = "answered"
    /\ req' = Idle
    /\ UNCHANGED <<store, run, tok>>

-----------------------------------------------------------------------------

Operate ==
    \/ CreateFirstKey \/ FirstKeyFails
    \/ \E c \in Clients : RevokeClient(c)
    \/ \E c \in Clients, k \in Keys :
           CreateClient(c, k) \/ AddClientKey(c, k) \/ RevokeClientKey(c, k)
    \/ \E c \in Clients, s \in Secrets : AddClientSecret(c, s) \/ RevokeClientSecret(c, s)

Serve ==
    \/ \E p \in Processes, c \in Clients, k \in Keys, time \in Timestamps :
           TokenRequested(p, c, k, time)
    \/ \E p \in Processes, c \in Clients, s \in Secrets, time \in Timestamps, hash \in BodyHashes :
           MerchantRequested(p, c, s, time, hash)
    \/ \E p \in Processes, c \in Clients, h \in VendorHeaders : VendorRequested(p, c, h)
    \/ CheckClient \/ IssueToken \/ CheckBearer \/ CheckMerchantSignature
    \/ AuthenticateVendorRequest \/ Respond

Next == Operate \/ Serve \/ Tick \/ \E p \in Processes : Restart(p)

Spec == Init /\ [][Next]_vars

-----------------------------------------------------------------------------
(* Properties                                                              *)

Answered == req.pc = "answered"

\* The headers and signature vendor v is to send.
GenuineHeaders(h, v) ==
    /\ ValidateSNAPHeaders(h, v) = "ok" /\ ValidateTimestamp(h) = "ok"
    /\ h.signature # None /\ h.signature.secret = v.name
    /\ h.signature.hash = v.hash /\ h.signature.token = Bound(v)

\* "Revokes (deactivates) a client's public key so it can no longer be used to
\* verify signatures" (RevokeClientKey, RevokeClientSecret): a request that
\* begins after a credential was revoked is never granted on it, whatever
\* operators do meanwhile.
RevokedIsRefused == Answered /\ req.dead => req.answer \notin {"issued", "accepted"}

\* Rotation, as the middlewares see it: a request signed with the credential
\* that is the newest active one, and left alone while it is served, is
\* granted, at any replica that can know its token.
NewestIsHonoured == Answered /\ req.good /\ req.head = None => req.answer \in {"issued", "accepted"}

\* Every vendor is reachable whatever other vendors are configured
\* (MultiVendorSNAPAuth: "only the last vendor registered was ever
\* reachable"): a request as vendor v is to send it is accepted as v's.
GenuineVendorIsHeard ==
    Answered /\ req.head # None =>
        \A v \in Vendors :
            GenuineHeaders(req.head, v) /\ (v.client # None => req.good /\ req.client = v.client)
                => req.answer = v.name

\* "The first vendor whose credentials verify owns the request": a request is
\* taken for a vendor's only if it was signed with that vendor's secret, and
\* the token that vendor was issued and sends along.
AcceptedAsItself ==
    Answered /\ req.head # None =>
        \A v \in Vendors : req.answer = v.name =>
            /\ req.head.signature.secret = v.name
            /\ v.client # None => /\ req.client = v.client /\ ValidateToken(req.proc, req.token)
                                  /\ req.head.signature.token = "sent"

\* "Both support a zero-downtime overlap window (old and new credential both
\* active simultaneously)" (docs/guides/merchant-onboarding.md): an active
\* client is given a token on any of its active keys.
OverlapWindow ==
    Answered /\ req.answer = "signature" /\ req.head = None /\ req.token = None =>
        \A i \in DOMAIN keys[req.client] :
            keys[req.client][i].active => keys[req.client][i].id # req.by

\* "Given a valid, active access token generated by the gateway ... the system
\* MUST return token validity" (specs/001): a token that has not expired is
\* honoured, by any replica.
TokenIsHonoured ==
    Answered /\ req.answer = "invalidToken" /\ req.head = None => req.token.left = 0

\* "the first candidate's rejection is the one reported, since that is the
\* vendor the headers claimed to be" (MultiVendorSNAPAuth): a request with a
\* vendor's own pins, signed with its secret, is rejected in that vendor's
\* terms.
RejectionIsTheClaimed ==
    Answered /\ req.head # None =>
        \A v \in Vendors :
            /\ v.partner # {} /\ req.head.partner \in v.partner
            /\ req.head.channel \in v.channel
            /\ req.answer \notin {u.name : u \in Vendors}
            => req.answer = AuthenticateVendor(req.proc, req.head, req.token, v)
=============================================================================
