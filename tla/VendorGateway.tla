--------------------------- MODULE VendorGateway ---------------------------
(***************************************************************************)
(* The outbound SNAP client (adapter/gateway/snap): the token provider,    *)
(* shared by every call to one vendor, and the signed request itself.      *)
(*                                                                         *)
(* Time is counted in ticks.  What is kept of a token is how long it still *)
(* lives: at the vendor, from the moment it was issued, and by the         *)
(* provider's own reckoning, from the moment its answer was read.  The two *)
(* differ by the time the answer travelled, and a request travels again    *)
(* before the vendor looks at its token; neither takes more than the       *)
(* RequestTimeout after which the HTTP clients give up.  Signing, building *)
(* and logging a request take no time.                                     *)
(***************************************************************************)
EXTENDS Integers

CONSTANTS
    Callers,            \* goroutines that call the vendor in this process
    TokenRefreshMargin, \* tokenRefreshMargin
    RequestTimeout,     \* VendorConfig.RequestTimeout, of both HTTP clients
    DefaultExpiresIn,   \* SNAP's documented lifetime
    ExpiresIns,         \* expiresIn as vendors send it; Unreadable when absent
    Unreadable,
    None                \* no caller, no answer

ASSUME GatewayAssumption ==
    /\ TokenRefreshMargin \in Nat
    /\ RequestTimeout \in Nat
    /\ DefaultExpiresIn \in Nat \ {0}
    /\ ExpiresIns \subseteq Int \cup {Unreadable}
    /\ Unreadable \notin Int
    /\ None \notin Callers

VARIABLES
    token,   \* TokenProvider.token and expiresAt
    mutex,   \* TokenProvider.mu, held over the token request
    call     \* each caller's PaymentStatus call

gatewayVars == <<token, mutex, call>>

-----------------------------------------------------------------------------

\* normalizeExpiresIn: "900" and 900 alike, and the default for anything that
\* is not a positive number.
NormalizeExpiresIn(raw) ==
    IF raw # Unreadable /\ raw > 0 THEN raw ELSE DefaultExpiresIn

\* How long the vendor honours a token it issued with this expiresIn.
VendorLifetime(raw) ==
    IF raw # Unreadable /\ raw > 0 THEN raw ELSE DefaultExpiresIn

\* The zero value of the provider's token.
NoToken == [held |-> FALSE, left |-> 0, local |-> 0]

\* No call under way.
NoCall == [pc |-> "idle", left |-> 0, reply |-> None, live |-> TRUE]

\* The call returns an error.
Failed == [NoCall EXCEPT !.pc = "done", !.reply = "error"]

Positive(n) == IF n > 0 THEN n ELSE 0

\* How long an answer or a request may be under way.
Delays == 0 .. RequestTimeout

\* The results a call may have are its caller's to name.
GatewayTypeOK(Replies) ==
    /\ token \in [held: BOOLEAN, left: Nat, local: Nat]
    /\ mutex \in Callers \cup {None}
    /\ call \in [Callers -> [pc: {"idle", "token", "fetching", "sent", "done"},
                            left: Nat, reply: Replies, live: BOOLEAN]]

GatewayInit ==
    /\ token = NoToken
    /\ mutex = None
    /\ call = [c \in Callers |-> NoCall]

-----------------------------------------------------------------------------
(* TokenProvider.AccessToken                                               *)

\* Mutant: the margin is left out.
CachedUntilExpiry == token.held /\ token.local > 0

\* token # "" and now + tokenRefreshMargin before expiresAt.
CachedTokenIsFresh == token.held /\ token.local > TokenRefreshMargin

\* PaymentStatus begins: the request is built, the token is asked for.
BeginCall(c) == call' = [call EXCEPT ![c] = [NoCall EXCEPT !.pc = "token"]]

\* mu is free and the cached token is fresh: the request is signed with it
\* and sent.
UseCachedToken(c) ==
    /\ call[c].pc = "token"
    /\ mutex = None
    /\ CachedTokenIsFresh
    /\ call' = [call EXCEPT ![c].pc = "sent", ![c].left = token.left]
    /\ UNCHANGED <<token, mutex>>

\* mu is free and the cached token is not fresh: a token request is sent, with
\* mu held.
FetchToken(c) ==
    /\ call[c].pc = "token"
    /\ mutex = None
    /\ ~CachedTokenIsFresh
    /\ mutex' = c
    /\ call' = [call EXCEPT ![c].pc = "fetching"]
    /\ UNCHANGED token

\* The token response is read, a delay after the vendor issued the token:
\* expiresAt counts from now, mu is released, the request is signed with the
\* token and sent.
TokenArrives(c, raw, delay) ==
    /\ call[c].pc = "fetching"
    /\ LET left == Positive(VendorLifetime(raw) - delay)
       IN  /\ token' = [held |-> TRUE, left |-> left, local |-> NormalizeExpiresIn(raw)]
           /\ call' = [call EXCEPT ![c].pc = "sent", ![c].left = left]
    /\ mutex' = None

\* Mutant: an error leaves the mutex held.
TokenFailsHoldingMutex(c) ==
    /\ call[c].pc = "fetching"
    /\ token' = NoToken
    /\ call' = [call EXCEPT ![c] = Failed]
    /\ UNCHANGED mutex

\* fetch returns an error (no answer in time, a status of 400 or more, a body
\* that does not parse or carries no accessToken): the cached token is
\* dropped and the call fails.
TokenFails(c) ==
    /\ call[c].pc = "fetching"
    /\ token' = NoToken
    /\ mutex' = None
    /\ call' = [call EXCEPT ![c] = Failed]

-----------------------------------------------------------------------------
(* Client.doRequest                                                        *)

\* The request reaches the vendor after a delay.  The vendor answers with a
\* body of its own choosing, or refuses a token it no longer honours; a body
\* with a status below 500 is the caller's to read.
ResponseArrives(c, reply, delay) ==
    /\ call[c].pc = "sent"
    /\ LET live == call[c].left > delay
       IN  call' = [call EXCEPT ![c] =
                      [pc |-> "done", left |-> 0, live |-> live,
                       reply |-> IF live THEN reply ELSE "unauthorized"]]
    /\ UNCHANGED <<token, mutex>>

\* No answer in time, a status of 500 or more, or a body that does not parse.
RequestFails(c) ==
    /\ call[c].pc = "sent"
    /\ call' = [call EXCEPT ![c] = Failed]
    /\ UNCHANGED <<token, mutex>>

\* The caller has read the result.
EndCall(c) == call' = [call EXCEPT ![c] = NoCall]

-----------------------------------------------------------------------------

\* Time passes for the cached token, as long as it makes a difference: a token
\* that is not fresh is replaced before it is sent, whatever is left of it.
GatewayTick ==
    /\ CachedTokenIsFresh
    /\ token' = [token EXCEPT !.left = Positive(@ - 1), !.local = @ - 1]
    /\ UNCHANGED <<mutex, call>>

\* The process dies: the token, the mutex and the calls are gone.
GatewayCrash ==
    /\ token' = NoToken
    /\ mutex' = None
    /\ call' = [c \in Callers |-> NoCall]

-----------------------------------------------------------------------------
(* Properties                                                              *)

\* "removes the race where a token that was valid when we checked has expired
\* by the time the vendor validates it" (token_provider.go): no request ever
\* reaches the vendor with a token it no longer honours, whether the token
\* was cached or fetched for it.
TokenIsLiveOnArrival == \A c \in Callers : call[c].live

\* AccessToken holds mu over the network: only the call that is asking for a
\* token holds it, so at most one token request is ever under way and a token
\* is not thrown away by a second answer.
OneTokenRequest ==
    \A c \in Callers : call[c].pc = "fetching" <=> mutex = c
=============================================================================
