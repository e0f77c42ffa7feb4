-------------------------- MODULE QuickBooksClient --------------------------
(***************************************************************************)
(* The QuickBooks API client and its tokens (integrations/quickbooks/      *)
(* api_client.py, client.py, repository.py, models.py, router.py).         *)
(*                                                                         *)
(* Several clients share one token repository.  Each keeps the token it    *)
(* used last; it refreshes one that looks expired before a request and one *)
(* that was refused with 401 after it.  A refresh is taken in two steps,   *)
(* Intuit's and the client's, for answers may overtake each other or never *)
(* come.                                                                   *)
(*                                                                         *)
(* Intuit is known by its use: tokens are numbered as they are issued; a   *)
(* refresh "potentially" replaces the refresh token, and one that was      *)
(* replaced is refused for good (invalid_grant).                           *)
(***************************************************************************)
EXTENDS Integers

CONSTANTS
    ApiClients,    \* open clients of one realm
    ApiMaxRetries, \* api_max_retries
    MaxCalls,      \* bound: requests of each client
    MaxGrants,     \* bound: authorizations that are completed
    MaxExpiries    \* bound: the clock passes the expiry of what was issued

ASSUME ApiAssumption ==
    {ApiMaxRetries, MaxCalls, MaxGrants, MaxExpiries} \subseteq Nat

VARIABLES
    tokenStore,    \* the repository's token of the realm
    intuit,        \* what was issued, what has expired; see IntuitState
    apiClient      \* the clients and the request each is making

apiVars == <<tokenStore, intuit, apiClient>>

\* A token is dated if issued_at came with it.  Refreshed ones never are.
Token   == [access : Nat, refresh : Nat, dated : BOOLEAN]
NoToken == [access |-> 0, refresh |-> 0, dated |-> FALSE]

IntuitState ==
    [access  : Nat,      \* access tokens issued
     refresh : Nat,      \* the refresh token that is valid
     soon    : Nat,      \* access tokens up to this one expire within the margin
     expired : Nat,      \* and up to this one have expired
     grants  : Nat,
     clean   : BOOLEAN]  \* history: see StoredRefreshTokenIsCurrent

ApiSteps == {"idle", "ensure", "refresh", "answer", "send", "done", "failed"}

ApiClient ==
    [pc       : ApiSteps,
     token    : Token,           \* self._token
     method   : {"GET", "POST"},
     attempt  : Nat,
     tried401 : BOOLEAN,         \* refreshed_on_401
     why      : {"expired", "401"},
     tries    : 0..1,            \* of one refresh_access_token call
     got      : Token,           \* the answer to it
     calls    : Nat,
     effects  : Nat,             \* what the POST of this call did
     lost     : Nat]             \* answers to this call that were lost

ApiTypeOK ==
    /\ tokenStore \in Token
    /\ intuit \in IntuitState
    /\ apiClient \in [ApiClients -> ApiClient]

NewApiClient ==
    [pc |-> "idle", token |-> NoToken, method |-> "GET", attempt |-> 0,
     tried401 |-> FALSE, why |-> "expired", tries |-> 0, got |-> NoToken,
     calls |-> 0, effects |-> 0, lost |-> 0]

ClientInit ==
    /\ tokenStore = NoToken
    /\ intuit = [access |-> 0, refresh |-> 0, soon |-> 0, expired |-> 0,
                 grants |-> 0, clean |-> TRUE]
    /\ apiClient = [c \in ApiClients |-> NewApiClient]

Answered == \E c \in ApiClients : apiClient[c].pc = "answer"

-----------------------------------------------------------------------------
(* Authorization, the repository and time.                                 *)

\* A code is exchanged for a token.  The callback endpoint forgets the token;
\* whoever saves it does so for a realm that has none.
Grant(saved, dated) ==
    /\ intuit.grants < MaxGrants
    /\ saved => tokenStore = NoToken
    /\ intuit' = [intuit EXCEPT !.access = @ + 1, !.refresh = @ + 1,
                                !.grants = @ + 1, !.clean = saved /\ ~Answered]
    /\ tokenStore' = IF saved THEN [access |-> intuit'.access,
                                    refresh |-> intuit'.refresh, dated |-> dated]
                     ELSE tokenStore
    /\ UNCHANGED apiClient

\* exchange_code_for_token sends once and raises on every answer but 200, so what
\* Intuit issued in an answer that was lost is nobody's.
ExchangeLost ==
    /\ intuit.grants < MaxGrants
    /\ intuit' = [intuit EXCEPT !.access = @ + 1, !.refresh = @ + 1,
                                !.grants = @ + 1, !.clean = FALSE]
    /\ UNCHANGED <<tokenStore, apiClient>>

DeleteToken ==
    /\ tokenStore # NoToken
    /\ tokenStore' = NoToken
    /\ intuit' = [intuit EXCEPT !.clean = FALSE]
    /\ UNCHANGED apiClient

\* The clock enters the margin of five minutes, then passes the expiry.
TimePasses ==
    /\ \/ /\ intuit.soon < intuit.access /\ intuit.soon < MaxExpiries
          /\ intuit' = [intuit EXCEPT !.soon = intuit.access]
       \/ /\ intuit.expired < intuit.soon
          /\ intuit' = [intuit EXCEPT !.expired = intuit.soon]
    /\ UNCHANGED <<tokenStore, apiClient>>

-----------------------------------------------------------------------------
(* A request.                                                              *)

Becomes(c, new) == apiClient' = [apiClient EXCEPT ![c] = new]
In(c, pc) == apiClient[c].pc = pc

\* What a request that is over leaves in the client.
Ended(client, pc) ==
    [NewApiClient EXCEPT !.pc = pc, !.token = client.token, !.calls = client.calls,
                         !.effects = client.effects, !.lost = client.lost]

\* Another round of the loop, or the exception after the last one.
Again(client) ==
    IF client.attempt < ApiMaxRetries
    THEN [client EXCEPT !.pc = "ensure", !.attempt = @ + 1, !.got = NoToken, !.tries = 0]
    ELSE Ended(client, "failed")

Request(c, method) ==
    /\ apiClient[c].pc \in {"idle", "done", "failed"} /\ apiClient[c].calls < MaxCalls
    /\ Becomes(c, [NewApiClient EXCEPT !.pc = "ensure", !.method = method,
                                       !.token = apiClient[c].token,
                                       !.calls = apiClient[c].calls + 1])
    /\ UNCHANGED <<tokenStore, intuit>>

LooksExpired(token) == token.dated /\ token.access <= intuit.soon

EnsureToken(c) ==
    /\ In(c, "ensure")
    /\ LET token == IF apiClient[c].token # NoToken THEN apiClient[c].token ELSE tokenStore
           client == [apiClient[c] EXCEPT !.token = token]
       IN Becomes(c, CASE token = NoToken -> Ended(client, "failed")
                       [] LooksExpired(token) ->
                             [client EXCEPT !.pc = "refresh", !.why = "expired"]
                       [] OTHER -> [client EXCEPT !.pc = "send"])
    /\ UNCHANGED <<tokenStore, intuit>>

\* An exception of the refresh ends a request that has not been sent; after a
\* 401 it only empties the cache.
RefreshGivenUp(client) ==
    IF client.why = "expired" THEN Ended(client, "failed")
    ELSE Again([client EXCEPT !.token = NoToken])

\* Mutant: one more round than max_retries allows.
TryRefreshAgain_OnceMore(client) ==
    IF client.tries <= 1 THEN [client EXCEPT !.tries = @ + 1] ELSE RefreshGivenUp(client)

\* max_retries=1 of refresh_access_token
TryRefreshAgain(client) ==
    IF client.tries < 1 THEN [client EXCEPT !.tries = @ + 1] ELSE RefreshGivenUp(client)

\* Refused for good: invalid_grant, bad credentials, an answer that is no token.
RefreshRefused(c) ==
    /\ In(c, "refresh")
    /\ Becomes(c, RefreshGivenUp(apiClient[c]))
    /\ UNCHANGED <<tokenStore, intuit>>

\* 429, 5xx, or nothing heard and nothing done.
RefreshUnavailable(c) ==
    /\ In(c, "refresh")
    /\ Becomes(c, TryRefreshAgain(apiClient[c]))
    /\ UNCHANGED <<tokenStore, intuit>>

\* Intuit accepts; the answer is on its way or lost.
RefreshAccepted(c, rotated, lost) ==
    /\ In(c, "refresh") /\ apiClient[c].token.refresh = intuit.refresh
    /\ intuit' = [intuit EXCEPT !.access = @ + 1,
                                !.refresh = IF rotated THEN @ + 1 ELSE @,
                                !.clean = @ /\ ~lost /\ ~Answered]
    /\ Becomes(c, IF lost THEN TryRefreshAgain(apiClient[c])
                  ELSE [apiClient[c] EXCEPT
                          !.pc = "answer", !.tries = 0,
                          !.got = [access |-> intuit'.access,
                                   refresh |-> intuit'.refresh, dated |-> FALSE]])
    /\ UNCHANGED tokenStore

\* Mutant: the refreshed token is kept by the client alone.
Stored_NotWritten(token) == tokenStore

\* repository.update, which raises for a realm that has no token any more.
Stored(token) == IF tokenStore = NoToken THEN NoToken ELSE token

UpdateToken(c) ==
    /\ In(c, "answer")
    /\ LET client == apiClient[c]
           fresh  == [client EXCEPT !.token = client.got, !.got = NoToken]
       IN /\ tokenStore' = Stored(client.got)
          /\ Becomes(c, CASE tokenStore = NoToken -> RefreshGivenUp(client)
                          [] client.why = "401" -> Again(fresh)
                          [] OTHER -> [fresh EXCEPT !.pc = "send"])
    /\ UNCHANGED intuit

-----------------------------------------------------------------------------
(* The answer to a request.                                                *)

Done(client)  == [client EXCEPT !.effects = IF client.method = "POST" THEN @ + 1 ELSE @]
Valid(token)  == token.access > intuit.expired

\* Mutant: an answer whose body is no JSON is taken for a transient failure.
SendSucceeds_Again(c) ==
    /\ In(c, "send") /\ Valid(apiClient[c].token)
    /\ \/ Becomes(c, Ended(Done(apiClient[c]), "done"))
       \/ Becomes(c, Again(Done(apiClient[c])))
    /\ UNCHANGED <<tokenStore, intuit>>

SendSucceeds(c) ==
    /\ In(c, "send") /\ Valid(apiClient[c].token)
    /\ Becomes(c, Ended(Done(apiClient[c]), "done"))
    /\ UNCHANGED <<tokenStore, intuit>>

\* A timeout or network error: done or not, the request is sent again.
AnswerLost(c, took) ==
    /\ In(c, "send")
    /\ took => Valid(apiClient[c].token)
    /\ LET client == [apiClient[c] EXCEPT !.lost = @ + 1]
       IN Becomes(c, Again(IF took THEN Done(client) ELSE client))
    /\ UNCHANGED <<tokenStore, intuit>>

\* Only the first 401 of a request leads to a refresh.
Unauthorized(c) ==
    /\ In(c, "send") /\ ~Valid(apiClient[c].token)
    /\ Becomes(c, IF apiClient[c].tried401 THEN Ended(apiClient[c], "failed")
                  ELSE [apiClient[c] EXCEPT !.pc = "refresh", !.why = "401",
                                            !.tried401 = TRUE])
    /\ UNCHANGED <<tokenStore, intuit>>

\* 429 and 5xx are tried again, any other status is raised.
SendRefused(c, transient) ==
    /\ In(c, "send")
    /\ Becomes(c, IF transient THEN Again(apiClient[c])
                  ELSE Ended(apiClient[c], "failed"))
    /\ UNCHANGED <<tokenStore, intuit>>

ClientNext ==
    \/ \E saved, dated \in BOOLEAN : Grant(saved, dated)
    \/ ExchangeLost
    \/ DeleteToken
    \/ TimePasses
    \/ \E c \in ApiClients :
          \/ \E method \in {"GET", "POST"} : Request(c, method)
          \/ EnsureToken(c)
          \/ RefreshRefused(c)
          \/ RefreshUnavailable(c)
          \/ \E rotated, lost \in BOOLEAN : RefreshAccepted(c, rotated, lost)
          \/ UpdateToken(c)
          \/ SendSucceeds(c)
          \/ \E took \in BOOLEAN : AnswerLost(c, took)
          \/ Unauthorized(c)
          \/ \E transient \in BOOLEAN : SendRefused(c, transient)

ClientSpec == ClientInit /\ [][ClientNext]_apiVars

-----------------------------------------------------------------------------
(* Properties.                                                             *)

\* The refresh token on store is the one Intuit accepts, once every answer is
\* in: as long as no accepted refresh loses its answer, none is accepted while
\* another one's answer is on its way, and nothing is deleted or authorized
\* behind the repository's back.  With two at a time the answer that comes last
\* is kept, which may be the older one, and the realm has to be authorized again.
StoredRefreshTokenIsCurrent ==
    intuit.clean /\ tokenStore # NoToken /\ ~Answered
        => tokenStore.refresh = intuit.refresh

\* A POST takes effect more often than once only by answers that were lost:
\* neither a refresh in between nor a transient refusal repeats what was done.
OnceUnlessLost ==
    \A c \in ApiClients : apiClient[c].effects <= 1 + apiClient[c].lost
=============================================================================
