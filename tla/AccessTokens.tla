---------------------------- MODULE AccessTokens ----------------------------
(***************************************************************************)
(* What a request passes before a handler sees it: the rate limiter of the *)
(* process and the authentication of its token (security/rate_limit.py,    *)
(* auth.py, revocation.py, config.py; ml/cli.py for the command line).     *)
(*                                                                         *)
(* Time moves in ticks.  One client address and one path: the limiter      *)
(* counts every pair of them by itself.  It decides before the request     *)
(* first waits, so requests do not interleave in it.                       *)
(***************************************************************************)
EXTENDS Integers, FiniteSetsExt

CONSTANTS
    Jtis,        \* tokens, by their jti
    Life,        \* jwt_access_token_expire_minutes
    Skew,        \* jwt_allowed_clock_skew_seconds
    Limit,       \* requests of one address to one path ...
    Window,      \* ... within this time
    Horizon      \* bound: time

ASSUME AccessAssumption == {Life, Skew, Limit, Window, Horizon} \subseteq Nat

VARIABLES
    time,        \* now
    issuedAt,    \* tokens: when they were issued, or -1
    revokedRow,  \* revoked_token rows: expires_at, or -1
    hits,        \* the limiter's timestamps
    served,      \* history: all requests this process let through
    wasRevoked,  \* history: tokens that were revoked
    afterwards   \* history: how late after its expiry a revoked token was
                 \* accepted, and whether by the API

accessVars == <<time, issuedAt, revokedRow, hits, served, wasRevoked, afterwards>>
tokenVars  == <<issuedAt, revokedRow, wasRevoked, afterwards>>

Times == 0..Horizon

\* A timestamp; n tells those of one tick apart.
Stamps == [at : Times, n : Nat]

AccessTypeOK ==
    /\ time \in Times
    /\ issuedAt \in [Jtis -> Times \cup {-1}]
    /\ revokedRow \in [Jtis -> 0..(Horizon + Life) \cup {-1}]
    /\ hits \subseteq Stamps /\ served \subseteq Stamps
    /\ wasRevoked \subseteq Jtis
    /\ afterwards \subseteq [late : Int, api : BOOLEAN]

AccessInit ==
    /\ time = 0
    /\ issuedAt = [j \in Jtis |-> -1]
    /\ revokedRow = [j \in Jtis |-> -1]
    /\ hits = {} /\ served = {}
    /\ wasRevoked = {} /\ afterwards = {}

Tick ==
    /\ time < Horizon
    /\ time' = time + 1
    /\ UNCHANGED <<tokenVars, hits, served>>

Expiry(j) == issuedAt[j] + Life

CreateAccessToken(j) ==
    /\ issuedAt[j] = -1
    /\ issuedAt' = [issuedAt EXCEPT ![j] = time]
    /\ UNCHANGED <<time, revokedRow, hits, served, wasRevoked, afterwards>>

\* revoke_token, for a token that has no row: with one the second read of the
\* answer raises, and two at a time meet in the primary key.
RevokeToken(j) ==
    /\ issuedAt[j] # -1 /\ revokedRow[j] = -1
    /\ revokedRow' = [revokedRow EXCEPT ![j] = Expiry(j)]
    /\ wasRevoked' = wasRevoked \cup {j}
    /\ UNCHANGED <<time, issuedAt, hits, served, afterwards>>

-----------------------------------------------------------------------------
(* The limiter.                                                            *)

\* Mutant: a timestamp goes when it is exactly as old as the window.
Recent_Cutoff == {h \in hits : h.at > time - Window}

\* What _cleanup keeps.
Recent == {h \in hits : h.at >= time - Window}

Limited == Cardinality(Recent) >= Limit

\* 429: nothing behind the limiter hears of the request.
RefuseRequest ==
    /\ Limited
    /\ hits' = Recent
    /\ UNCHANGED <<time, tokenVars, served>>

Admit ==
    /\ ~Limited
    /\ LET stamp == [at |-> time, n |-> Cardinality(served)]
       IN hits' = Recent \cup {stamp} /\ served' = served \cup {stamp}
    /\ UNCHANGED time

\* The counters are in memory.
RestartServer ==
    /\ served # {}
    /\ hits' = {} /\ served' = {}
    /\ UNCHANGED <<time, tokenVars>>

-----------------------------------------------------------------------------
(* Authentication.                                                         *)

\* decode_token
Decodes(j) == issuedAt[j] # -1 /\ time <= Expiry(j) + Skew

\* Mutant: a revocation goes with the tick its token expires in.
Cleaned_AtExpiry ==
    [j \in Jtis |-> IF revokedRow[j] <= time THEN -1 ELSE revokedRow[j]]

\* is_token_revoked deletes what has expired when it finds nothing.
Cleaned == [j \in Jtis |-> IF revokedRow[j] < time THEN -1 ELSE revokedRow[j]]

Note(j, api) ==
    afterwards' = IF j \in wasRevoked
                  THEN afterwards \cup {[late |-> time - Expiry(j), api |-> api]}
                  ELSE afterwards

\* 401: expired, forged or revoked.
RejectToken(j) ==
    /\ Admit
    /\ ~Decodes(j) \/ revokedRow[j] # -1
    /\ UNCHANGED tokenVars

\* The request goes on.  Its transaction takes the cleanup along, committed or not.
AcceptToken(j, commits) ==
    /\ Admit
    /\ Decodes(j) /\ revokedRow[j] = -1
    /\ revokedRow' = IF commits THEN Cleaned ELSE revokedRow
    /\ Note(j, TRUE)
    /\ UNCHANGED <<issuedAt, wasRevoked>>

\* _authenticate of the command line decodes the token and nothing more.
RunCommand(j) ==
    /\ Decodes(j)
    /\ Note(j, FALSE)
    /\ UNCHANGED <<time, issuedAt, revokedRow, hits, served, wasRevoked>>

AccessNext ==
    \/ Tick
    \/ RefuseRequest
    \/ RestartServer
    \/ \E j \in Jtis :
          \/ CreateAccessToken(j)
          \/ RevokeToken(j)
          \/ RejectToken(j)
          \/ \E commits \in BOOLEAN : AcceptToken(j, commits)
          \/ RunCommand(j)

AccessSpec == AccessInit /\ [][AccessNext]_accessVars

-----------------------------------------------------------------------------
(* Properties.                                                             *)

\* The API does not accept a revoked token before it expires, whoever else
\* authenticates and cleans up meanwhile.  (Once it has expired the row may go
\* while the clock skew still lets the token pass.)
RevocationHolds ==
    \A a \in afterwards : a.api => a.late \in 1..Skew

\* No interval as long as the window has more requests than the limit, wherever
\* it begins.
WindowHolds ==
    \A s \in served : Cardinality({u \in served : u.at \in s.at..(s.at + Window)}) <= Limit
=============================================================================
