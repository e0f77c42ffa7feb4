--------------------------- MODULE ServicesProofs ---------------------------
(***************************************************************************)
(* Proofs about the tokens: those of QuickBooks that QuickBooksClient      *)
(* keeps, for any set of clients and any number of retries, calls,         *)
(* authorizations and expiries, and those of our own that AccessTokens     *)
(* issues, revokes and limits, for any set of tokens and any lifetime,     *)
(* clock skew, limit, window and horizon.  At the end, the services that   *)
(* one run checks together: each of them behaves as its own specification  *)
(* says, so that whatever is proved of one holds of the run.               *)
(***************************************************************************)
EXTENDS MCServices, CategorizationProofs, AccountSyncProofs

-----------------------------------------------------------------------------
(* QuickBooks.  The first theorem needs no more of a client than its       *)
(* counters, the second its place and the answer it is waiting for.        *)

Counts(client) ==
    /\ {"pc", "got", "effects", "lost"} \subseteq DOMAIN client
    /\ client.effects \in Nat /\ client.lost \in Nat

\* Nothing has been done but what was lost.
Unanswered(client) == client.effects <= client.lost

Idle(client) == client.pc \in {"idle", "done", "failed"}

\* Nothing done is unanswered, or the request is over.
Settled(client) ==
    Unanswered(client) \/ (Idle(client) /\ client.effects <= client.lost + 1)

\* While a request is under way, whatever it did was not answered.
ClientInv ==
    /\ DOMAIN apiClient = ApiClients
    /\ \A c \in ApiClients :
          /\ Counts(apiClient[c])
          /\ Settled(apiClient[c])

\* What the helpers keep: the counters.
Keeps(new, client) ==
    /\ Counts(new)
    /\ new.effects = client.effects /\ new.lost = client.lost

LEMMA EndedKeeps ==
  ASSUME NEW client, Counts(client), NEW pc
  PROVE  Keeps(Ended(client, pc), client) /\ Ended(client, pc).pc = pc
  BY DEF Counts, Keeps, Ended, NewApiClient

LEMMA AgainKeeps ==
  ASSUME NEW client, Counts(client)
  PROVE  Keeps(Again(client), client)
<1>1. CASE client.attempt < ApiMaxRetries
  BY <1>1 DEF Again, Counts, Keeps
<1>2. CASE ~(client.attempt < ApiMaxRetries)
  BY <1>2, EndedKeeps DEF Again
<1> QED
  BY <1>1, <1>2

LEMMA GivenUpKeeps ==
  ASSUME NEW client, Counts(client)
  PROVE  Keeps(RefreshGivenUp(client), client)
<1>1. CASE client.why = "expired"
  BY <1>1, EndedKeeps DEF RefreshGivenUp
<1>2. CASE client.why # "expired"
  <2>1. Keeps([client EXCEPT !.token = NoToken], client)
    BY DEF Counts, Keeps
  <2>2. RefreshGivenUp(client) = Again([client EXCEPT !.token = NoToken])
    BY <1>2 DEF RefreshGivenUp
  <2> QED
    BY <2>1, <2>2, AgainKeeps DEF Keeps
<1> QED
  BY <1>1, <1>2

LEMMA TryRefreshKeeps ==
  ASSUME NEW client, Counts(client)
  PROVE  Keeps(TryRefreshAgain(client), client)
<1>1. CASE client.tries < 1
  BY <1>1 DEF TryRefreshAgain, Counts, Keeps
<1>2. CASE ~(client.tries < 1)
  BY <1>2, GivenUpKeeps DEF TryRefreshAgain
<1> QED
  BY <1>1, <1>2

\* A client that moves on keeps the invariant when what it did is lost.
LEMMA BecomesKeeps ==
  ASSUME ClientInv, NEW c \in ApiClients, NEW new, Becomes(c, new),
         Counts(new), Settled(new)
  PROVE  ClientInv'
<1>1. /\ DOMAIN apiClient' = ApiClients
      /\ apiClient'[c] = new
      /\ \A o \in ApiClients : o # c => apiClient'[o] = apiClient[o]
  BY DEF Becomes, ClientInv
<1> QED
  BY <1>1 DEF ClientInv, Counts, Settled, Unanswered, Idle

\* One that keeps the counters of a client under way does.
LEMMA UnderWayKeeps ==
  ASSUME ClientInv, NEW c \in ApiClients, ~Idle(apiClient[c]),
         NEW new, Becomes(c, new), Keeps(new, apiClient[c])
  PROVE  ClientInv'
<1>1. Unanswered(new)
  BY DEF ClientInv, Settled, Unanswered, Keeps
<1>2. Settled(new) /\ Counts(new)
  BY <1>1 DEF Settled, Keeps
<1> QED
  BY <1>2, BecomesKeeps

LEMMA ClientInvInit == ClientInit => ClientInv
  BY DEF ClientInit, ClientInv, Counts, Settled, Unanswered, NewApiClient

\* Every step preserves the invariant.
LEMMA ClientInvNext == ClientInv /\ [ClientNext]_apiVars => ClientInv'
<1> SUFFICES ASSUME ClientInv, [ClientNext]_apiVars PROVE ClientInv'
  OBVIOUS
<1>0. \A c \in ApiClients : Counts(apiClient[c])
  BY DEF ClientInv
<1>1. CASE UNCHANGED apiClient
  BY <1>1 DEF ClientInv, Counts, Settled, Unanswered, Idle
<1>2. ASSUME NEW c \in ApiClients, NEW method \in {"GET", "POST"}, Request(c, method)
      PROVE  ClientInv'
  <2> DEFINE new == [NewApiClient EXCEPT !.pc = "ensure", !.method = method,
                                         !.token = apiClient[c].token,
                                         !.calls = apiClient[c].calls + 1]
  <2>1. Counts(new) /\ Settled(new)
    BY DEF NewApiClient, Counts, Settled, Unanswered
  <2>2. Becomes(c, new)
    BY <1>2 DEF Request
  <2> HIDE DEF new
  <2> QED
    BY <2>1, <2>2, BecomesKeeps
<1>3. ASSUME NEW c \in ApiClients, EnsureToken(c)
      PROVE  ClientInv'
  <2>1. PICK token :
          LET client == [apiClient[c] EXCEPT !.token = token]
          IN Becomes(c, CASE token = NoToken -> Ended(client, "failed")
                          [] LooksExpired(token) ->
                                [client EXCEPT !.pc = "refresh", !.why = "expired"]
                          [] OTHER -> [client EXCEPT !.pc = "send"])
    BY <1>3 DEF EnsureToken
  <2> DEFINE client  == [apiClient[c] EXCEPT !.token = token]
             refresh == [client EXCEPT !.pc = "refresh", !.why = "expired"]
             send    == [client EXCEPT !.pc = "send"]
  <2>2. Keeps(client, apiClient[c])
    BY <1>0 DEF Counts, Keeps
  <2>3. Keeps(refresh, client) /\ Keeps(send, client)
    <3> HIDE DEF client
    <3> QED
      BY <2>2 DEF Counts, Keeps
  <2>4. Keeps(Ended(client, "failed"), client)
    BY <2>2, EndedKeeps DEF Keeps
  <2>5. \E new \in {Ended(client, "failed"), refresh, send} : Becomes(c, new)
    <3> HIDE DEF client, refresh, send
    <3>1. Becomes(c, CASE token = NoToken -> Ended(client, "failed")
                       [] LooksExpired(token) -> refresh
                       [] OTHER -> send)
      BY <2>1 DEF client, refresh, send
    <3> QED
      BY <3>1
  <2>6. ~Idle(apiClient[c])
    BY <1>3 DEF EnsureToken, In, Idle
  <2> HIDE DEF client, refresh, send
  <2> QED
    BY <2>2, <2>3, <2>4, <2>5, <2>6, UnderWayKeeps DEF Keeps
<1>4. ASSUME NEW c \in ApiClients, RefreshRefused(c)
      PROVE  ClientInv'
  BY <1>0, <1>4, GivenUpKeeps, UnderWayKeeps DEF RefreshRefused, In, Idle
<1>5. ASSUME NEW c \in ApiClients, RefreshUnavailable(c)
      PROVE  ClientInv'
  BY <1>0, <1>5, TryRefreshKeeps, UnderWayKeeps DEF RefreshUnavailable, In, Idle
<1>6. ASSUME NEW c \in ApiClients, NEW rotated \in BOOLEAN, NEW lost \in BOOLEAN,
             RefreshAccepted(c, rotated, lost)
      PROVE  ClientInv'
  <2> DEFINE got == [access |-> intuit'.access, refresh |-> intuit'.refresh, dated |-> FALSE]
             new == [apiClient[c] EXCEPT !.pc = "answer", !.tries = 0, !.got = got]
  <2>1. Becomes(c, IF lost THEN TryRefreshAgain(apiClient[c]) ELSE new)
    BY <1>6 DEF RefreshAccepted
  <2>2. Keeps(new, apiClient[c])
    <3> HIDE DEF got
    <3> QED
      BY <1>0 DEF Counts, Keeps
  <2>3. ~Idle(apiClient[c])
    BY <1>6 DEF RefreshAccepted, In, Idle
  <2> HIDE DEF new
  <2> QED
    BY <1>0, <2>1, <2>2, <2>3, TryRefreshKeeps, UnderWayKeeps
<1>7. ASSUME NEW c \in ApiClients, UpdateToken(c)
      PROVE  ClientInv'
  <2> DEFINE client == apiClient[c]
             fresh  == [client EXCEPT !.token = client.got, !.got = NoToken]
             sent   == [fresh EXCEPT !.pc = "send"]
  <2>1. Keeps(fresh, client)
    BY <1>0 DEF Counts, Keeps
  <2>2. Keeps(sent, client) /\ Keeps(Again(fresh), client)
    <3> HIDE DEF fresh
    <3>1. Keeps(sent, fresh)
      BY <2>1 DEF Counts, Keeps
    <3> HIDE DEF sent
    <3> QED
      BY <2>1, <3>1, AgainKeeps DEF Keeps
  <2>3. Keeps(RefreshGivenUp(client), client)
    BY <1>0, GivenUpKeeps
  <2> HIDE DEF fresh, sent
  <2>4. \E new \in {RefreshGivenUp(client), Again(fresh), sent} : Becomes(c, new)
    <3>1. Becomes(c, CASE tokenStore = NoToken -> RefreshGivenUp(client)
                       [] client.why = "401" -> Again(fresh)
                       [] OTHER -> sent)
      BY <1>7 DEF UpdateToken, fresh, sent
    <3> HIDE DEF client
    <3> QED
      BY <3>1
  <2>5. ~Idle(apiClient[c])
    BY <1>7 DEF UpdateToken, In, Idle
  <2> QED
    BY <2>2, <2>3, <2>4, <2>5, UnderWayKeeps
<1>8. ASSUME NEW c \in ApiClients, SendSucceeds(c)
      PROVE  ClientInv'
  <2> DEFINE did == Done(apiClient[c])
             new == Ended(did, "done")
  <2>1. apiClient[c].effects <= apiClient[c].lost
    BY <1>8 DEF SendSucceeds, In, Idle, ClientInv, Settled, Unanswered
  <2>2. Counts(did) /\ did.effects <= did.lost + 1
    BY <1>0, <2>1 DEF Done, Counts
  <2> HIDE DEF did
  <2>3. Keeps(new, did) /\ Idle(new)
    BY <2>2, EndedKeeps DEF Idle
  <2>4. Becomes(c, new)
    BY <1>8 DEF SendSucceeds, did
  <2> HIDE DEF new
  <2>5. Counts(new) /\ Settled(new)
    BY <2>2, <2>3 DEF Keeps, Settled
  <2> QED
    BY <2>4, <2>5, BecomesKeeps
<1>9. ASSUME NEW c \in ApiClients, NEW took \in BOOLEAN, AnswerLost(c, took)
      PROVE  ClientInv'
  <2> DEFINE client == [apiClient[c] EXCEPT !.lost = @ + 1]
             did    == IF took THEN Done(client) ELSE client
  <2>1. apiClient[c].effects <= apiClient[c].lost
    BY <1>9 DEF AnswerLost, In, Idle, ClientInv, Settled, Unanswered
  <2>2. Counts(client) /\ client.effects + 1 <= client.lost
    BY <1>0, <2>1 DEF Counts
  <2>3. Counts(did) /\ Unanswered(did)
    <3> HIDE DEF client
    <3> QED
      BY <2>2 DEF Counts, Unanswered, Done
  <2>4. Becomes(c, Again(did))
    BY <1>9 DEF AnswerLost
  <2> HIDE DEF did
  <2>5. Counts(Again(did)) /\ Settled(Again(did))
    BY <2>3, AgainKeeps DEF Keeps, Settled, Unanswered
  <2> QED
    BY <2>4, <2>5, BecomesKeeps
<1>10. ASSUME NEW c \in ApiClients, Unauthorized(c)
       PROVE  ClientInv'
  <2> DEFINE again == [apiClient[c] EXCEPT !.pc = "refresh", !.why = "401", !.tried401 = TRUE]
  <2>1. Becomes(c, IF apiClient[c].tried401 THEN Ended(apiClient[c], "failed") ELSE again)
    BY <1>10 DEF Unauthorized
  <2>2. Keeps(again, apiClient[c])
    BY <1>0 DEF Counts, Keeps
  <2>3. ~Idle(apiClient[c])
    BY <1>10 DEF Unauthorized, In, Idle
  <2> HIDE DEF again
  <2> QED
    BY <1>0, <2>1, <2>2, <2>3, EndedKeeps, UnderWayKeeps
<1>11. ASSUME NEW c \in ApiClients, NEW transient \in BOOLEAN, SendRefused(c, transient)
       PROVE  ClientInv'
  BY <1>0, <1>11, AgainKeeps, EndedKeeps, UnderWayKeeps DEF SendRefused, In, Idle
<1> QED
  BY <1>1, <1>2, <1>3, <1>4, <1>5, <1>6, <1>7, <1>8, <1>9, <1>10, <1>11
     DEF ClientNext, apiVars, Grant, ExchangeLost, DeleteToken, TimePasses

\* Neither a refresh nor a transient refusal repeats a POST that was done
\* (api_client.py:234-340): each repetition costs an answer that was lost.
THEOREM OnceUnlessLostHolds == ClientSpec => []OnceUnlessLost
<1>1. ClientInv => OnceUnlessLost
  <2> SUFFICES ASSUME ClientInv, NEW c \in ApiClients
               PROVE  apiClient[c].effects <= 1 + apiClient[c].lost
    BY DEF OnceUnlessLost
  <2> QED
    BY DEF ClientInv, Counts, Settled, Unanswered
<1> QED
  BY <1>1, ClientInvInit, ClientInvNext, PTL DEF ClientSpec

-----------------------------------------------------------------------------
(* The refresh token on store.                                             *)

Answers(c) == In(c, "answer")

\* Until something goes wrong, at most one answer is on its way, it carries the
\* refresh token that is valid, and when there is none the store has that token.
RefreshInv ==
    /\ {"access", "refresh", "clean"} \subseteq DOMAIN intuit
    /\ intuit.clean =>
          /\ \A c, o \in ApiClients : Answers(c) /\ Answers(o) => c = o
          /\ \A c \in ApiClients : Answers(c) => apiClient[c].got.refresh = intuit.refresh
          /\ StoredRefreshTokenIsCurrent

LEMMA AgainIsQuiet ==
  ASSUME NEW client, Counts(client)
  PROVE  Again(client).pc # "answer"
<1>1. CASE client.attempt < ApiMaxRetries
  BY <1>1 DEF Again, Counts
<1>2. CASE ~(client.attempt < ApiMaxRetries)
  BY <1>2, EndedKeeps DEF Again
<1> QED
  BY <1>1, <1>2

LEMMA GivenUpIsQuiet ==
  ASSUME NEW client, Counts(client)
  PROVE  RefreshGivenUp(client).pc # "answer"
<1>1. CASE client.why = "expired"
  BY <1>1, EndedKeeps DEF RefreshGivenUp
<1>2. CASE client.why # "expired"
  <2>1. Counts([client EXCEPT !.token = NoToken])
    BY DEF Counts
  <2>2. RefreshGivenUp(client) = Again([client EXCEPT !.token = NoToken])
    BY <1>2 DEF RefreshGivenUp
  <2> QED
    BY <2>1, <2>2, AgainIsQuiet
<1> QED
  BY <1>1, <1>2

LEMMA TryRefreshIsQuiet ==
  ASSUME NEW client, Counts(client), client.pc = "refresh"
  PROVE  TryRefreshAgain(client).pc # "answer"
<1>1. CASE client.tries < 1
  BY <1>1 DEF TryRefreshAgain, Counts
<1>2. CASE ~(client.tries < 1)
  BY <1>2, GivenUpIsQuiet DEF TryRefreshAgain
<1> QED
  BY <1>1, <1>2

\* Where the clients are after one of them has moved.
LEMMA BecomesMoves ==
  ASSUME ClientInv, NEW c \in ApiClients, NEW new, Becomes(c, new)
  PROVE  /\ apiClient'[c] = new
         /\ \A o \in ApiClients : o # c => apiClient'[o] = apiClient[o]
  BY DEF Becomes, ClientInv

\* A client that has no answer and gets none changes nothing that matters.
LEMMA QuietStep ==
  ASSUME ClientInv, RefreshInv, NEW c \in ApiClients, ~Answers(c),
         NEW new, Becomes(c, new), new.pc # "answer", UNCHANGED <<tokenStore, intuit>>
  PROVE  RefreshInv'
<1>1. \A o \in ApiClients : (Answers(o))' <=> Answers(o)
  BY BecomesMoves DEF Answers, In
<1>2. \A o \in ApiClients : Answers(o) => apiClient'[o] = apiClient[o]
  BY BecomesMoves
<1>3. Answered' <=> Answered
  BY <1>1 DEF Answered, Answers, In
<1> HIDE DEF Answers
<1> QED
  BY <1>1, <1>2, <1>3 DEF RefreshInv, StoredRefreshTokenIsCurrent

LEMMA RefreshInvInit == ClientInit => RefreshInv
  BY DEF ClientInit, RefreshInv, StoredRefreshTokenIsCurrent, Answers, In, NewApiClient

LEMMA GrantKeepsRefresh ==
  ASSUME RefreshInv, NEW saved \in BOOLEAN, NEW dated \in BOOLEAN, Grant(saved, dated)
  PROVE  RefreshInv'
<1>1. /\ UNCHANGED apiClient
      /\ DOMAIN intuit' = DOMAIN intuit
      /\ intuit'.clean => saved /\ ~Answered
  BY DEF Grant, RefreshInv
<1>2. saved => tokenStore'.refresh = intuit'.refresh
  BY DEF Grant
<1>3. Answered' <=> Answered
  BY <1>1 DEF Answered
<1> QED
  BY <1>1, <1>2, <1>3
     DEF RefreshInv, StoredRefreshTokenIsCurrent, Answers, In, Answered

LEMMA AcceptedKeepsRefresh ==
  ASSUME ClientInv, RefreshInv, NEW c \in ApiClients,
         NEW rotated \in BOOLEAN, NEW lost \in BOOLEAN, RefreshAccepted(c, rotated, lost)
  PROVE  RefreshInv'
<1> DEFINE got == [access |-> intuit'.access, refresh |-> intuit'.refresh, dated |-> FALSE]
           new == [apiClient[c] EXCEPT !.pc = "answer", !.tries = 0, !.got = got]
<1>1. /\ DOMAIN intuit' = DOMAIN intuit
      /\ intuit'.clean => ~lost /\ ~Answered
  BY DEF RefreshAccepted, RefreshInv
<1>2. CASE ~intuit'.clean
  BY <1>1, <1>2 DEF RefreshInv
<1>3. CASE intuit'.clean
  <2>1. Becomes(c, new)
    BY <1>1, <1>3 DEF RefreshAccepted
  <2>2. \A o \in ApiClients : ~Answers(o)
    BY <1>1, <1>3 DEF Answered, Answers, In
  <2>3. "got" \in DOMAIN apiClient[c] => new.pc = "answer" /\ new.got = got
    BY DEF ClientInv, Counts
  <2>4. "got" \in DOMAIN apiClient[c] /\ "pc" \in DOMAIN apiClient[c]
    BY DEF ClientInv, Counts
  <2> HIDE DEF new
  <2>5. apiClient'[c].pc = "answer" /\ apiClient'[c].got.refresh = intuit'.refresh
    BY <2>1, <2>3, <2>4, BecomesMoves
  <2>6. \A o \in ApiClients : (Answers(o))' <=> o = c
    BY <2>1, <2>2, <2>5, BecomesMoves DEF Answers, In
  <2>7. Answered'
    BY <2>5 DEF Answered
  <2> HIDE DEF Answers
  <2> QED
    BY <1>1, <2>5, <2>6, <2>7 DEF RefreshInv, StoredRefreshTokenIsCurrent
<1> QED
  BY <1>2, <1>3

LEMMA UpdateKeepsRefresh ==
  ASSUME ClientInv, RefreshInv, NEW c \in ApiClients, UpdateToken(c)
  PROVE  RefreshInv'
<1> DEFINE client == apiClient[c]
           fresh  == [client EXCEPT !.token = client.got, !.got = NoToken]
           sent   == [fresh EXCEPT !.pc = "send"]
<1>1. UNCHANGED intuit /\ Answers(c) /\ tokenStore' = Stored(client.got)
  BY DEF UpdateToken, Answers
<1>2. Counts(client) /\ Counts(fresh)
  BY DEF ClientInv, Counts
<1>3. sent.pc = "send"
  <2> HIDE DEF fresh
  <2> QED
    BY <1>2 DEF Counts
<1>4. \E new \in {RefreshGivenUp(client), Again(fresh), sent} : Becomes(c, new)
  <2> HIDE DEF fresh, sent
  <2>1. Becomes(c, CASE tokenStore = NoToken -> RefreshGivenUp(client)
                     [] client.why = "401" -> Again(fresh)
                     [] OTHER -> sent)
    BY DEF UpdateToken, fresh, sent
  <2> HIDE DEF client
  <2> QED
    BY <2>1
<1> HIDE DEF fresh, sent
<1>5. PICK new : Becomes(c, new) /\ new.pc # "answer"
  BY <1>2, <1>3, <1>4, AgainIsQuiet, GivenUpIsQuiet
<1>6. \A o \in ApiClients : (Answers(o))' => o # c /\ Answers(o)
  BY <1>5, BecomesMoves DEF Answers, In
<1>7. CASE ~intuit.clean
  BY <1>1, <1>7 DEF RefreshInv, StoredRefreshTokenIsCurrent
<1>8. CASE intuit.clean
  <2>1. \A o \in ApiClients : ~(Answers(o))'
    <3> HIDE DEF Answers
    <3> QED
      BY <1>1, <1>6, <1>8 DEF RefreshInv
  <2>2. client.got.refresh = intuit.refresh
    BY <1>1, <1>8 DEF RefreshInv
  <2>3. tokenStore' # NoToken => tokenStore'.refresh = intuit'.refresh
    BY <1>1, <2>2 DEF Stored
  <2> HIDE DEF Answers
  <2> QED
    BY <1>1, <2>1, <2>3 DEF RefreshInv, StoredRefreshTokenIsCurrent
<1> QED
  BY <1>7, <1>8

\* Every step preserves the invariant.
LEMMA RefreshInvNext ==
  ClientInv /\ RefreshInv /\ [ClientNext]_apiVars => RefreshInv'
<1> SUFFICES ASSUME ClientInv, RefreshInv, [ClientNext]_apiVars PROVE RefreshInv'
  OBVIOUS
<1>0. \A c \in ApiClients : Counts(apiClient[c])
  BY DEF ClientInv
<1>1. CASE UNCHANGED apiVars
  BY <1>1 DEF apiVars, RefreshInv, StoredRefreshTokenIsCurrent, Answered, Answers, In
<1>2. CASE \E saved, dated \in BOOLEAN : Grant(saved, dated)
  BY <1>2, GrantKeepsRefresh
<1>3. CASE ExchangeLost \/ DeleteToken
  BY <1>3 DEF ExchangeLost, DeleteToken, RefreshInv
<1>4. CASE TimePasses
  BY <1>4 DEF TimePasses, RefreshInv, StoredRefreshTokenIsCurrent, Answered, Answers, In
<1>5. ASSUME NEW c \in ApiClients, NEW method \in {"GET", "POST"}, Request(c, method)
      PROVE  RefreshInv'
  <2> DEFINE new == [NewApiClient EXCEPT !.pc = "ensure", !.method = method,
                                         !.token = apiClient[c].token,
                                         !.calls = apiClient[c].calls + 1]
  <2>1. new.pc # "answer"
    BY DEF NewApiClient
  <2>2. Becomes(c, new) /\ ~Answers(c) /\ UNCHANGED <<tokenStore, intuit>>
    BY <1>5 DEF Request, Answers, In
  <2> HIDE DEF new, Answers
  <2> QED
    BY <2>1, <2>2, QuietStep
<1>6. ASSUME NEW c \in ApiClients, EnsureToken(c)
      PROVE  RefreshInv'
  <2>1. PICK token :
          LET client == [apiClient[c] EXCEPT !.token = token]
          IN Becomes(c, CASE token = NoToken -> Ended(client, "failed")
                          [] LooksExpired(token) ->
                                [client EXCEPT !.pc = "refresh", !.why = "expired"]
                          [] OTHER -> [client EXCEPT !.pc = "send"])
    BY <1>6 DEF EnsureToken
  <2> DEFINE client  == [apiClient[c] EXCEPT !.token = token]
             refresh == [client EXCEPT !.pc = "refresh", !.why = "expired"]
             send    == [client EXCEPT !.pc = "send"]
  <2>2. Counts(client)
    BY <1>0 DEF Counts
  <2>3. refresh.pc # "answer" /\ send.pc # "answer"
    <3> HIDE DEF client
    <3> QED
      BY <2>2 DEF Counts
  <2>4. Ended(client, "failed").pc # "answer"
    BY <2>2, EndedKeeps
  <2>5. \E new \in {Ended(client, "failed"), refresh, send} : Becomes(c, new)
    <3> HIDE DEF client, refresh, send
    <3>1. Becomes(c, CASE token = NoToken -> Ended(client, "failed")
                       [] LooksExpired(token) -> refresh
                       [] OTHER -> send)
      BY <2>1 DEF client, refresh, send
    <3> QED
      BY <3>1
  <2>6. ~Answers(c) /\ UNCHANGED <<tokenStore, intuit>>
    BY <1>6 DEF EnsureToken, In, Answers
  <2> HIDE DEF client, refresh, send, Answers
  <2> QED
    BY <2>3, <2>4, <2>5, <2>6, QuietStep
<1>7. ASSUME NEW c \in ApiClients, RefreshRefused(c)
      PROVE  RefreshInv'
  BY <1>0, <1>7, GivenUpIsQuiet, QuietStep DEF RefreshRefused, In, Answers
<1>8. ASSUME NEW c \in ApiClients, RefreshUnavailable(c)
      PROVE  RefreshInv'
  BY <1>0, <1>8, TryRefreshIsQuiet, QuietStep DEF RefreshUnavailable, In, Answers
<1>9. ASSUME NEW c \in ApiClients, SendSucceeds(c)
      PROVE  RefreshInv'
  <2>1. Counts(Done(apiClient[c]))
    BY <1>0 DEF Done, Counts
  <2> QED
    BY <1>9, <2>1, EndedKeeps, QuietStep DEF SendSucceeds, In, Answers
<1>10. ASSUME NEW c \in ApiClients, NEW took \in BOOLEAN, AnswerLost(c, took)
       PROVE  RefreshInv'
  <2> DEFINE client == [apiClient[c] EXCEPT !.lost = @ + 1]
             did    == IF took THEN Done(client) ELSE client
  <2>1. Counts(client)
    BY <1>0 DEF Counts
  <2>2. Counts(did)
    <3> HIDE DEF client
    <3> QED
      BY <2>1 DEF Counts, Done
  <2>3. Becomes(c, Again(did)) /\ ~Answers(c) /\ UNCHANGED <<tokenStore, intuit>>
    BY <1>10 DEF AnswerLost, In, Answers
  <2> HIDE DEF did, Answers
  <2> QED
    BY <2>2, <2>3, AgainIsQuiet, QuietStep
<1>11. ASSUME NEW c \in ApiClients, Unauthorized(c)
       PROVE  RefreshInv'
  <2> DEFINE again == [apiClient[c] EXCEPT !.pc = "refresh", !.why = "401", !.tried401 = TRUE]
  <2>1. Becomes(c, IF apiClient[c].tried401 THEN Ended(apiClient[c], "failed") ELSE again)
    BY <1>11 DEF Unauthorized
  <2>2. again.pc # "answer"
    BY <1>0 DEF Counts
  <2>3. ~Answers(c) /\ UNCHANGED <<tokenStore, intuit>>
    BY <1>11 DEF Unauthorized, In, Answers
  <2> HIDE DEF again, Answers
  <2> QED
    BY <1>0, <2>1, <2>2, <2>3, EndedKeeps, QuietStep
<1>12. ASSUME NEW c \in ApiClients, NEW transient \in BOOLEAN, SendRefused(c, transient)
       PROVE  RefreshInv'
  BY <1>0, <1>12, AgainIsQuiet, EndedKeeps, QuietStep DEF SendRefused, In, Answers
<1> QED
  BY <1>1, <1>2, <1>3, <1>4, <1>5, <1>6, <1>7, <1>8, <1>9, <1>10, <1>11, <1>12,
     AcceptedKeepsRefresh, UpdateKeepsRefresh DEF ClientNext

\* As long as no accepted refresh loses its answer, none is accepted while
\* another's answer is on its way, and nothing is deleted or authorized behind
\* the repository's back, the refresh token on store is the one Intuit accepts
\* whenever no answer is out (api_client.py:164-190, 289-307, repository.py:60-66).
THEOREM StoredRefreshTokenHolds == ClientSpec => []StoredRefreshTokenIsCurrent
<1>1. RefreshInv => StoredRefreshTokenIsCurrent
  BY DEF RefreshInv, StoredRefreshTokenIsCurrent
<1> QED
  BY <1>1, ClientInvInit, ClientInvNext, RefreshInvInit, RefreshInvNext,
     PTL DEF ClientSpec

-----------------------------------------------------------------------------
(* The types of the client: what the helpers make of one is one.           *)

LEMMA TokenTypes ==
  /\ NoToken \in Token
  /\ \A a, r \in Nat, d \in BOOLEAN : [access |-> a, refresh |-> r, dated |-> d] \in Token
BY DEF NoToken, Token

LEMMA NewApiClientType == NewApiClient \in ApiClient
BY TokenTypes DEF NewApiClient, ApiClient, ApiSteps

LEMMA EndedType ==
  ASSUME NEW client \in ApiClient, NEW pc \in ApiSteps
  PROVE  Ended(client, pc) \in ApiClient
BY NewApiClientType DEF Ended, ApiClient

LEMMA AgainType ==
  ASSUME NEW client \in ApiClient
  PROVE  Again(client) \in ApiClient
<1>1. [client EXCEPT !.pc = "ensure", !.attempt = @ + 1, !.got = NoToken, !.tries = 0]
         \in ApiClient
  <2>1. client.attempt + 1 \in Nat /\ NoToken \in Token /\ "ensure" \in ApiSteps
    BY TokenTypes DEF ApiClient, ApiSteps
  <2>2. 0 \in 0..1
    OBVIOUS
  <2> DEFINE n == client.attempt + 1
  <2> HIDE DEF n
  <2>3. [client EXCEPT !.pc = "ensure", !.attempt = n, !.got = NoToken, !.tries = 0]
           \in ApiClient
    BY <2>1, <2>2 DEF ApiClient, n
  <2> QED
    BY <2>3 DEF n
<1>2. Ended(client, "failed") \in ApiClient
  BY EndedType DEF ApiSteps
<1> QED
  BY <1>1, <1>2 DEF Again

LEMMA GivenUpType ==
  ASSUME NEW client \in ApiClient
  PROVE  RefreshGivenUp(client) \in ApiClient
<1>1. Ended(client, "failed") \in ApiClient
  BY EndedType DEF ApiSteps
<1>2. [client EXCEPT !.token = NoToken] \in ApiClient
  BY TokenTypes DEF ApiClient
<1> QED
  BY <1>1, <1>2, AgainType DEF RefreshGivenUp

LEMMA TryRefreshType ==
  ASSUME NEW client \in ApiClient
  PROVE  TryRefreshAgain(client) \in ApiClient
<1>1. client.tries < 1 => [client EXCEPT !.tries = @ + 1] \in ApiClient
  BY DEF ApiClient
<1> QED
  BY <1>1, GivenUpType DEF TryRefreshAgain

LEMMA DoneType ==
  ASSUME NEW client \in ApiClient
  PROVE  Done(client) \in ApiClient
BY DEF Done, ApiClient

LEMMA ApiTypeNext == ApiTypeOK /\ [ClientNext]_apiVars => ApiTypeOK'
<1> SUFFICES ASSUME ApiTypeOK, [ClientNext]_apiVars PROVE ApiTypeOK'
  OBVIOUS
<1>0. /\ tokenStore \in Token /\ intuit \in IntuitState
      /\ \A c \in ApiClients : apiClient[c] \in ApiClient
      /\ {"ensure", "refresh", "answer", "send", "done", "failed"} \subseteq ApiSteps
  BY DEF ApiTypeOK, ApiSteps
<1>1. ASSUME NEW c \in ApiClients, NEW new \in ApiClient, Becomes(c, new)
      PROVE  apiClient' \in [ApiClients -> ApiClient]
  BY <1>1 DEF Becomes, ApiTypeOK
<1>2. ASSUME NEW c \in ApiClients, NEW new \in ApiClient, Becomes(c, new),
             UNCHANGED <<tokenStore, intuit>>
      PROVE  ApiTypeOK'
  BY <1>0, <1>1, <1>2 DEF ApiTypeOK
<1>3. ASSUME NEW saved \in BOOLEAN, NEW dated \in BOOLEAN, Grant(saved, dated)
      PROVE  ApiTypeOK'
  <2>1. intuit' \in IntuitState
    <3>1. intuit.access + 1 \in Nat /\ intuit.refresh + 1 \in Nat /\ intuit.grants + 1 \in Nat
      BY <1>0 DEF IntuitState
    <3>2. (saved /\ ~Answered) \in BOOLEAN
      BY DEF Answered
    <3>3. PICK a, t, g \in Nat, clean \in BOOLEAN :
             intuit' = [intuit EXCEPT !.access = a, !.refresh = t, !.grants = g, !.clean = clean]
      BY <1>3, <3>1, <3>2 DEF Grant
    <3> QED
      BY <1>0, <3>3 DEF IntuitState
  <2>2. intuit'.access \in Nat /\ intuit'.refresh \in Nat
    BY <2>1 DEF IntuitState
  <2>3. tokenStore' \in Token
    BY <1>0, <1>3, <2>2, TokenTypes DEF Grant
  <2> QED
    BY <1>3, <2>1, <2>3 DEF Grant, ApiTypeOK
<1>4. CASE ExchangeLost \/ DeleteToken \/ TimePasses
  <2>1. intuit' \in IntuitState
    <3>1. CASE ExchangeLost
      <4>1. intuit.access + 1 \in Nat /\ intuit.refresh + 1 \in Nat /\ intuit.grants + 1 \in Nat
        BY <1>0 DEF IntuitState
      <4>2. PICK a, t, g \in Nat :
               intuit' = [intuit EXCEPT !.access = a, !.refresh = t, !.grants = g,
                                        !.clean = FALSE]
        BY <3>1, <4>1 DEF ExchangeLost
      <4> QED
        BY <1>0, <4>2 DEF IntuitState
    <3>2. CASE DeleteToken \/ TimePasses
      BY <1>0, <3>2 DEF DeleteToken, TimePasses, IntuitState
    <3> QED
      BY <1>4, <3>1, <3>2
  <2>2. tokenStore' \in Token /\ UNCHANGED apiClient
    BY <1>0, <1>4, TokenTypes DEF ExchangeLost, DeleteToken, TimePasses
  <2> QED
    BY <2>1, <2>2 DEF ApiTypeOK
<1>5. ASSUME NEW c \in ApiClients, NEW method \in {"GET", "POST"}, Request(c, method)
      PROVE  ApiTypeOK'
  <2> DEFINE new == [NewApiClient EXCEPT !.pc = "ensure", !.method = method,
                                         !.token = apiClient[c].token,
                                         !.calls = apiClient[c].calls + 1]
  <2>1. new \in ApiClient
    <3>1. apiClient[c].token \in Token /\ apiClient[c].calls + 1 \in Nat
      BY <1>0 DEF ApiClient
    <3> QED
      BY <1>0, <3>1, NewApiClientType DEF ApiClient
  <2>2. Becomes(c, new) /\ UNCHANGED <<tokenStore, intuit>>
    BY <1>5 DEF Request
  <2> HIDE DEF new
  <2> QED
    BY <1>2, <2>1, <2>2
<1>6. ASSUME NEW c \in ApiClients, EnsureToken(c)
      PROVE  ApiTypeOK'
  <2> DEFINE token == IF apiClient[c].token # NoToken THEN apiClient[c].token ELSE tokenStore
             client  == [apiClient[c] EXCEPT !.token = token]
             refresh == [client EXCEPT !.pc = "refresh", !.why = "expired"]
             send    == [client EXCEPT !.pc = "send"]
  <2>1. token \in Token
    BY <1>0 DEF ApiClient
  <2>2. /\ Becomes(c, CASE token = NoToken -> Ended(client, "failed")
                        [] LooksExpired(token) -> refresh
                        [] OTHER -> send)
        /\ UNCHANGED <<tokenStore, intuit>>
    BY <1>6 DEF EnsureToken
  <2> HIDE DEF token
  <2>3. client \in ApiClient
    BY <1>0, <2>1 DEF ApiClient
  <2> HIDE DEF client
  <2>4. refresh \in ApiClient /\ send \in ApiClient
    BY <1>0, <2>3 DEF ApiClient
  <2>5. Ended(client, "failed") \in ApiClient
    BY <1>0, <2>3, EndedType
  <2> HIDE DEF refresh, send
  <2> QED
    BY <1>2, <2>2, <2>4, <2>5
<1>7. ASSUME NEW c \in ApiClients, RefreshRefused(c) \/ RefreshUnavailable(c)
      PROVE  ApiTypeOK'
  BY <1>0, <1>2, <1>7, GivenUpType, TryRefreshType DEF RefreshRefused, RefreshUnavailable
<1>8. ASSUME NEW c \in ApiClients, NEW rotated \in BOOLEAN, NEW lost \in BOOLEAN,
             RefreshAccepted(c, rotated, lost)
      PROVE  ApiTypeOK'
  <2>1. intuit' \in IntuitState
    <3>1. PICK a, n \in Nat, clean \in BOOLEAN :
             intuit' = [intuit EXCEPT !.access = a, !.refresh = n, !.clean = clean]
      <4>1. intuit.access + 1 \in Nat /\ intuit.refresh \in Nat /\ intuit.refresh + 1 \in Nat /\ intuit.clean \in BOOLEAN
        BY <1>0 DEF IntuitState
      <4>2. intuit' = [intuit EXCEPT !.access = @ + 1,
                                     !.refresh = IF rotated THEN intuit.refresh + 1
                                                 ELSE intuit.refresh,
                                     !.clean = intuit.clean /\ ~lost /\ ~Answered]
        BY <1>8 DEF RefreshAccepted
      <4>3. (intuit.clean /\ ~lost /\ ~Answered) \in BOOLEAN
        BY <4>1 DEF Answered
      <4> QED
        BY <4>1, <4>2, <4>3
    <3> QED
      BY <1>0, <3>1 DEF IntuitState
  <2> DEFINE got == [access |-> intuit'.access, refresh |-> intuit'.refresh, dated |-> FALSE]
             new == [apiClient[c] EXCEPT !.pc = "answer", !.tries = 0, !.got = got]
  <2>2. got \in Token
    BY <2>1, TokenTypes DEF IntuitState
  <2>3. /\ Becomes(c, IF lost THEN TryRefreshAgain(apiClient[c]) ELSE new)
        /\ UNCHANGED tokenStore
    BY <1>8 DEF RefreshAccepted
  <2> HIDE DEF got
  <2>4. new \in ApiClient
    <3>1. 0 \in 0..1
      OBVIOUS
    <3> QED
      BY <1>0, <2>2, <3>1 DEF ApiClient
  <2> HIDE DEF new
  <2>5. apiClient' \in [ApiClients -> ApiClient]
    BY <1>0, <1>1, <2>3, <2>4, TryRefreshType
  <2> QED
    BY <1>0, <2>1, <2>3, <2>5 DEF ApiTypeOK
<1>9. ASSUME NEW c \in ApiClients, UpdateToken(c)
      PROVE  ApiTypeOK'
  <2> DEFINE client == apiClient[c]
             fresh  == [client EXCEPT !.token = client.got, !.got = NoToken]
             sent   == [fresh EXCEPT !.pc = "send"]
  <2>1. client \in ApiClient /\ client.got \in Token
    BY <1>0 DEF ApiClient
  <2>2. /\ tokenStore' = Stored(client.got)
        /\ Becomes(c, CASE tokenStore = NoToken -> RefreshGivenUp(client)
                        [] client.why = "401" -> Again(fresh)
                        [] OTHER -> sent)
        /\ UNCHANGED intuit
    BY <1>9 DEF UpdateToken
  <2>3. tokenStore' \in Token
    BY <2>1, <2>2, TokenTypes DEF Stored
  <2> HIDE DEF client
  <2>4. fresh \in ApiClient
    BY <2>1, TokenTypes DEF ApiClient
  <2> HIDE DEF fresh
  <2>5. sent \in ApiClient
    BY <1>0, <2>4 DEF ApiClient
  <2>6. RefreshGivenUp(client) \in ApiClient /\ Again(fresh) \in ApiClient
    BY <2>1, <2>4, GivenUpType, AgainType
  <2> HIDE DEF sent
  <2>7. apiClient' \in [ApiClients -> ApiClient]
    BY <1>1, <2>2, <2>5, <2>6
  <2> QED
    BY <1>0, <2>2, <2>3, <2>7 DEF ApiTypeOK
<1>10. ASSUME NEW c \in ApiClients, SendSucceeds(c)
       PROVE  ApiTypeOK'
  BY <1>0, <1>2, <1>10, DoneType, EndedType DEF SendSucceeds
<1>11. ASSUME NEW c \in ApiClients, NEW took \in BOOLEAN, AnswerLost(c, took)
       PROVE  ApiTypeOK'
  <2> DEFINE client == [apiClient[c] EXCEPT !.lost = @ + 1]
  <2>1. client \in ApiClient
    BY <1>0 DEF ApiClient
  <2>2. /\ Becomes(c, Again(IF took THEN Done(client) ELSE client))
        /\ UNCHANGED <<tokenStore, intuit>>
    BY <1>11 DEF AnswerLost
  <2> HIDE DEF client
  <2>3. Again(IF took THEN Done(client) ELSE client) \in ApiClient
    BY <2>1, DoneType, AgainType
  <2> QED
    BY <1>2, <2>2, <2>3
<1>12. ASSUME NEW c \in ApiClients, Unauthorized(c)
       PROVE  ApiTypeOK'
  <2> DEFINE again == [apiClient[c] EXCEPT !.pc = "refresh", !.why = "401", !.tried401 = TRUE]
  <2>1. again \in ApiClient
    BY <1>0 DEF ApiClient
  <2>2. /\ Becomes(c, IF apiClient[c].tried401 THEN Ended(apiClient[c], "failed") ELSE again)
        /\ UNCHANGED <<tokenStore, intuit>>
    BY <1>12 DEF Unauthorized
  <2> HIDE DEF again
  <2> QED
    BY <1>0, <1>2, <2>1, <2>2, EndedType
<1>13. ASSUME NEW c \in ApiClients, NEW transient \in BOOLEAN, SendRefused(c, transient)
       PROVE  ApiTypeOK'
  BY <1>0, <1>2, <1>13, AgainType, EndedType DEF SendRefused
<1>14. CASE UNCHANGED apiVars
  BY <1>14 DEF apiVars, ApiTypeOK
<1> QED
  BY <1>3, <1>4, <1>5, <1>6, <1>7, <1>8, <1>9, <1>10, <1>11, <1>12, <1>13, <1>14
     DEF ClientNext

\* Whatever requests, refreshes and revocations interleave (api_client.py:
\* 150-340), a refresh is tried once more at most, and what the store and the
\* clients hold is a token or none.
THEOREM ApiTypeCorrect == ClientSpec => []ApiTypeOK
<1>1. ClientInit => ApiTypeOK
  BY TokenTypes, NewApiClientType DEF ClientInit, ApiTypeOK, IntuitState
<1> QED
  BY <1>1, ApiTypeNext, PTL DEF ClientSpec

-----------------------------------------------------------------------------
(* Access tokens: the revocations and the limiter.                         *)

USE AccessAssumption

\* A revoked token has been issued, and its row is there until the token expires;
\* what was accepted although it was revoked had expired.
RevocationInv ==
    /\ time \in Nat
    /\ issuedAt \in [Jtis -> Nat \cup {-1}]
    /\ revokedRow \in [Jtis -> Nat \cup {-1}]
    /\ \A j \in Jtis :
          /\ j \in wasRevoked => issuedAt[j] # -1
          /\ j \in wasRevoked /\ revokedRow[j] = -1 => Expiry(j) < time
          /\ revokedRow[j] # -1 => issuedAt[j] # -1 /\ revokedRow[j] = Expiry(j)
    /\ RevocationHolds

LEMMA RevocationInvInit == AccessInit => RevocationInv
  BY DEF AccessInit, RevocationInv, RevocationHolds, Expiry

\* The cleanup takes only revocations of tokens that have expired.
LEMMA CleanedKeeps ==
  ASSUME RevocationInv, NEW j \in Jtis
  PROVE  /\ Cleaned \in [Jtis -> Nat \cup {-1}]
         /\ Cleaned[j] \in {-1, revokedRow[j]}
         /\ revokedRow[j] # -1 /\ Cleaned[j] = -1 => Expiry(j) < time
  BY DEF RevocationInv, Cleaned

\* A token that is accepted and was revoked before has expired, and not by more
\* than the skew.
LEMMA AcceptedLate ==
  ASSUME RevocationInv, NEW j \in Jtis, Decodes(j), revokedRow[j] = -1, j \in wasRevoked
  PROVE  time - Expiry(j) \in 1..Skew
<1>1. Expiry(j) < time /\ time <= Expiry(j) + Skew /\ Expiry(j) \in Int /\ time \in Nat
  BY DEF RevocationInv, Decodes, Expiry
<1> QED
  BY <1>1

\* Every step preserves the invariant.
LEMMA RevocationInvNext == RevocationInv /\ [AccessNext]_accessVars => RevocationInv'
<1> SUFFICES ASSUME RevocationInv, [AccessNext]_accessVars PROVE RevocationInv'
  OBVIOUS
<1>0. \A j \in Jtis : Expiry(j) \in Int
  BY DEF RevocationInv, Expiry
<1>1. CASE UNCHANGED <<time, tokenVars>>
  BY <1>1 DEF tokenVars, RevocationInv, RevocationHolds, Expiry
<1>2. CASE Tick
  <2>1. time' = time + 1 /\ UNCHANGED tokenVars
    BY <1>2 DEF Tick
  <2>2. UNCHANGED <<issuedAt, revokedRow, wasRevoked, afterwards>>
    BY <2>1 DEF tokenVars
  <2> QED
    BY <1>0, <2>1, <2>2 DEF RevocationInv, RevocationHolds, Expiry
<1>3. ASSUME NEW j \in Jtis, CreateAccessToken(j)
      PROVE  RevocationInv'
  <2>1. /\ j \notin wasRevoked /\ revokedRow[j] = -1
        /\ issuedAt' = [issuedAt EXCEPT ![j] = time]
        /\ UNCHANGED <<time, revokedRow, wasRevoked, afterwards>>
    BY <1>3 DEF CreateAccessToken, RevocationInv
  <2> QED
    BY <1>0, <2>1 DEF RevocationInv, RevocationHolds, Expiry
<1>4. ASSUME NEW j \in Jtis, RevokeToken(j)
      PROVE  RevocationInv'
  <2>1. issuedAt[j] # -1 /\ Expiry(j) \in Nat
    BY <1>4 DEF RevokeToken, RevocationInv, Expiry
  <2>2. /\ revokedRow' = [revokedRow EXCEPT ![j] = Expiry(j)]
        /\ wasRevoked' = wasRevoked \cup {j}
        /\ UNCHANGED <<time, issuedAt, afterwards>>
    BY <1>4 DEF RevokeToken
  <2>3. revokedRow' \in [Jtis -> Nat \cup {-1}]
    BY <2>1, <2>2 DEF RevocationInv
  <2>4. \A i \in Jtis : Expiry(i)' = Expiry(i)
    BY <2>2 DEF Expiry
  <2> QED
    BY <1>0, <2>1, <2>2, <2>3, <2>4 DEF RevocationInv, RevocationHolds
<1>5. ASSUME NEW j \in Jtis, NEW commits \in BOOLEAN, AcceptToken(j, commits)
      PROVE  RevocationInv'
  <2>1. /\ revokedRow' \in {Cleaned, revokedRow} /\ Note(j, TRUE)
        /\ UNCHANGED <<time, issuedAt, wasRevoked>>
        /\ Decodes(j) /\ revokedRow[j] = -1
    BY <1>5 DEF AcceptToken, Admit
  <2>2. RevocationHolds'
    BY <2>1, AcceptedLate DEF Note, RevocationHolds, RevocationInv
  <2>3. \A i \in Jtis : Expiry(i)' = Expiry(i)
    BY <2>1 DEF Expiry
  <2>4. revokedRow' \in [Jtis -> Nat \cup {-1}]
    BY <2>1, CleanedKeeps DEF RevocationInv
  <2>5. \A i \in Jtis : /\ revokedRow'[i] \in {-1, revokedRow[i]}
                        /\ revokedRow[i] # -1 /\ revokedRow'[i] = -1 => Expiry(i) < time
    BY <2>1, CleanedKeeps
  <2> QED
    BY <2>1, <2>2, <2>3, <2>4, <2>5 DEF RevocationInv
<1>6. ASSUME NEW j \in Jtis, RunCommand(j)
      PROVE  RevocationInv'
  <2>1. Note(j, FALSE) /\ UNCHANGED <<time, issuedAt, revokedRow, wasRevoked>>
    BY <1>6 DEF RunCommand
  <2>2. RevocationHolds'
    BY <2>1 DEF Note, RevocationHolds, RevocationInv
  <2> QED
    BY <2>1, <2>2 DEF RevocationInv, Expiry
<1> QED
  BY <1>1, <1>2, <1>3, <1>4, <1>5, <1>6
     DEF AccessNext, accessVars, tokenVars, RefuseRequest, RestartServer, RejectToken, Admit

\* The API accepts no revoked token before it expires, whoever cleans up
\* (revocation.py:105-113): a row leaves the table only after its token's expiry.
THEOREM RevocationHoldsForAll == AccessSpec => []RevocationHolds
<1>1. RevocationInv => RevocationHolds
  BY DEF RevocationInv
<1> QED
  BY <1>1, RevocationInvInit, RevocationInvNext, PTL DEF AccessSpec

-----------------------------------------------------------------------------
(* The limiter.                                                            *)

\* The stamps are the requests, each with its own, and none of them is of later;
\* those within the window have not been cleaned up.
WindowInv ==
    /\ time \in Times
    /\ served \subseteq Stamps /\ IsFiniteSet(served) /\ hits \subseteq served
    /\ \A u \in served : u.at <= time /\ u.n < Cardinality(served)
    /\ \A u \in served : u.at >= time - Window => u \in hits
    /\ WindowHolds

LEMMA StampFacts ==
  ASSUME WindowInv
  PROVE  /\ Cardinality(served) \in Nat /\ Window \in Nat /\ time \in Nat
         /\ \A u \in served : u.at \in Nat /\ u.n \in Nat
<1>1. served \subseteq Stamps /\ IsFiniteSet(served)
  BY DEF WindowInv
<1>2. \A u \in Stamps : u.at \in Nat /\ u.n \in Nat
  <2>1. \A u \in [at : Times, n : Nat] : u.at \in Times /\ u.n \in Nat
    OBVIOUS
  <2> QED
    BY <2>1 DEF Stamps, Times
<1> QED
  BY <1>1, <1>2, FS_CardinalityType DEF WindowInv, Times

\* A request that is let through: every interval it is in has begun within the
\* window, so that the limiter has counted all the others of it.
LEMMA WindowAdmit == WindowInv /\ Admit => WindowInv'
<1> SUFFICES ASSUME WindowInv, Admit PROVE WindowInv'
  OBVIOUS
<1> DEFINE stamp == [at |-> time, n |-> Cardinality(served)]
<1>1. /\ hits' = Recent \cup {stamp} /\ served' = served \cup {stamp} /\ time' = time
      /\ ~Limited
  BY DEF Admit
<1>2. Cardinality(served) \in Nat
  BY StampFacts
<1>3. stamp \in Stamps /\ stamp.at = time /\ stamp.n = Cardinality(served) /\ stamp \notin served
  <2>1. stamp.at = time /\ stamp.n = Cardinality(served)
    OBVIOUS
  <2>2. stamp \in Stamps
    BY <1>2 DEF Stamps, WindowInv
  <2> HIDE DEF stamp
  <2>3. stamp \notin served
    BY <1>2, <2>1 DEF WindowInv
  <2> QED
    BY <2>1, <2>2, <2>3
<1> HIDE DEF stamp
<1>4. IsFiniteSet(served') /\ Cardinality(served') = Cardinality(served) + 1
  BY <1>1, <1>3, FS_AddElement DEF WindowInv
<1>5. served' \subseteq Stamps /\ hits' \subseteq served' /\ time' \in Times
  BY <1>1, <1>3 DEF WindowInv, Recent
<1>6. \A u \in served' : u.at <= time' /\ u.n < Cardinality(served')
  <2>1. \A u \in served : u.n \in Nat
    BY StampFacts
  <2> QED
    BY <1>1, <1>2, <1>3, <1>4, <2>1, StampFacts DEF WindowInv
<1>7. \A u \in served' : u.at >= time' - Window => u \in hits'
  BY <1>1, <1>3, StampFacts DEF WindowInv, Recent
<1>8. ASSUME NEW s \in served'
      PROVE  Cardinality({u \in served' : u.at \in s.at..(s.at + Window)}) <= Limit
  <2> DEFINE S == {u \in served' : u.at \in s.at..(s.at + Window)}
  <2>1. s.at \in Nat /\ s.at <= time /\ time \in Nat /\ Window \in Nat
    BY <1>1, <1>3, <1>8, StampFacts DEF WindowInv
  <2>2. CASE s.at + Window < time
    <3>1. S = {u \in served : u.at \in s.at..(s.at + Window)} /\ s \in served
      BY <1>1, <1>3, <2>1, <2>2
    <3> HIDE DEF S
    <3> QED
      BY <3>1 DEF WindowInv, WindowHolds, S
  <2>3. CASE s.at + Window >= time
    <3>1. S \subseteq Recent \cup {stamp}
      <4>1. \A u \in served : u.at \in Nat
        BY StampFacts
      <4> QED
        BY <1>1, <2>1, <2>3, <4>1 DEF WindowInv, Recent
    <3>2. IsFiniteSet(Recent)
      <4>1. Recent \subseteq served
        BY DEF Recent, WindowInv
      <4> QED
        BY <4>1, FS_Subset DEF WindowInv
    <3>3. stamp \notin Recent
      BY <1>3 DEF Recent, WindowInv
    <3>4. IsFiniteSet(Recent \cup {stamp}) /\ Cardinality(Recent \cup {stamp}) = Cardinality(Recent) + 1
      BY <3>2, <3>3, FS_AddElement
    <3>5. Cardinality(S) <= Cardinality(Recent) + 1 /\ IsFiniteSet(S)
      <4> HIDE DEF S
      <4> QED
        BY <3>1, <3>4, FS_Subset
    <3>6. Cardinality(Recent) \in Nat /\ Cardinality(S) \in Nat
      <4> HIDE DEF S
      <4> QED
        BY <3>2, <3>5, FS_CardinalityType
    <3>7. Cardinality(Recent) < Limit
      BY <1>1, <3>6 DEF Limited
    <3> HIDE DEF S
    <3>8. Cardinality(S) <= Limit
      BY <3>5, <3>6, <3>7
    <3> QED
      BY <3>8 DEF S
  <2> QED
    BY <2>1, <2>2, <2>3
<1> QED
  BY <1>4, <1>5, <1>6, <1>7, <1>8 DEF WindowInv, WindowHolds

LEMMA WindowInvNext == WindowInv /\ [AccessNext]_accessVars => WindowInv'
<1> SUFFICES ASSUME WindowInv, [AccessNext]_accessVars PROVE WindowInv'
  OBVIOUS
<1>0. time \in Nat /\ \A u \in served : u.at \in Nat
  BY StampFacts
<1>1. CASE UNCHANGED <<time, hits, served>>
  BY <1>1 DEF WindowInv, WindowHolds
<1>2. CASE Tick
  BY <1>0, <1>2 DEF Tick, Times, WindowInv, WindowHolds
<1>3. CASE RefuseRequest
  BY <1>3 DEF RefuseRequest, Recent, WindowInv, WindowHolds
<1>4. CASE RestartServer
  <2>1. served' = {} /\ hits' = {} /\ time' = time
    BY <1>4 DEF RestartServer
  <2> QED
    BY <2>1, FS_EmptySet DEF WindowInv, WindowHolds
<1> QED
  BY <1>1, <1>2, <1>3, <1>4, WindowAdmit
     DEF AccessNext, accessVars, CreateAccessToken, RevokeToken, RejectToken, AcceptToken, RunCommand

LEMMA WindowInvInit == AccessInit => WindowInv
<1> SUFFICES ASSUME AccessInit PROVE WindowInv
  OBVIOUS
<1>1. time = 0 /\ hits = {} /\ served = {}
  BY DEF AccessInit
<1> QED
  BY <1>1, FS_EmptySet DEF WindowInv, WindowHolds, Times

\* No interval of the window's length has more requests than the limit
\* (rate_limit.py:64-100): what _cleanup drops is too old to share one with a
\* request that is still to come.
THEOREM WindowHoldsForAll == AccessSpec => []WindowHolds
<1>1. WindowInv => WindowHolds
  BY DEF WindowInv
<1> QED
  BY <1>1, WindowInvInit, WindowInvNext, PTL DEF AccessSpec

-----------------------------------------------------------------------------
(* Types.                                                                  *)

LEMMA AccessTypeInit == AccessInit => AccessTypeOK
  BY DEF AccessInit, AccessTypeOK, Times

LEMMA AccessTypeNext ==
  AccessTypeOK /\ RevocationInv /\ WindowInv' /\ [AccessNext]_accessVars => AccessTypeOK'
<1> SUFFICES ASSUME AccessTypeOK, RevocationInv, WindowInv', [AccessNext]_accessVars
             PROVE  AccessTypeOK'
  OBVIOUS
<1>1. hits' \subseteq Stamps /\ served' \subseteq Stamps
  BY DEF WindowInv
<1>2. time' \in Times
  BY DEF WindowInv
<1>3. /\ issuedAt' \in [Jtis -> Times \cup {-1}]
      /\ revokedRow' \in [Jtis -> 0..(Horizon + Life) \cup {-1}]
      /\ wasRevoked' \subseteq Jtis
      /\ afterwards' \subseteq [late : Int, api : BOOLEAN]
  <2>1. CASE UNCHANGED tokenVars
    BY <2>1 DEF tokenVars, AccessTypeOK
  <2>2. ASSUME NEW j \in Jtis, CreateAccessToken(j) PROVE <1>3!:
    BY <2>2 DEF CreateAccessToken, AccessTypeOK
  <2>3. ASSUME NEW j \in Jtis, RevokeToken(j) PROVE <1>3!:
    <3>1. Expiry(j) \in 0..(Horizon + Life)
      BY <2>3 DEF RevokeToken, AccessTypeOK, Expiry, Times
    <3> QED
      BY <2>3, <3>1 DEF RevokeToken, AccessTypeOK
  <2>4. ASSUME NEW j \in Jtis, NEW api \in BOOLEAN, Note(j, api)
        PROVE  afterwards' \subseteq [late : Int, api : BOOLEAN]
    <3>1. time - Expiry(j) \in Int
      BY DEF RevocationInv, Expiry
    <3>2. [late |-> time - Expiry(j), api |-> api] \in [late : Int, api : BOOLEAN]
      BY <3>1
    <3> QED
      BY <2>4, <3>2 DEF Note, AccessTypeOK
  <2>5. ASSUME NEW j \in Jtis, NEW commits \in BOOLEAN, AcceptToken(j, commits) PROVE <1>3!:
    <3>1. Cleaned \in [Jtis -> 0..(Horizon + Life) \cup {-1}]
      BY DEF Cleaned, AccessTypeOK
    <3> QED
      BY <2>4, <2>5, <3>1 DEF AcceptToken, AccessTypeOK
  <2>6. ASSUME NEW j \in Jtis, RunCommand(j) PROVE <1>3!:
    BY <2>4, <2>6 DEF RunCommand, AccessTypeOK
  <2> QED
    BY <2>1, <2>2, <2>3, <2>5, <2>6
       DEF AccessNext, accessVars, tokenVars, Tick, RefuseRequest, RestartServer, RejectToken
<1> QED
  BY <1>1, <1>2, <1>3 DEF AccessTypeOK

\* Every variable keeps its type: above all, the clock stays within the horizon and
\* no token's row outlives its lifetime.
THEOREM AccessTypeCorrect == AccessSpec => []AccessTypeOK
  BY AccessTypeInit, AccessTypeNext, RevocationInvInit, RevocationInvNext,
     WindowInvInit, WindowInvNext, PTL DEF AccessSpec

-----------------------------------------------------------------------------
(* The services together.  They share no variable and no step: a step of   *)
(* the run is a step of one of them and leaves the others alone.           *)

servicesVars == <<part, categoryVars, engineVars, apiVars, coaVars, registryVars,
                  accessVars>>

\* A step of the run is, for each service, a step of it or none.
LEMMA ServicesStep ==
  ASSUME [ServicesNext]_servicesVars
  PROVE  /\ [CategoryNext]_categoryVars /\ [EngineNext]_engineVars
         /\ [ClientNext]_apiVars /\ [CoaNext]_coaVars
         /\ [RegistryNext]_registryVars /\ [AccessNext]_accessVars
         /\ UNCHANGED part
<1>1. CASE UNCHANGED servicesVars
  BY <1>1 DEF servicesVars
<1>2. CASE ServicesNext
  BY <1>2 DEF ServicesNext, restVars
<1> QED
  BY <1>1, <1>2

\* Each service, seen by itself, behaves as its specification says.
THEOREM ServicesCompose ==
  ServicesSpec => /\ CategorySpec /\ EngineSpec /\ ClientSpec
                  /\ CoaSpec /\ RegistrySpec /\ AccessSpec
<1>1. ServicesInit => /\ CategoryInit /\ EngineInit /\ ClientInit
                      /\ CoaInit /\ RegistryInit /\ AccessInit
  BY DEF ServicesInit
<1>2. [ServicesNext]_servicesVars =>
        /\ [CategoryNext]_categoryVars /\ [EngineNext]_engineVars
        /\ [ClientNext]_apiVars /\ [CoaNext]_coaVars
        /\ [RegistryNext]_registryVars /\ [AccessNext]_accessVars
  BY ServicesStep
<1>3. ServicesSpec => ServicesInit /\ [][ServicesNext]_servicesVars
  BY DEF ServicesSpec, servicesVars
<1> QED
  BY <1>1, <1>2, <1>3, PTL
  DEF CategorySpec, EngineSpec, ClientSpec, CoaSpec, RegistrySpec, AccessSpec

\* Every variable of every service keeps its type, in the run of all of them.
THEOREM ServicesTypeCorrect == ServicesSpec => []ServicesTypeOK
<1>1. ServicesInit => part \in Parts
  BY DEF ServicesInit
<1>2. part \in Parts /\ [ServicesNext]_servicesVars => (part \in Parts)'
  BY ServicesStep
<1>3. ServicesSpec => ServicesInit /\ [][ServicesNext]_servicesVars
  BY DEF ServicesSpec, servicesVars
<1>4. ServicesSpec => [](part \in Parts)
  BY <1>1, <1>2, <1>3, PTL
<1>5. /\ part \in Parts
      /\ CategoryTypeOK /\ EngineTypeOK /\ ApiTypeOK
      /\ CoaTypeOK /\ RegistryTypeOK /\ AccessTypeOK
      => ServicesTypeOK
  BY DEF ServicesTypeOK
<1> QED
  BY <1>4, <1>5, ServicesCompose, CategoryTypeCorrect, EngineTypeCorrect, ApiTypeCorrect,
     CoaTypeCorrect, RegistryTypeCorrect, AccessTypeCorrect, PTL

\* What is promised of each service is kept in the run of all of them.
THEOREM ServicesKeepPromises ==
  ServicesSpec =>
    /\ [](OneEffect /\ AppliedIsVerified /\ DecisionOnRecord) /\ NoEditIsOverwritten
    /\ [](EverythingIsReviewed /\ FirstRuleLeads /\ LostRun)
    /\ [](StoredRefreshTokenIsCurrent /\ OnceUnlessLost)
    /\ [](AccountsAreCurrent /\ ParentsAreLinked /\ HierarchyAgrees /\ AnswersAgree)
    /\ [](OneShadow /\ EventsExplainStatus /\ ShadowCostsOnlyRepeats)
    /\ [](RevocationHolds /\ WindowHolds)
<1>1. CategorySpec => /\ [](OneEffect /\ AppliedIsVerified /\ DecisionOnRecord)
                      /\ NoEditIsOverwritten
  BY OneEffectHolds, AppliedIsVerifiedHolds, DecisionOnRecordHolds,
     NoEditIsOverwrittenHolds, PTL
<1>2. EngineSpec => [](EverythingIsReviewed /\ FirstRuleLeads /\ LostRun)
  BY EverythingIsReviewedHolds, FirstRuleLeadsHolds, LostRunHolds, PTL
<1>3. ClientSpec => [](StoredRefreshTokenIsCurrent /\ OnceUnlessLost)
  BY StoredRefreshTokenHolds, OnceUnlessLostHolds, PTL
<1>4. CoaSpec => [](AccountsAreCurrent /\ ParentsAreLinked /\ HierarchyAgrees
                    /\ AnswersAgree)
  BY AccountsAreCurrentHolds, ParentsAreLinkedHolds, HierarchyAgreesHolds,
     AnswersAgreeHolds, PTL
<1>5. RegistrySpec => [](OneShadow /\ EventsExplainStatus /\ ShadowCostsOnlyRepeats)
  BY OneShadowHolds, EventsExplainStatusHolds, ShadowCostsOnlyRepeatsHolds, PTL
<1>6. AccessSpec => [](RevocationHolds /\ WindowHolds)
  BY RevocationHoldsForAll, WindowHoldsForAll, PTL
<1> QED
  BY <1>1, <1>2, <1>3, <1>4, <1>5, <1>6, ServicesCompose
=============================================================================
