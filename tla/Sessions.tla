------------------------------ MODULE Sessions ------------------------------
(***************************************************************************)
(* The sessions of one user: the refresh_tokens table of the server, the   *)
(* handlers of /auth/login, /auth/refresh and /auth/logout, and on each    *)
(* device the stored tokens and the interceptor that renews them when a    *)
(* request comes back with 401.                                            *)
(*                                                                         *)
(* An access token and the refresh token issued with it share a number.    *)
(* A family is named by its first token.  0 stands for "no token".         *)
(***************************************************************************)
EXTENDS Naturals

CONSTANTS
  Devices,      \* devices the user is signed in on
  Calls,        \* API requests a device may have out at a time
  Homes,        \* households
  NoHome,       \* "the user belongs to no household"
  MaxTokens,    \* bound: token pairs ever issued
  Lossy         \* whether requests and database calls may fail

ASSUME SessionsAssumption ==
  /\ NoHome \notin Homes
  /\ MaxTokens \in Nat
  /\ Lossy \in BOOLEAN

Ids == 0..MaxTokens
Tokens == Ids \ {0}

VARIABLES
  row,          \* refresh_tokens: the state of each token's row
  family,       \* the family of each issued token
  claim,        \* the household claim of each access token
  issued,       \* token pairs issued so far
  home,         \* users.household_id
  late, old,    \* access tokens, refresh tokens, past their expiry
  app,          \* per device: the secure store and the auth state
  call,         \* per device: its requests and where their handling stands
  renewal,      \* per device and request: the /auth/refresh it started
  unheard,      \* history: tokens renewed for a device that got no answer
  revoked,      \* history: families deleted by a logout or a reuse
  racing        \* history: families revoked while a renewal was under way

server == <<row, family, claim, issued, home>>
clock == <<late, old>>
client == <<app, call>>
history == <<unheard, revoked, racing>>
vars == <<server, clock, client, renewal, history>>

SignedOut == [acc |-> 0, ref |-> 0, fam |-> 0, in |-> FALSE]
Idle == [at |-> "idle", leaving |-> FALSE, acc |-> 0, fam |-> 0]
NoRenewal == [at |-> "none", tok |-> 0, fam |-> 0, new |-> 0, heard |-> FALSE]

Init ==
  /\ row = [t \in Tokens |-> "none"]
  /\ family = [t \in Tokens |-> 0]
  /\ claim = [t \in Tokens |-> NoHome]
  /\ issued = 0
  /\ home \in Homes
  /\ late = {} /\ old = {}
  /\ app = [d \in Devices |-> SignedOut]
  /\ call = [d \in Devices |-> [c \in Calls |-> Idle]]
  /\ renewal = [d \in Devices |-> [c \in Calls |-> NoRenewal]]
  /\ unheard = {} /\ revoked = {} /\ racing = {}

-----------------------------------------------------------------------------
(* The server.                                                             *)

\* JwtStrategy.validate: not expired, and the household claim is current.
Accepted(t) == t # 0 /\ t \notin late /\ claim[t] = home

\* Variant: the bound is off by one.
IssueTokensTooMany(f, h) ==
  LET t == issued + 1 IN
  /\ issued <= MaxTokens
  /\ issued' = t
  /\ row' = [row EXCEPT ![t] = "fresh"]
  /\ family' = [family EXCEPT ![t] = IF f = 0 THEN t ELSE f]
  /\ claim' = [claim EXCEPT ![t] = h]

\* issueTokens: one more row, in the given family or (0) in one of its own.
IssueTokens(f, h) ==
  LET t == issued + 1 IN
  /\ issued < MaxTokens
  /\ issued' = t
  /\ row' = [row EXCEPT ![t] = "fresh"]
  /\ family' = [family EXCEPT ![t] = IF f = 0 THEN t ELSE f]
  /\ claim' = [claim EXCEPT ![t] = h]

\* Variant: only the rows that were renewed are deleted.
DeleteUsed(f) ==
  /\ row' = [t \in Tokens |-> IF family[t] = f /\ row[t] = "used" THEN "none" ELSE row[t]]
  /\ revoked' = revoked \union {f}
  /\ racing' = racing
  /\ UNCHANGED <<family, claim, issued, home, unheard>>

DeleteFamily(f) ==
  /\ row' = [t \in Tokens |-> IF family[t] = f THEN "none" ELSE row[t]]
  /\ revoked' = revoked \union {f}
  /\ racing' = IF \E d \in Devices, c \in Calls :
                    /\ renewal[d][c].fam = f
                    /\ renewal[d][c].at \in {"checked", "marked"}
               THEN racing \union {f} ELSE racing
  /\ UNCHANGED <<family, claim, issued, home, unheard>>

Renewal(d, c, at) ==
  renewal' = [renewal EXCEPT ![d][c].at = at]

\* The answer of refresh; a device that no longer waits never sees it.
Answer(d, c, at, new) ==
  renewal' = [renewal EXCEPT ![d][c] =
                IF @.heard THEN [@ EXCEPT !.at = at, !.new = new] ELSE NoRenewal]

Refuse(d, c) == Answer(d, c, "refused", 0)

\* Variant: the access token's expiry decides.
VerdictLate(tok, fam) ==
  CASE row[tok] = "none" \/ family[tok] # fam -> "refused"
    [] row[tok] = "used" /\ family[tok] = fam -> "reused"
    [] row[tok] = "fresh" /\ family[tok] = fam ->
         IF tok \in late THEN "refused" ELSE "checked"

Verdict(tok, fam) ==
  CASE row[tok] = "none" \/ family[tok] # fam -> "refused"
    [] row[tok] = "used" /\ family[tok] = fam -> "reused"
    [] row[tok] = "fresh" /\ family[tok] = fam ->
         IF tok \in old THEN "refused" ELSE "checked"

\* refresh, up to its checks; an expired row is deleted on the way out.
Check(d, c) ==
  LET r == renewal[d][c] IN
  /\ r.at = "arrived"
  /\ IF Verdict(r.tok, r.fam) = "refused" THEN Refuse(d, c)
     ELSE Renewal(d, c, Verdict(r.tok, r.fam))
  /\ row' = IF family[r.tok] = r.fam /\ row[r.tok] = "fresh" /\ r.tok \in old
            THEN [row EXCEPT ![r.tok] = "none"] ELSE row
  /\ UNCHANGED <<family, claim, issued, home, clock, client, history>>

\* The token was used before: its whole family goes.
EndFamily(d, c) ==
  /\ renewal[d][c].at = "reused"
  /\ DeleteFamily(renewal[d][c].fam)
  /\ Refuse(d, c)
  /\ UNCHANGED <<clock, client>>

\* Variant: usedAt is not written.
MarkNothing(d, c) ==
  LET r == renewal[d][c] IN
  /\ r.at = "checked"
  /\ IF row[r.tok] = "none" THEN Refuse(d, c) ELSE Renewal(d, c, "marked")
  /\ UNCHANGED <<row, family, claim, issued, home, clock, client, history>>

\* usedAt is written by token hash alone; update throws when the row is gone.
Mark(d, c) ==
  LET r == renewal[d][c] IN
  /\ r.at = "checked"
  /\ IF row[r.tok] = "none"
     THEN Refuse(d, c) /\ UNCHANGED row
     ELSE Renewal(d, c, "marked") /\ row' = [row EXCEPT ![r.tok] = "used"]
  /\ UNCHANGED <<family, claim, issued, home, clock, client, history>>

Issue(d, c) ==
  LET r == renewal[d][c] IN
  /\ r.at = "marked"
  /\ IssueTokens(r.fam, home)
  /\ Answer(d, c, "answered", issued + 1)
  /\ UNCHANGED <<home, clock, client, history>>

\* A database call of refresh throws: 500, and what was written stays.
Break(d, c) ==
  LET r == renewal[d][c] IN
  /\ Lossy
  /\ r.at \in {"arrived", "reused", "checked", "marked"}
  /\ Answer(d, c, "broken", 0)
  /\ unheard' = IF r.at = "marked" THEN unheard \union {r.tok} ELSE unheard
  /\ UNCHANGED <<server, clock, client, revoked, racing>>

\* removeMember, run by another user: this user has no household any more.
RemovedFromHome ==
  /\ home # NoHome
  /\ home' = NoHome
  /\ UNCHANGED <<row, family, claim, issued, clock, client, renewal, history>>

\* Variant: the access token's expiry decides.
CleanUpLate ==
  /\ \E t \in late : row[t] # "none"
  /\ row' = [t \in Tokens |-> IF t \in late THEN "none" ELSE row[t]]
  /\ UNCHANGED <<family, claim, issued, home, clock, client, renewal, history>>

\* cleanupExpiredRefreshTokens.
CleanUp ==
  /\ \E t \in old : row[t] # "none"
  /\ row' = [t \in Tokens |-> IF t \in old THEN "none" ELSE row[t]]
  /\ UNCHANGED <<family, claim, issued, home, clock, client, renewal, history>>

\* Time passes; only the expiry of a token somebody stores or sent matters.
ExpireAccess(t) ==
  /\ t \in 1..issued \ late
  /\ \E d \in Devices : app[d].acc = t \/ \E c \in Calls : call[d][c].acc = t
  /\ late' = late \union {t}
  /\ UNCHANGED <<server, old, client, renewal, history>>

ExpireRefresh(t) ==
  /\ t \in late \ old
  /\ \E d \in Devices : app[d].ref = t \/ \E c \in Calls : renewal[d][c].tok = t
  /\ old' = old \union {t}
  /\ UNCHANGED <<server, late, client, renewal, history>>

-----------------------------------------------------------------------------
(* A device.                                                               *)

\* _isRefreshing.
Busy(d) == \E c \in Calls : renewal[d][c].heard

\* onRequest attaches the access token stored at that moment.
Request(d, leaving) ==
  [at |-> "sent", leaving |-> leaving, acc |-> app[d].acc,
   fam |-> IF leaving THEN app[d].fam ELSE 0]

\* What is left of the sign-out once its logout request is over.
Clearing == [Idle EXCEPT !.at = "clearing", !.leaving = TRUE]

\* _signOutSession, up to its logout request; without a family it posts none.
Leave(d) ==
  IF app[d].fam # 0 THEN Request(d, TRUE)
  ELSE Clearing

\* _handleSessionExpired, for the request whose 401 could not be mended.
Expired(d, c) ==
  CASE app[d].in -> Leave(d)
    [] ~app[d].in /\ call[d][c].leaving -> Clearing
    [] ~app[d].in /\ ~call[d][c].leaving -> Idle

Send(d, c) ==
  /\ app[d].in /\ call[d][c] = Idle
  /\ call' = [call EXCEPT ![d][c] = Request(d, FALSE)]
  /\ UNCHANGED <<server, clock, app, renewal, history>>

SignOut(d, c) ==
  /\ app[d].in /\ call[d][c] = Idle
  /\ call' = [call EXCEPT ![d][c] = Leave(d)]
  /\ UNCHANGED <<server, clock, app, renewal, history>>

Serve(d, c) ==
  /\ call[d][c].at = "sent" /\ ~call[d][c].leaving
  /\ Accepted(call[d][c].acc)
  /\ call' = [call EXCEPT ![d][c] = Idle]
  /\ UNCHANGED <<server, clock, app, renewal, history>>

\* logout, with the family the device named.
ServeLogout(d, c) ==
  /\ call[d][c].at = "sent" /\ call[d][c].leaving
  /\ Accepted(call[d][c].acc)
  /\ DeleteFamily(call[d][c].fam)
  /\ call' = [call EXCEPT ![d][c] = Clearing]
  /\ UNCHANGED <<clock, app, renewal>>

\* A request or its answer is lost, or the rate limit answers 429: only a 401
\* is handled by the interceptor.
Lose(d, c) ==
  /\ Lossy
  /\ call[d][c].at = "sent"
  /\ call' = [call EXCEPT ![d][c] = IF @.leaving THEN Clearing ELSE Idle]
  /\ UNCHANGED <<server, clock, app, renewal, history>>

Refused(d, c) ==
  /\ call[d][c].at = "sent"
  /\ ~Accepted(call[d][c].acc)

\* 401, and _attemptTokenRefresh posts the stored refresh token and family.
Renew(d, c) ==
  /\ Refused(d, c)
  /\ ~Busy(d) /\ app[d].ref # 0 /\ app[d].fam # 0
  /\ renewal[d][c] = NoRenewal
  /\ renewal' = [renewal EXCEPT ![d][c] =
                   [at |-> "arrived", tok |-> app[d].ref, fam |-> app[d].fam,
                    new |-> 0, heard |-> TRUE]]
  /\ call' = [call EXCEPT ![d][c] = [@ EXCEPT !.at = "renewing", !.acc = 0]]
  /\ UNCHANGED <<server, clock, app, history>>

\* 401 while another request renews, or with nothing stored to renew with.
GiveUp(d, c) ==
  /\ Refused(d, c)
  /\ Busy(d) \/ app[d].ref = 0 \/ app[d].fam = 0
  /\ call' = [call EXCEPT ![d][c] = Expired(d, c)]
  /\ UNCHANGED <<server, clock, app, renewal, history>>

\* Variant: the new refresh token is not stored.
RenewedAccessOnly(d, c) ==
  LET n == renewal[d][c].new IN
  /\ renewal[d][c].at = "answered" /\ renewal[d][c].heard
  /\ app' = [app EXCEPT ![d].acc = n, ![d].fam = family[n]]
  /\ call' = [call EXCEPT ![d][c] = [@ EXCEPT !.at = "sent", !.acc = n]]
  /\ renewal' = [renewal EXCEPT ![d][c] = NoRenewal]
  /\ UNCHANGED <<server, clock, history>>

\* The new tokens are stored and the refused request is sent again.
Renewed(d, c) ==
  LET n == renewal[d][c].new IN
  /\ renewal[d][c].at = "answered" /\ renewal[d][c].heard
  /\ app' = [app EXCEPT ![d].acc = n, ![d].ref = n, ![d].fam = family[n]]
  /\ call' = [call EXCEPT ![d][c] = [@ EXCEPT !.at = "sent", !.acc = n]]
  /\ renewal' = [renewal EXCEPT ![d][c] = NoRenewal]
  /\ UNCHANGED <<server, clock, history>>

\* Whatever the status of the answer, the renewal has failed.
NotRenewed(d, c) ==
  /\ renewal[d][c].at \in {"refused", "broken"} /\ renewal[d][c].heard
  /\ call' = [call EXCEPT ![d][c] = Expired(d, c)]
  /\ renewal' = [renewal EXCEPT ![d][c] = NoRenewal]
  /\ UNCHANGED <<server, clock, app, history>>

\* A renewal nobody waits for; finished, its answer is not looked at.
Abandoned(r) ==
  IF r.at \in {"answered", "refused", "broken"} THEN NoRenewal ELSE [r EXCEPT !.heard = FALSE]

\* Eight seconds without an answer; the server goes on with the request.
TimeOut(d, c) ==
  /\ Lossy
  /\ renewal[d][c].heard
  /\ renewal' = [renewal EXCEPT ![d][c] = Abandoned(@)]
  /\ unheard' = unheard \union {renewal[d][c].tok}
  /\ call' = [call EXCEPT ![d][c] = Expired(d, c)]
  /\ UNCHANGED <<server, clock, app, revoked, racing>>

\* The rest of _signOutSession: tokens, profile and auth state are dropped.
Clear(d, c) ==
  /\ call[d][c].at = "clearing"
  /\ app' = [app EXCEPT ![d] = SignedOut]
  /\ call' = [call EXCEPT ![d][c] = Idle]
  /\ UNCHANGED <<server, clock, renewal, history>>

\* login, register or googleSignIn, with its answer.
Login(d) ==
  /\ ~app[d].in
  /\ IssueTokens(0, home)
  /\ app' = [app EXCEPT ![d] = [acc |-> issued + 1, ref |-> issued + 1,
                                fam |-> issued + 1, in |-> TRUE]]
  /\ UNCHANGED <<home, clock, call, renewal, history>>

\* createHousehold or joinHousehold: of the tokens in the answer the device
\* stores the access token and the family.
EnterHome(d, h, heard) ==
  /\ app[d].in /\ Accepted(app[d].acc)
  /\ IssueTokens(0, h)
  /\ home' = h
  /\ app' = IF heard THEN [app EXCEPT ![d] = [@ EXCEPT !.acc = issued + 1, !.fam = issued + 1]]
            ELSE app
  /\ UNCHANGED <<clock, call, renewal, history>>

\* deleteHousehold: the device stores the access token only.
DissolveHome(d, heard) ==
  /\ app[d].in /\ Accepted(app[d].acc)
  /\ home # NoHome
  /\ IssueTokens(0, NoHome)
  /\ home' = NoHome
  /\ app' = IF heard THEN [app EXCEPT ![d].acc = issued + 1] ELSE app
  /\ UNCHANGED <<clock, call, renewal, history>>

\* The application is killed and started again.
Restart(d) ==
  /\ Lossy
  /\ \E c \in Calls : call[d][c] # Idle
  /\ call' = [call EXCEPT ![d] = [c \in Calls |-> Idle]]
  /\ unheard' = unheard \union {renewal[d][c].tok : c \in {k \in Calls : renewal[d][k].heard}}
  /\ renewal' = [renewal EXCEPT ![d] = [c \in Calls |-> Abandoned(@[c])]]
  /\ UNCHANGED <<server, clock, app, revoked, racing>>

-----------------------------------------------------------------------------
Heard == IF Lossy THEN BOOLEAN ELSE {TRUE}

ServerStep(d, c) ==
  Check(d, c) \/ EndFamily(d, c) \/ Mark(d, c) \/ Issue(d, c) \/ Break(d, c)

ClientStep(d, c) ==
  \/ Serve(d, c) \/ ServeLogout(d, c)
  \/ Renew(d, c) \/ GiveUp(d, c)
  \/ Renewed(d, c) \/ NotRenewed(d, c) \/ Clear(d, c)

Next ==
  \/ \E d \in Devices, c \in Calls :
       \/ ServerStep(d, c) \/ ClientStep(d, c)
       \/ Send(d, c) \/ SignOut(d, c) \/ Lose(d, c) \/ TimeOut(d, c)
  \/ \E d \in Devices :
       \/ Login(d) \/ Restart(d)
       \/ \E heard \in Heard : DissolveHome(d, heard) \/ \E h \in Homes : EnterHome(d, h, heard)
  \/ RemovedFromHome \/ CleanUp
  \/ \E t \in Tokens : ExpireAccess(t) \/ ExpireRefresh(t)

Spec == Init /\ [][Next]_vars

-----------------------------------------------------------------------------
(* Properties.                                                             *)

AppState == [acc : Ids, ref : Ids, fam : Ids, in : BOOLEAN]
CallState ==
  [at : {"idle", "sent", "renewing", "clearing"}, leaving : BOOLEAN, acc : Ids, fam : Ids]
RenewalState ==
  [at : {"none", "arrived", "checked", "marked", "reused",
          "answered", "refused", "broken"},
   tok : Ids, fam : Ids, new : Ids, heard : BOOLEAN]

TypeOK ==
  /\ row \in [Tokens -> {"none", "fresh", "used"}]
  /\ family \in [Tokens -> Ids]
  /\ claim \in [Tokens -> Homes \union {NoHome}]
  /\ issued \in Ids
  /\ home \in Homes \union {NoHome}
  /\ late \subseteq Tokens /\ old \subseteq Tokens
  /\ app \in [Devices -> AppState]
  /\ call \in [Devices -> [Calls -> CallState]]
  /\ renewal \in [Devices -> [Calls -> RenewalState]]
  /\ unheard \subseteq Tokens /\ revoked \subseteq Ids /\ racing \subseteq Ids

\* The reuse detection of refresh takes a device for a thief only when an
\* answer to that device's renewal of that very token got lost: requests that
\* overlap, sign-outs and household changes never trigger it by themselves.
ReuseMeansLostAnswer ==
  \A d \in Devices, c \in Calls :
    renewal[d][c].at = "reused" => renewal[d][c].tok \in unheard

\* After a logout or a detected reuse no token of the family can be renewed,
\* except when a renewal that had passed its check was still under way: that
\* one puts a usable row back (auth.service.ts:223-240 against 250-262).
RevokedFamilyStaysRevoked ==
  \A t \in Tokens :
    row[t] = "fresh" /\ family[t] \in revoked => family[t] \in racing

\* The refresh token a device stores can be renewed, unless one of these
\* happened: it expired, its family was revoked, or its answer got lost or is
\* still on the way.
StoredTokenIsGood ==
  \A d \in Devices :
    LET t == app[d].ref IN
    \/ t = 0 \/ t \in old \/ t \in unheard \/ family[t] \in revoked
    \/ \E c \in Calls : renewal[d][c].heard /\ renewal[d][c].tok = t
    \/ row[t] = "fresh"

\* Of each family at most one token can be renewed, however renewals of it
\* overlap, unless the answer to one of its renewals got lost.
OneUsableToken ==
  \A t, u \in Tokens :
    t # u /\ row[t] = "fresh" /\ row[u] = "fresh" /\ family[t] = family[u] =>
      \E x \in unheard : family[x] = family[t]

\* Whatever overlaps or gets lost, refresh refuses a renewal for one of three
\* reasons (or a database call of it broke): the token expired, its family was
\* revoked, or the device named another family than the token's, the one it
\* stored when it entered a household.
RefusedForCause ==
  \A d \in Devices, c \in Calls :
    LET r == renewal[d][c] IN
    r.at = "refused" =>
      r.tok \in old \/ family[r.tok] \in revoked \/ family[r.tok] # r.fam

\* The device ends its session only when the refresh token it stores cannot
\* be renewed any more.
SignedOutForCause ==
  [][\A d \in Devices, c \in Calls :
       NotRenewed(d, c) /\ app[d].in =>
         \/ app[d].ref \in old \/ row[app[d].ref] # "fresh"]_vars

=============================================================================
