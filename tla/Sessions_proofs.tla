-------------------------- MODULE Sessions_proofs --------------------------
(***************************************************************************)
(* What TLAPS proves of Sessions for any number of devices, requests,      *)
(* households and tokens.                                                  *)
(***************************************************************************)
EXTENDS Sessions, TLAPS

\* A request for a renewal names a token that was issued, and so does its answer.
Flight ==
  \A d \in Devices, c \in Calls :
    /\ renewal[d][c].at # "none" => renewal[d][c].tok \in Tokens
    /\ renewal[d][c].at = "answered" => renewal[d][c].new \in Tokens
    /\ renewal[d][c].heard => renewal[d][c].at # "none"

\* Nobody names a family before its first token was issued.
Known ==
  /\ \A t \in Tokens : family[t] <= issued
  /\ \A f \in revoked : f <= issued
  /\ \A d \in Devices : app[d].fam <= issued
  /\ \A d \in Devices, c \in Calls :
       call[d][c].fam <= issued /\ renewal[d][c].fam <= issued

\* A renewal past its check belongs to a family nobody has revoked, or to one
\* that was revoked while a renewal was under way.
Races ==
  \A d \in Devices, c \in Calls :
    renewal[d][c].at \in {"checked", "marked"} /\ renewal[d][c].fam \in revoked
      => renewal[d][c].fam \in racing

Frame == TypeOK /\ Flight /\ Known

IInv == Frame /\ Races /\ RevokedFamilyStaysRevoked

USE DEF Ids, Tokens

\* At first no token is issued.
LEMMA Start == Init => IInv
BY SessionsAssumption DEF Init, IInv, Frame, TypeOK, Flight, Known, Races,
  RevokedFamilyStaysRevoked, SignedOut, Idle, NoRenewal, AppState, CallState, RenewalState

(***************************************************************************)
(* What the parts of the actions do to the states of requests, renewals    *)
(* and the token table.                                                    *)
(***************************************************************************)
LEMMA CallStates ==
  ASSUME TypeOK, Known, NEW d \in Devices, NEW c \in Calls
  PROVE  /\ \A x \in {Idle, Clearing, Leave(d), Expired(d, c), Request(d, FALSE)} :
               x \in CallState /\ x.fam <= issued
         /\ \A a \in Ids, at \in {"sent", "renewing"} :
               LET x == [call[d][c] EXCEPT !.at = at, !.acc = a] IN
               x \in CallState /\ x.fam <= issued
<1>1. Idle \in CallState /\ Idle.fam <= issued
  BY SessionsAssumption DEF Idle, CallState, TypeOK
<1>2. Clearing \in CallState /\ Clearing.fam <= issued
  BY <1>1 DEF Clearing, CallState
<1>3. app[d] \in AppState /\ app[d].fam <= issued
  BY DEF TypeOK, Known
<1>4. \A leaving \in BOOLEAN :
        Request(d, leaving) \in CallState /\ Request(d, leaving).fam <= issued
  BY <1>3, SessionsAssumption DEF Request, CallState, AppState, TypeOK
<1>5. Leave(d) \in CallState /\ Leave(d).fam <= issued
  BY <1>2, <1>4 DEF Leave
<1>6. app[d].in \in BOOLEAN /\ call[d][c].leaving \in BOOLEAN
  BY <1>3 DEF TypeOK, AppState, CallState
<1>7. Expired(d, c) \in CallState /\ Expired(d, c).fam <= issued
  <2>1. CASE app[d].in
    BY <2>1, <1>5 DEF Expired
  <2>2. CASE ~app[d].in /\ call[d][c].leaving
    BY <2>2, <1>2 DEF Expired
  <2>3. CASE ~app[d].in /\ ~call[d][c].leaving
    BY <2>3, <1>1 DEF Expired
  <2> QED
    BY <2>1, <2>2, <2>3, <1>6
<1>8. call[d][c] \in CallState /\ call[d][c].fam <= issued
  BY DEF TypeOK, Known
<1>9. ASSUME NEW a \in Ids, NEW at \in {"sent", "renewing"}
      PROVE  /\ [call[d][c] EXCEPT !.at = at, !.acc = a] \in CallState
             /\ [call[d][c] EXCEPT !.at = at, !.acc = a].fam <= issued
  BY <1>8 DEF CallState
<1> QED
  BY <1>1, <1>2, <1>4, <1>5, <1>7, <1>9

\* One request changes its state.
LEMMA CallSet ==
  ASSUME TypeOK, Known, NEW d \in Devices, NEW c \in Calls, NEW x \in CallState,
         x.fam <= issued, call' = [call EXCEPT ![d][c] = x]
  PROVE  /\ call' \in [Devices -> [Calls -> CallState]]
         /\ \A e \in Devices, k \in Calls : call'[e][k].fam <= issued
BY DEF TypeOK, Known

\* One renewal changes its state: x takes its place.
LEMMA RenewalSet ==
  ASSUME TypeOK, Flight, Known, NEW d \in Devices, NEW c \in Calls, NEW x \in RenewalState,
         x.fam <= issued,
         x.at # "none" => x.tok \in Tokens,
         x.at = "answered" => x.new \in Tokens,
         x.heard => x.at # "none",
         renewal' = [renewal EXCEPT ![d][c] = x]
  PROVE  /\ renewal' \in [Devices -> [Calls -> RenewalState]]
         /\ \A e \in Devices, k \in Calls : renewal'[e][k].fam <= issued
         /\ Flight'
BY DEF TypeOK, Known, Flight

\* No renewal is a renewal record like any other.
LEMMA NoRenewalState ==
  ASSUME TypeOK
  PROVE NoRenewal \in RenewalState /\ NoRenewal.fam <= issued /\ NoRenewal.at = "none" /\ ~NoRenewal.heard
BY SessionsAssumption DEF NoRenewal, RenewalState, TypeOK

\* A renewal moved on by the server keeps its token and family.
LEMMA RenewalAt ==
  ASSUME TypeOK, Known, NEW d \in Devices, NEW c \in Calls, renewal[d][c].at # "none",
         NEW at \in {"checked", "marked", "reused"}, Renewal(d, c, at), Flight
  PROVE  /\ renewal' \in [Devices -> [Calls -> RenewalState]]
         /\ \A e \in Devices, k \in Calls : renewal'[e][k].fam <= issued
         /\ Flight'
<1> DEFINE x == [renewal[d][c] EXCEPT !.at = at]
<1>1. renewal[d][c] \in RenewalState /\ renewal[d][c].fam <= issued
      /\ renewal[d][c].tok \in Tokens
  BY DEF TypeOK, Known, Flight
<1>2. x \in RenewalState /\ x.fam <= issued /\ x.tok \in Tokens /\ x.at \notin {"answered", "none"}
  BY <1>1 DEF RenewalState
<1>3. renewal' = [renewal EXCEPT ![d][c] = x]
  BY DEF Renewal, TypeOK
<1> HIDE DEF x
<1> QED
  BY <1>2, <1>3, RenewalSet

\* A renewal that is answered goes back to its device, or is over if nobody waits.
LEMMA Answered ==
  ASSUME TypeOK, Flight, Known, NEW d \in Devices, NEW c \in Calls,
         renewal[d][c].at # "none",
         NEW at \in {"answered", "refused", "broken"}, NEW new \in Ids,
         at = "answered" => new \in Tokens, Answer(d, c, at, new)
  PROVE  /\ renewal' \in [Devices -> [Calls -> RenewalState]]
         /\ \A e \in Devices, k \in Calls : renewal'[e][k].fam <= issued
         /\ Flight'
<1> DEFINE x == IF renewal[d][c].heard
                THEN [renewal[d][c] EXCEPT !.at = at, !.new = new] ELSE NoRenewal
<1>1. renewal[d][c] \in RenewalState /\ renewal[d][c].fam <= issued
      /\ renewal[d][c].tok \in Tokens
  BY DEF TypeOK, Known, Flight
<1>2. /\ x \in RenewalState /\ x.fam <= issued
      /\ x.at # "none" => x.tok \in Tokens
      /\ x.at = "answered" => x.new \in Tokens
      /\ x.heard => x.at # "none"
  <2>1. CASE renewal[d][c].heard
    BY <2>1, <1>1 DEF RenewalState
  <2>2. CASE ~renewal[d][c].heard
    BY <2>2, NoRenewalState
  <2> QED
    BY <2>1, <2>2
<1>3. renewal' = [renewal EXCEPT ![d][c] = x]
  BY DEF Answer, TypeOK
<1> HIDE DEF x
<1> QED
  BY <1>2, <1>3, RenewalSet

\* The same of a refusal, which carries no token.
LEMMA Refusal ==
  ASSUME TypeOK, Flight, Known, NEW d \in Devices, NEW c \in Calls,
         renewal[d][c].at # "none", NEW at \in {"refused", "broken"}, Answer(d, c, at, 0)
  PROVE  /\ renewal' \in [Devices -> [Calls -> RenewalState]]
         /\ \A e \in Devices, k \in Calls : renewal'[e][k].fam <= issued
         /\ Flight'
<1>1. 0 \in Ids
  BY SessionsAssumption
<1> QED
  BY <1>1, Answered

\* A renewal its device gives up keeps its token, or is over if it was answered.
LEMMA Dropped ==
  ASSUME TypeOK, Flight, Known, NEW d \in Devices, NEW c \in Calls
  PROVE  /\ Abandoned(renewal[d][c]) \in RenewalState
         /\ Abandoned(renewal[d][c]).fam <= issued
         /\ Abandoned(renewal[d][c]).at # "none" => Abandoned(renewal[d][c]).tok \in Tokens
         /\ Abandoned(renewal[d][c]).at # "answered" /\ ~Abandoned(renewal[d][c]).heard
<1>1. /\ renewal[d][c] \in RenewalState /\ renewal[d][c].fam <= issued
      /\ renewal[d][c].at # "none" => renewal[d][c].tok \in Tokens
  BY DEF TypeOK, Known, Flight
<1>2. CASE renewal[d][c].at \in {"answered", "refused", "broken"}
  BY <1>2, NoRenewalState DEF Abandoned
<1>3. CASE renewal[d][c].at \notin {"answered", "refused", "broken"}
  BY <1>1, <1>3 DEF Abandoned, RenewalState
<1> QED
  BY <1>2, <1>3

\* A token pair issued is the next number, in a family somebody named before.
LEMMA TokenIssued ==
  ASSUME TypeOK, Known, NEW f \in Ids, f <= issued, NEW h \in Homes \union {NoHome},
         IssueTokens(f, h)
  PROVE  /\ issued' = issued + 1 /\ issued' \in Tokens
         /\ row' \in [Tokens -> {"none", "fresh", "used"}]
         /\ family' \in [Tokens -> Ids]
         /\ claim' \in [Tokens -> Homes \union {NoHome}]
         /\ \A t \in Tokens : family'[t] <= issued'
BY SessionsAssumption DEF IssueTokens, TypeOK, Known

\* Deleting a family removes rows and records that it is revoked.
LEMMA FamilyDeleted ==
  ASSUME TypeOK, Known, NEW f \in Ids, f <= issued, DeleteFamily(f)
  PROVE  /\ row' \in [Tokens -> {"none", "fresh", "used"}]
         /\ UNCHANGED <<family, claim, issued, home, unheard>>
         /\ revoked' \subseteq Ids /\ racing' \subseteq Ids
         /\ \A g \in revoked' : g <= issued
BY DEF DeleteFamily, TypeOK, Known

(***************************************************************************)
(* Types and the bounds on names hold from one step to the next.           *)
(***************************************************************************)
LEMMA FrameStep == Frame /\ [Next]_vars => Frame'
<1> SUFFICES ASSUME TypeOK, Flight, Known, [Next]_vars PROVE Frame'
  BY DEF Frame
<1> USE DEF server, clock, client, history
<1>1. ASSUME NEW d \in Devices, NEW c \in Calls, Check(d, c) PROVE Frame'
  <2> DEFINE r == renewal[d][c]
  <2>1. r.at # "none" /\ r.tok \in Tokens /\ r.fam \in Ids
    BY <1>1 DEF Check, TypeOK, RenewalState, Flight
  <2>2. Verdict(r.tok, r.fam) \in {"refused", "reused", "checked"}
    BY <2>1 DEF Verdict, TypeOK
  <2>3. \/ Answer(d, c, "refused", 0)
       \/ \E at \in {"reused", "checked"} : Renewal(d, c, at)
    BY <1>1, <2>2 DEF Check, Refuse
  <2>4. /\ renewal' \in [Devices -> [Calls -> RenewalState]]
       /\ \A e \in Devices, k \in Calls : renewal'[e][k].fam <= issued
       /\ Flight'
    BY <2>1, <2>3, Refusal, RenewalAt
  <2>5. row' \in [Tokens -> {"none", "fresh", "used"}]
    BY <1>1 DEF Check, TypeOK
  <2> QED
    BY <1>1, <2>4, <2>5 DEF Check, Frame, TypeOK, Known
<1>2. ASSUME NEW d \in Devices, NEW c \in Calls, EndFamily(d, c) PROVE Frame'
  <2>1. renewal[d][c].at = "reused" /\ renewal[d][c].fam \in Ids /\ renewal[d][c].fam <= issued
    BY <1>2 DEF EndFamily, TypeOK, RenewalState, Known
  <2>2. Answer(d, c, "refused", 0) /\ DeleteFamily(renewal[d][c].fam)
    BY <1>2 DEF EndFamily, Refuse
  <2>3. /\ renewal' \in [Devices -> [Calls -> RenewalState]]
       /\ \A e \in Devices, k \in Calls : renewal'[e][k].fam <= issued
       /\ Flight'
    BY <2>1, <2>2, Refusal
  <2> QED
    BY <1>2, <2>1, <2>2, <2>3, FamilyDeleted DEF EndFamily, Frame, TypeOK, Known
<1>3. ASSUME NEW d \in Devices, NEW c \in Calls, Mark(d, c) PROVE Frame'
  <2>1. renewal[d][c].at = "checked"
    BY <1>3 DEF Mark
  <2>2. Answer(d, c, "refused", 0) \/ Renewal(d, c, "marked")
    BY <1>3 DEF Mark, Refuse
  <2>3. /\ renewal' \in [Devices -> [Calls -> RenewalState]]
       /\ \A e \in Devices, k \in Calls : renewal'[e][k].fam <= issued
       /\ Flight'
    BY <2>1, <2>2, Refusal, RenewalAt
  <2>4. row' \in [Tokens -> {"none", "fresh", "used"}]
    BY <1>3 DEF Mark, TypeOK
  <2> QED
    BY <1>3, <2>3, <2>4 DEF Mark, Frame, TypeOK, Known
<1>4. ASSUME NEW d \in Devices, NEW c \in Calls, Issue(d, c) PROVE Frame'
  <2>1. renewal[d][c].at = "marked" /\ renewal[d][c].fam \in Ids /\ renewal[d][c].fam <= issued
    BY <1>4 DEF Issue, TypeOK, RenewalState, Known
  <2>2. IssueTokens(renewal[d][c].fam, home) /\ home \in Homes \union {NoHome}
    BY <1>4 DEF Issue, TypeOK
  <2>3. /\ issued' = issued + 1 /\ issued' \in Tokens
       /\ row' \in [Tokens -> {"none", "fresh", "used"}]
       /\ family' \in [Tokens -> Ids]
       /\ claim' \in [Tokens -> Homes \union {NoHome}]
       /\ \A t \in Tokens : family'[t] <= issued'
    BY <2>1, <2>2, TokenIssued
  <2>4. issued + 1 \in Ids /\ issued + 1 \in Tokens
    BY <2>3
  <2>5. Answer(d, c, "answered", issued + 1)
    BY <1>4 DEF Issue
  <2>6. /\ renewal' \in [Devices -> [Calls -> RenewalState]]
       /\ \A e \in Devices, k \in Calls : renewal'[e][k].fam <= issued
       /\ Flight'
    BY <2>1, <2>4, <2>5, Answered
  <2>7. Known'
    <3>1. \A e \in Devices, k \in Calls : renewal'[e][k].fam <= issued'
      BY <2>3, <2>6 DEF TypeOK, RenewalState
    <3> QED
      BY <1>4, <2>3, <3>1 DEF Issue, Known, TypeOK, AppState, CallState
  <2>8. TypeOK'
    BY <1>4, <2>3, <2>6 DEF Issue, TypeOK
  <2> QED
    BY <2>6, <2>7, <2>8 DEF Frame
<1>5. ASSUME NEW d \in Devices, NEW c \in Calls, Break(d, c) PROVE Frame'
  <2>1. renewal[d][c].at # "none" /\ Answer(d, c, "broken", 0)
    BY <1>5 DEF Break
  <2>2. /\ renewal' \in [Devices -> [Calls -> RenewalState]]
       /\ \A e \in Devices, k \in Calls : renewal'[e][k].fam <= issued
       /\ Flight'
    BY <2>1, Refusal
  <2>3. unheard' \subseteq Tokens
    BY <1>5, <2>1 DEF Break, TypeOK, Flight
  <2> QED
    BY <1>5, <2>2, <2>3 DEF Break, Frame, TypeOK, Known
<1>6. ASSUME NEW d \in Devices, NEW c \in Calls, Serve(d, c) PROVE Frame'
  <2>1. \E x \in {Idle} :
          call' = [call EXCEPT ![d][c] = x]
    BY <1>6 DEF Serve
  <2>2. /\ call' \in [Devices -> [Calls -> CallState]]
       /\ \A e \in Devices, k \in Calls : call'[e][k].fam <= issued
    BY <2>1, CallStates, CallSet
  <2> QED
    BY <1>6, <2>2 DEF Serve, Frame, TypeOK, Known, Flight
<1>7. ASSUME NEW d \in Devices, NEW c \in Calls, ServeLogout(d, c) PROVE Frame'
  <2>1. call' = [call EXCEPT ![d][c] = Clearing]
    BY <1>7 DEF ServeLogout
  <2>2. /\ call' \in [Devices -> [Calls -> CallState]]
       /\ \A e \in Devices, k \in Calls : call'[e][k].fam <= issued
    BY <2>1, CallStates, CallSet
  <2>3. call[d][c].fam \in Ids /\ call[d][c].fam <= issued /\ DeleteFamily(call[d][c].fam)
    BY <1>7 DEF ServeLogout, TypeOK, Known, CallState
  <2>4. /\ row' \in [Tokens -> {"none", "fresh", "used"}]
       /\ UNCHANGED <<family, claim, issued, home, unheard>>
       /\ revoked' \subseteq Ids /\ racing' \subseteq Ids
       /\ \A g \in revoked' : g <= issued
    BY <2>3, FamilyDeleted
  <2>5. TypeOK' /\ Flight'
    BY <1>7, <2>2, <2>4 DEF ServeLogout, TypeOK, Flight
  <2>6. Known'
    BY <1>7, <2>2, <2>4 DEF ServeLogout, Known
  <2> QED
    BY <2>5, <2>6 DEF Frame
<1>8. ASSUME NEW d \in Devices, NEW c \in Calls, Renew(d, c) PROVE Frame'
  <2> DEFINE x == [at |-> "arrived", tok |-> app[d].ref, fam |-> app[d].fam,
                   new |-> 0, heard |-> TRUE]
  <2>1. /\ app[d].ref \in Tokens /\ app[d].fam \in Ids /\ app[d].fam <= issued
       /\ renewal' = [renewal EXCEPT ![d][c] = x]
    BY <1>8 DEF Renew, TypeOK, AppState, Known
  <2>2. x \in RenewalState /\ x.fam <= issued /\ x.tok \in Tokens /\ x.at \notin {"answered", "none"}
    BY <2>1, SessionsAssumption DEF RenewalState
  <2> HIDE DEF x
  <2>3. /\ renewal' \in [Devices -> [Calls -> RenewalState]]
       /\ \A e \in Devices, k \in Calls : renewal'[e][k].fam <= issued
       /\ Flight'
    BY <2>1, <2>2, RenewalSet
  <2>4. call' = [call EXCEPT ![d][c] = [call[d][c] EXCEPT !.at = "renewing", !.acc = 0]] /\ 0 \in Ids
    BY <1>8, SessionsAssumption DEF Renew, TypeOK
  <2>5. /\ call' \in [Devices -> [Calls -> CallState]]
       /\ \A e \in Devices, k \in Calls : call'[e][k].fam <= issued
    BY <2>4, CallStates, CallSet
  <2> QED
    BY <1>8, <2>3, <2>5 DEF Renew, Frame, TypeOK, Known
<1>9. ASSUME NEW d \in Devices, NEW c \in Calls, GiveUp(d, c) PROVE Frame'
  <2>1. \E x \in {Expired(d, c)} :
          call' = [call EXCEPT ![d][c] = x]
    BY <1>9 DEF GiveUp
  <2>2. /\ call' \in [Devices -> [Calls -> CallState]]
       /\ \A e \in Devices, k \in Calls : call'[e][k].fam <= issued
    BY <2>1, CallStates, CallSet
  <2> QED
    BY <1>9, <2>2 DEF GiveUp, Frame, TypeOK, Known, Flight
<1>10. ASSUME NEW d \in Devices, NEW c \in Calls, Renewed(d, c) PROVE Frame'
  <2> DEFINE n == renewal[d][c].new
  <2>1. n \in Tokens /\ family[n] \in Ids /\ family[n] <= issued
    BY <1>10 DEF Renewed, Flight, TypeOK, Known
  <2>2. renewal' = [renewal EXCEPT ![d][c] = NoRenewal]
    BY <1>10 DEF Renewed
  <2>3. /\ renewal' \in [Devices -> [Calls -> RenewalState]]
       /\ \A e \in Devices, k \in Calls : renewal'[e][k].fam <= issued
       /\ Flight'
    BY <2>2, NoRenewalState, RenewalSet
  <2>4. call' = [call EXCEPT ![d][c] = [call[d][c] EXCEPT !.at = "sent", !.acc = n]]
    BY <1>10 DEF Renewed, TypeOK, CallState
  <2>5. /\ call' \in [Devices -> [Calls -> CallState]]
       /\ \A e \in Devices, k \in Calls : call'[e][k].fam <= issued
    BY <2>1, <2>4, CallStates, CallSet
  <2>6. app' \in [Devices -> AppState] /\ \A e \in Devices : app'[e].fam <= issued
    <3>1. app[d] \in AppState /\ n \in Ids
      BY <2>1 DEF TypeOK
    <3>2. app' = [app EXCEPT ![d] = [app[d] EXCEPT !.acc = n, !.ref = n, !.fam = family[n]]]
      BY <1>10 DEF Renewed, TypeOK, AppState
    <3> HIDE DEF n
    <3>3. /\ [app[d] EXCEPT !.acc = n, !.ref = n, !.fam = family[n]] \in AppState
          /\ [app[d] EXCEPT !.acc = n, !.ref = n, !.fam = family[n]].fam <= issued
      BY <3>1, <2>1 DEF AppState
    <3> QED
      BY <3>2, <3>3 DEF TypeOK, Known
  <2>7. UNCHANGED <<row, family, claim, issued, home, late, old, unheard, revoked, racing>>
    BY <1>10 DEF Renewed, server, clock, history
  <2>8. TypeOK'
    BY <2>3, <2>5, <2>6, <2>7 DEF TypeOK
  <2>9. Known'
    BY <2>3, <2>5, <2>6, <2>7 DEF Known
  <2> QED
    BY <2>3, <2>8, <2>9 DEF Frame
<1>11. ASSUME NEW d \in Devices, NEW c \in Calls, NotRenewed(d, c) PROVE Frame'
  <2>1. /\ renewal' = [renewal EXCEPT ![d][c] = NoRenewal]
       /\ call' = [call EXCEPT ![d][c] = Expired(d, c)]
    BY <1>11 DEF NotRenewed
  <2>2. /\ renewal' \in [Devices -> [Calls -> RenewalState]]
       /\ \A e \in Devices, k \in Calls : renewal'[e][k].fam <= issued
       /\ Flight'
    BY <2>1, NoRenewalState, RenewalSet
  <2>3. /\ call' \in [Devices -> [Calls -> CallState]]
       /\ \A e \in Devices, k \in Calls : call'[e][k].fam <= issued
    BY <2>1, CallStates, CallSet
  <2> QED
    BY <1>11, <2>2, <2>3 DEF NotRenewed, Frame, TypeOK, Known
<1>12. ASSUME NEW d \in Devices, NEW c \in Calls, Clear(d, c) PROVE Frame'
  <2>1. call' = [call EXCEPT ![d][c] = Idle]
    BY <1>12 DEF Clear
  <2>2. /\ call' \in [Devices -> [Calls -> CallState]]
       /\ \A e \in Devices, k \in Calls : call'[e][k].fam <= issued
    BY <2>1, CallStates, CallSet
  <2>3. app' \in [Devices -> AppState] /\ \A e \in Devices : app'[e].fam <= issued
    BY <1>12, SessionsAssumption DEF Clear, TypeOK, AppState, Known, SignedOut
  <2> QED
    BY <1>12, <2>2, <2>3 DEF Clear, Frame, TypeOK, Known, Flight
<1>13. ASSUME NEW d \in Devices, NEW c \in Calls, Send(d, c) PROVE Frame'
  <2>1. \E x \in {Request(d, FALSE)} :
          call' = [call EXCEPT ![d][c] = x]
    BY <1>13 DEF Send
  <2>2. /\ call' \in [Devices -> [Calls -> CallState]]
       /\ \A e \in Devices, k \in Calls : call'[e][k].fam <= issued
    BY <2>1, CallStates, CallSet
  <2> QED
    BY <1>13, <2>2 DEF Send, Frame, TypeOK, Known, Flight
<1>14. ASSUME NEW d \in Devices, NEW c \in Calls, SignOut(d, c) PROVE Frame'
  <2>1. \E x \in {Leave(d)} :
          call' = [call EXCEPT ![d][c] = x]
    BY <1>14 DEF SignOut
  <2>2. /\ call' \in [Devices -> [Calls -> CallState]]
       /\ \A e \in Devices, k \in Calls : call'[e][k].fam <= issued
    BY <2>1, CallStates, CallSet
  <2> QED
    BY <1>14, <2>2 DEF SignOut, Frame, TypeOK, Known, Flight
<1>15. ASSUME NEW d \in Devices, NEW c \in Calls, Lose(d, c) PROVE Frame'
  <2>1. \E x \in {Clearing, Idle} :
          call' = [call EXCEPT ![d][c] = x]
    BY <1>15 DEF Lose
  <2>2. /\ call' \in [Devices -> [Calls -> CallState]]
       /\ \A e \in Devices, k \in Calls : call'[e][k].fam <= issued
    BY <2>1, CallStates, CallSet
  <2> QED
    BY <1>15, <2>2 DEF Lose, Frame, TypeOK, Known, Flight
<1>16. ASSUME NEW d \in Devices, NEW c \in Calls, TimeOut(d, c) PROVE Frame'
  <2>1. /\ renewal' = [renewal EXCEPT ![d][c] = Abandoned(renewal[d][c])]
       /\ call' = [call EXCEPT ![d][c] = Expired(d, c)]
    BY <1>16 DEF TimeOut, TypeOK
  <2>2. /\ renewal' \in [Devices -> [Calls -> RenewalState]]
       /\ \A e \in Devices, k \in Calls : renewal'[e][k].fam <= issued
       /\ Flight'
    BY <2>1, Dropped, RenewalSet
  <2>3. /\ call' \in [Devices -> [Calls -> CallState]]
       /\ \A e \in Devices, k \in Calls : call'[e][k].fam <= issued
    BY <2>1, CallStates, CallSet
  <2>4. unheard' \subseteq Tokens
    BY <1>16 DEF TimeOut, TypeOK, Flight
  <2> QED
    BY <1>16, <2>2, <2>3, <2>4 DEF TimeOut, Frame, TypeOK, Known
<1>17. ASSUME NEW d \in Devices, Login(d) PROVE Frame'
  <2>1. IssueTokens(0, home) /\ 0 \in Ids /\ 0 <= issued /\ home \in Homes \union {NoHome}
    BY <1>17, SessionsAssumption DEF Login, TypeOK
  <2>2. /\ issued' = issued + 1 /\ issued' \in Tokens
       /\ row' \in [Tokens -> {"none", "fresh", "used"}]
       /\ family' \in [Tokens -> Ids]
       /\ claim' \in [Tokens -> Homes \union {NoHome}]
       /\ \A t \in Tokens : family'[t] <= issued'
    BY <2>1, TokenIssued
  <2>3. app' \in [Devices -> AppState] /\ \A e \in Devices : app'[e].fam <= issued'
    <3>1. app \in [Devices -> AppState] /\ issued + 1 \in Ids /\ issued <= issued + 1
      BY <2>2 DEF TypeOK
    <3>2. \A e \in Devices : app[e].fam \in Nat /\ issued \in Nat /\ app[e].fam <= issued + 1
      BY <3>1 DEF TypeOK, AppState, Known
    <3>3. app' = app \/ app' = [app EXCEPT ![d] = [acc |-> issued + 1, ref |-> issued + 1,
                                       fam |-> issued + 1, in |-> TRUE]]
      BY <1>17, <3>1 DEF Login, AppState
    <3> DEFINE x == [acc |-> issued + 1, ref |-> issued + 1,
                                       fam |-> issued + 1, in |-> TRUE]
    <3>4. x \in AppState /\ x.fam <= issued + 1
      <4>1. app[d] \in AppState /\ issued + 1 \in Ids /\ issued + 1 <= issued + 1 /\ app[d].fam <= issued + 1
        BY <3>1, <3>2, <2>2
      <4> QED
        BY <4>1 DEF AppState
    <3> HIDE DEF x
    <3>5. app' = app \/ app' = [app EXCEPT ![d] = x]
      BY <3>3 DEF x
    <3> QED
      BY <2>2, <3>1, <3>2, <3>4, <3>5
  <2>4. Known'
    BY <1>17, <2>2, <2>3 DEF Login, TypeOK, CallState, RenewalState, Known
  <2>5. TypeOK'
    BY <1>17, <2>1, <2>2, <2>3 DEF Login, TypeOK
  <2> QED
    BY <1>17, <2>4, <2>5 DEF Login, Frame, Flight
<1>18. ASSUME NEW d \in Devices, Restart(d) PROVE Frame'
  <2>1. /\ renewal' \in [Devices -> [Calls -> RenewalState]]
       /\ \A e \in Devices, k \in Calls : renewal'[e][k].fam <= issued
    BY <1>18, Dropped DEF Restart, TypeOK, Known
  <2>2. Flight'
    BY <1>18, Dropped DEF Restart, TypeOK, Flight
  <2>3. /\ call' \in [Devices -> [Calls -> CallState]]
       /\ \A e \in Devices, k \in Calls : call'[e][k].fam <= issued
    BY <1>18, CallStates DEF Restart, TypeOK, Known
  <2>4. unheard' \subseteq Tokens
    <3>1. \A c \in Calls : renewal[d][c].heard => renewal[d][c].tok \in Tokens
      BY DEF Flight
    <3>2. unheard' = unheard \union
            {renewal[d][c].tok : c \in {k \in Calls : renewal[d][k].heard}}
      BY <1>18 DEF Restart
    <3> DEFINE lost == {renewal[d][c].tok : c \in {k \in Calls : renewal[d][k].heard}}
    <3>3. lost \subseteq Tokens
      BY <3>1
    <3>4. unheard \subseteq Tokens
      BY DEF TypeOK
    <3> HIDE DEF lost
    <3>5. unheard' = unheard \union lost
      BY <3>2 DEF lost
    <3> QED
      BY <3>3, <3>4, <3>5
  <2>5. UNCHANGED <<row, family, claim, issued, home, late, old, app, revoked, racing>>
    BY <1>18 DEF Restart, server, clock
  <2>6. TypeOK'
    BY <2>1, <2>3, <2>4, <2>5 DEF TypeOK
  <2>7. Known'
    BY <2>1, <2>3, <2>5 DEF Known
  <2> QED
    BY <2>2, <2>6, <2>7 DEF Frame
<1>19. ASSUME NEW d \in Devices, NEW heard \in Heard, DissolveHome(d, heard) PROVE Frame'
  <2>1. IssueTokens(0, NoHome) /\ 0 \in Ids /\ 0 <= issued /\ NoHome \in Homes \union {NoHome}
    BY <1>19, SessionsAssumption DEF DissolveHome, TypeOK
  <2>2. /\ issued' = issued + 1 /\ issued' \in Tokens
       /\ row' \in [Tokens -> {"none", "fresh", "used"}]
       /\ family' \in [Tokens -> Ids]
       /\ claim' \in [Tokens -> Homes \union {NoHome}]
       /\ \A t \in Tokens : family'[t] <= issued'
    BY <2>1, TokenIssued
  <2>3. app' \in [Devices -> AppState] /\ \A e \in Devices : app'[e].fam <= issued'
    <3>1. app \in [Devices -> AppState] /\ issued + 1 \in Ids /\ issued <= issued + 1
      BY <2>2 DEF TypeOK
    <3>2. \A e \in Devices : app[e].fam \in Nat /\ issued \in Nat /\ app[e].fam <= issued + 1
      BY <3>1 DEF TypeOK, AppState, Known
    <3>3. app' = app \/ app' = [app EXCEPT ![d] = [app[d] EXCEPT !.acc = issued + 1]]
      BY <1>19, <3>1 DEF DissolveHome, AppState
    <3> DEFINE x == [app[d] EXCEPT !.acc = issued + 1]
    <3>4. x \in AppState /\ x.fam <= issued + 1
      <4>1. app[d] \in AppState /\ issued + 1 \in Ids /\ issued + 1 <= issued + 1 /\ app[d].fam <= issued + 1
        BY <3>1, <3>2, <2>2
      <4> QED
        BY <4>1 DEF AppState
    <3> HIDE DEF x
    <3>5. app' = app \/ app' = [app EXCEPT ![d] = x]
      BY <3>3 DEF x
    <3> QED
      BY <2>2, <3>1, <3>2, <3>4, <3>5
  <2>4. Known'
    BY <1>19, <2>2, <2>3 DEF DissolveHome, TypeOK, CallState, RenewalState, Known
  <2>5. TypeOK'
    BY <1>19, <2>1, <2>2, <2>3 DEF DissolveHome, TypeOK
  <2> QED
    BY <1>19, <2>4, <2>5 DEF DissolveHome, Frame, Flight
<1>20. ASSUME NEW d \in Devices, NEW heard \in Heard, NEW h \in Homes, EnterHome(d, h, heard) PROVE Frame'
  <2>1. IssueTokens(0, h) /\ 0 \in Ids /\ 0 <= issued /\ h \in Homes \union {NoHome}
    BY <1>20, SessionsAssumption DEF EnterHome, TypeOK
  <2>2. /\ issued' = issued + 1 /\ issued' \in Tokens
       /\ row' \in [Tokens -> {"none", "fresh", "used"}]
       /\ family' \in [Tokens -> Ids]
       /\ claim' \in [Tokens -> Homes \union {NoHome}]
       /\ \A t \in Tokens : family'[t] <= issued'
    BY <2>1, TokenIssued
  <2>3. app' \in [Devices -> AppState] /\ \A e \in Devices : app'[e].fam <= issued'
    <3>1. app \in [Devices -> AppState] /\ issued + 1 \in Ids /\ issued <= issued + 1
      BY <2>2 DEF TypeOK
    <3>2. \A e \in Devices : app[e].fam \in Nat /\ issued \in Nat /\ app[e].fam <= issued + 1
      BY <3>1 DEF TypeOK, AppState, Known
    <3>3. app' = app \/ app' = [app EXCEPT ![d] = [app[d] EXCEPT !.acc = issued + 1, !.fam = issued + 1]]
      BY <1>20, <3>1 DEF EnterHome, AppState
    <3> DEFINE x == [app[d] EXCEPT !.acc = issued + 1, !.fam = issued + 1]
    <3>4. x \in AppState /\ x.fam <= issued + 1
      <4>1. app[d] \in AppState /\ issued + 1 \in Ids /\ issued + 1 <= issued + 1 /\ app[d].fam <= issued + 1
        BY <3>1, <3>2, <2>2
      <4> QED
        BY <4>1 DEF AppState
    <3> HIDE DEF x
    <3>5. app' = app \/ app' = [app EXCEPT ![d] = x]
      BY <3>3 DEF x
    <3> QED
      BY <2>2, <3>1, <3>2, <3>4, <3>5
  <2>4. Known'
    BY <1>20, <2>2, <2>3 DEF EnterHome, TypeOK, CallState, RenewalState, Known
  <2>5. TypeOK'
    BY <1>20, <2>1, <2>2, <2>3 DEF EnterHome, TypeOK
  <2> QED
    BY <1>20, <2>4, <2>5 DEF EnterHome, Frame, Flight
<1>21. ASSUME RemovedFromHome PROVE Frame'
  BY <1>21 DEF RemovedFromHome, Frame, TypeOK, Flight, Known
<1>22. ASSUME CleanUp PROVE Frame'
  BY <1>22 DEF CleanUp, Frame, TypeOK, Flight, Known
<1>23. ASSUME NEW t \in Tokens, ExpireAccess(t) PROVE Frame'
  BY <1>23 DEF ExpireAccess, Frame, TypeOK, Flight, Known
<1>24. ASSUME NEW t \in Tokens, ExpireRefresh(t) PROVE Frame'
  BY <1>24 DEF ExpireRefresh, Frame, TypeOK, Flight, Known
<1>25. CASE UNCHANGED vars
  BY <1>25 DEF vars, Frame, TypeOK, Flight, Known
<1> QED
  BY <1>1, <1>2, <1>3, <1>4, <1>5, <1>6, <1>7, <1>8, <1>9, <1>10, <1>11, <1>12, <1>13, <1>14, <1>15, <1>16, <1>17, <1>18, <1>19, <1>20, <1>21, <1>22, <1>23, <1>24, <1>25 DEF Next, ServerStep, ClientStep

(***************************************************************************)
(* Whatever a step does, a renewal past its check was past it before: only *)
(* Check lets one go on, and it sees a row that can be renewed.            *)
(***************************************************************************)
Kept ==
  \A e \in Devices, k \in Calls :
    renewal'[e][k].at \in {"checked", "marked"} =>
      /\ renewal[e][k].at \in {"checked", "marked"}
      /\ renewal'[e][k].fam = renewal[e][k].fam

NoNewFresh ==
  \A t \in Tokens : row'[t] = "fresh" => row[t] = "fresh" /\ family'[t] = family[t]

\* A renewal replaced by one not past its check leaves no new one past it.
LEMMA Replaced ==
  ASSUME TypeOK, NEW d \in Devices, NEW c \in Calls, NEW x,
         x.at \notin {"checked", "marked"}, renewal' = [renewal EXCEPT ![d][c] = x]
  PROVE  Kept
BY DEF Kept, TypeOK

\* Nor does the answer to one.
LEMMA AnswerKeeps ==
  ASSUME TypeOK, NEW d \in Devices, NEW c \in Calls, NEW new,
         NEW at \in {"answered", "refused", "broken"}, Answer(d, c, at, new)
  PROVE  Kept
<1> DEFINE x == IF renewal[d][c].heard
                THEN [renewal[d][c] EXCEPT !.at = at, !.new = new] ELSE NoRenewal
<1>1. x.at \notin {"checked", "marked"}
  <2>1. renewal[d][c] \in RenewalState
    BY DEF TypeOK
  <2> QED
    BY <2>1 DEF NoRenewal, RenewalState
<1>2. renewal' = [renewal EXCEPT ![d][c] = x]
  BY DEF Answer, TypeOK
<1> HIDE DEF x
<1> QED
  BY <1>1, <1>2, Replaced

\* Revoking a family while a renewal of it is past its check makes it racing.
LEMMA FamilyRevoked ==
  ASSUME TypeOK, Races, RevokedFamilyStaysRevoked, Kept, NEW f \in Ids, DeleteFamily(f)
  PROVE  Races' /\ RevokedFamilyStaysRevoked'
<1>1. racing \subseteq racing' /\ revoked' = revoked \union {f}
  BY DEF DeleteFamily
<1>2. ASSUME NEW e \in Devices, NEW k \in Calls,
             renewal'[e][k].at \in {"checked", "marked"}, renewal'[e][k].fam \in revoked'
      PROVE  renewal'[e][k].fam \in racing'
  <2>1. /\ renewal[e][k].at \in {"checked", "marked"}
        /\ renewal'[e][k].fam = renewal[e][k].fam
    BY <1>2 DEF Kept
  <2>2. CASE renewal[e][k].fam = f
    BY <2>1, <2>2 DEF DeleteFamily
  <2>3. CASE renewal[e][k].fam # f
    BY <1>1, <1>2, <2>1, <2>3 DEF Races
  <2> QED
    BY <2>2, <2>3
<1>3. ASSUME NEW t \in Tokens, row'[t] = "fresh", family'[t] \in revoked'
      PROVE  family'[t] \in racing'
  <2>1. family[t] # f /\ row[t] = "fresh" /\ family'[t] = family[t]
    BY <1>3 DEF DeleteFamily
  <2> QED
    BY <1>1, <1>3, <2>1 DEF RevokedFamilyStaysRevoked
<1> QED
  BY <1>2, <1>3 DEF Races, RevokedFamilyStaysRevoked

\* A step that makes no row usable and revokes nothing keeps both.
LEMMA Quiet ==
  ASSUME Races, RevokedFamilyStaysRevoked, Kept, NoNewFresh, UNCHANGED <<revoked, racing>>
  PROVE  Races' /\ RevokedFamilyStaysRevoked'
<1>1. Races'
  BY DEF Races, Kept
<1>2. RevokedFamilyStaysRevoked'
  BY DEF RevokedFamilyStaysRevoked, NoNewFresh
<1> QED
  BY <1>1, <1>2

\* A new token in a family of its own, or in that of a renewal past its check.
LEMMA NewToken ==
  ASSUME TypeOK, Known, Races, RevokedFamilyStaysRevoked, Kept,
         UNCHANGED <<revoked, racing>>,
         NEW f \in Ids, NEW h, IssueTokens(f, h),
         f # 0 /\ f \in revoked => f \in racing
  PROVE  Races' /\ RevokedFamilyStaysRevoked'
<1>1. Races'
  BY DEF Races, Kept
<1>2. ASSUME NEW t \in Tokens, row'[t] = "fresh", family'[t] \in revoked
      PROVE  family'[t] \in racing
  <2>1. CASE t = issued + 1
    <3>1. family'[t] = IF f = 0 THEN t ELSE f
      BY <2>1 DEF IssueTokens, TypeOK
    <3>2. t \notin revoked
      <4>1. issued \in Nat /\ ~(issued + 1 <= issued)
        BY SessionsAssumption DEF TypeOK
      <4> QED
        BY <2>1, <4>1 DEF Known
    <3> QED
      BY <1>2, <3>1, <3>2
  <2>2. CASE t # issued + 1
    <3>1. row[t] = "fresh" /\ family'[t] = family[t]
      BY <1>2, <2>2 DEF IssueTokens, TypeOK
    <3> QED
      BY <1>2, <3>1 DEF RevokedFamilyStaysRevoked
  <2> QED
    BY <2>1, <2>2
<1> QED
  BY <1>1, <1>2 DEF RevokedFamilyStaysRevoked

\* Only Issue makes a row of an old family usable, past a check made before.
LEMMA RaceStep == IInv /\ [Next]_vars => Races' /\ RevokedFamilyStaysRevoked'
<1> SUFFICES ASSUME TypeOK, Flight, Known, Races, RevokedFamilyStaysRevoked, [Next]_vars
             PROVE  Races' /\ RevokedFamilyStaysRevoked'
  BY DEF IInv, Frame
<1> USE DEF server, clock, client, history
<1>1. ASSUME NEW d \in Devices, NEW c \in Calls, Check(d, c)
      PROVE  Races' /\ RevokedFamilyStaysRevoked'
  <2> DEFINE r == renewal[d][c]
  <2>1. r.tok \in Tokens /\ r.fam \in Ids
    BY <1>1 DEF Check, TypeOK, RenewalState, Flight
  <2>2. NoNewFresh
    BY <1>1 DEF Check, TypeOK, NoNewFresh
  <2>3. CASE Verdict(r.tok, r.fam) = "refused"
    <3>1. Kept
      BY <1>1, <2>3, AnswerKeeps DEF Check, Refuse
    <3> QED
      BY <1>1, <2>2, <3>1, Quiet DEF Check
  <2>4. CASE Verdict(r.tok, r.fam) # "refused"
    <3>1. renewal' = [renewal EXCEPT ![d][c].at = Verdict(r.tok, r.fam)]
      BY <1>1, <2>4 DEF Check, Renewal
    <3>2. Verdict(r.tok, r.fam) \in {"reused", "checked"}
      BY <2>1, <2>4 DEF Verdict, TypeOK
    <3>3. \A e \in Devices, k \in Calls :
            /\ renewal'[e][k].fam = renewal[e][k].fam
            /\ renewal'[e][k].at # renewal[e][k].at => e = d /\ k = c
            /\ e = d /\ k = c => renewal'[e][k].at = Verdict(r.tok, r.fam)
      BY <3>1 DEF TypeOK, RenewalState
    <3>4. Verdict(r.tok, r.fam) = "checked" => row[r.tok] = "fresh" /\ family[r.tok] = r.fam
      BY <2>1 DEF Verdict, TypeOK
    <3>5. Verdict(r.tok, r.fam) = "checked" /\ r.fam \in revoked => r.fam \in racing
      BY <2>1, <3>4 DEF RevokedFamilyStaysRevoked
    <3>6. Races'
      BY <1>1, <3>2, <3>3, <3>5 DEF Check, Races
    <3>7. RevokedFamilyStaysRevoked'
      BY <1>1, <2>2 DEF Check, RevokedFamilyStaysRevoked, NoNewFresh
    <3> QED
      BY <3>6, <3>7
  <2> QED
    BY <2>3, <2>4
<1>2. ASSUME NEW d \in Devices, NEW c \in Calls, EndFamily(d, c)
      PROVE  Races' /\ RevokedFamilyStaysRevoked'
  <2>1. Kept
    BY <1>2, AnswerKeeps DEF EndFamily, Refuse
  <2>2. renewal[d][c].fam \in Ids
    BY DEF TypeOK, RenewalState
  <2> QED
    BY <1>2, <2>1, <2>2, FamilyRevoked DEF EndFamily
<1>3. ASSUME NEW d \in Devices, NEW c \in Calls, Mark(d, c)
      PROVE  Races' /\ RevokedFamilyStaysRevoked'
  <2>1. NoNewFresh
    BY <1>3 DEF Mark, TypeOK, NoNewFresh
  <2>2. Kept
    <3>1. CASE Refuse(d, c)
      BY <3>1, AnswerKeeps DEF Refuse
    <3>2. CASE Renewal(d, c, "marked")
      BY <1>3, <3>2 DEF Mark, Renewal, Kept, TypeOK, RenewalState
    <3> QED
      BY <1>3, <3>1, <3>2 DEF Mark
  <2> QED
    BY <1>3, <2>1, <2>2, Quiet DEF Mark
<1>4. ASSUME NEW d \in Devices, NEW c \in Calls, Issue(d, c)
      PROVE  Races' /\ RevokedFamilyStaysRevoked'
  <2>1. Kept
    BY <1>4, AnswerKeeps DEF Issue
  <2>2. /\ renewal[d][c].fam \in Ids
        /\ renewal[d][c].fam \in revoked => renewal[d][c].fam \in racing
    BY <1>4 DEF Issue, TypeOK, RenewalState, Races
  <2> QED
    BY <1>4, <2>1, <2>2, NewToken DEF Issue
<1>5. ASSUME NEW d \in Devices, NEW c \in Calls, Break(d, c)
      PROVE  Races' /\ RevokedFamilyStaysRevoked'
  <2>1. Kept
    BY <1>5, AnswerKeeps DEF Break
  <2> QED
    BY <1>5, <2>1, Quiet DEF Break, NoNewFresh
<1>6. ASSUME NEW d \in Devices, NEW c \in Calls, ServeLogout(d, c)
      PROVE  Races' /\ RevokedFamilyStaysRevoked'
  <2>1. Kept
    BY <1>6 DEF ServeLogout, Kept
  <2>2. call[d][c].fam \in Ids
    BY DEF TypeOK, CallState
  <2> QED
    BY <1>6, <2>1, <2>2, FamilyRevoked DEF ServeLogout
<1>7. ASSUME NEW d \in Devices, NEW c \in Calls, Renew(d, c)
      PROVE  Races' /\ RevokedFamilyStaysRevoked'
  <2> DEFINE x == [at |-> "arrived", tok |-> app[d].ref, fam |-> app[d].fam,
                   new |-> 0, heard |-> TRUE]
  <2>1. renewal' = [renewal EXCEPT ![d][c] = x] /\ x.at \notin {"checked", "marked"}
    BY <1>7 DEF Renew
  <2> HIDE DEF x
  <2>2. Kept
    BY <2>1, Replaced
  <2> QED
    BY <1>7, <2>2, Quiet DEF Renew, NoNewFresh
<1>8. ASSUME NEW d \in Devices, NEW c \in Calls, Renewed(d, c)
      PROVE  Races' /\ RevokedFamilyStaysRevoked'
  <2>1. renewal' = [renewal EXCEPT ![d][c] = NoRenewal]
    BY <1>8 DEF Renewed
  <2>2. NoRenewal.at \notin {"checked", "marked"}
    BY DEF NoRenewal
  <2>3. Kept
    BY <2>1, <2>2, Replaced
  <2> QED
    BY <1>8, <2>3, Quiet DEF Renewed, NoNewFresh
<1>9. ASSUME NEW d \in Devices, NEW c \in Calls, NotRenewed(d, c)
      PROVE  Races' /\ RevokedFamilyStaysRevoked'
  <2>1. renewal' = [renewal EXCEPT ![d][c] = NoRenewal]
    BY <1>9 DEF NotRenewed
  <2>2. NoRenewal.at \notin {"checked", "marked"}
    BY DEF NoRenewal
  <2>3. Kept
    BY <2>1, <2>2, Replaced
  <2> QED
    BY <1>9, <2>3, Quiet DEF NotRenewed, NoNewFresh
<1>10. ASSUME NEW d \in Devices, NEW c \in Calls, TimeOut(d, c)
      PROVE  Races' /\ RevokedFamilyStaysRevoked'
  <2>1. \A e \in Devices, k \in Calls :
          /\ Abandoned(renewal[e][k]).at \in {"checked", "marked"} =>
               renewal[e][k].at \in {"checked", "marked"}
          /\ Abandoned(renewal[e][k]).at \in {"checked", "marked"} =>
               Abandoned(renewal[e][k]).fam = renewal[e][k].fam
    BY DEF Abandoned, NoRenewal, TypeOK, RenewalState
  <2>2. Kept
    BY <1>10, <2>1 DEF TimeOut, Kept, TypeOK
  <2> QED
    BY <1>10, <2>2, Quiet DEF TimeOut, NoNewFresh
<1>11. ASSUME NEW d \in Devices, Restart(d)
      PROVE  Races' /\ RevokedFamilyStaysRevoked'
  <2>1. \A e \in Devices, k \in Calls :
          /\ Abandoned(renewal[e][k]).at \in {"checked", "marked"} =>
               renewal[e][k].at \in {"checked", "marked"}
          /\ Abandoned(renewal[e][k]).at \in {"checked", "marked"} =>
               Abandoned(renewal[e][k]).fam = renewal[e][k].fam
    BY DEF Abandoned, NoRenewal, TypeOK, RenewalState
  <2>2. Kept
    BY <1>11, <2>1 DEF Restart, Kept, TypeOK
  <2> QED
    BY <1>11, <2>2, Quiet DEF Restart, NoNewFresh
<1>12. ASSUME NEW d \in Devices, NEW c \in Calls, Serve(d, c)
      PROVE  Races' /\ RevokedFamilyStaysRevoked'
  BY <1>12, Quiet DEF Serve, Kept, NoNewFresh
<1>13. ASSUME NEW d \in Devices, NEW c \in Calls, GiveUp(d, c)
      PROVE  Races' /\ RevokedFamilyStaysRevoked'
  BY <1>13, Quiet DEF GiveUp, Kept, NoNewFresh
<1>14. ASSUME NEW d \in Devices, NEW c \in Calls, Send(d, c)
      PROVE  Races' /\ RevokedFamilyStaysRevoked'
  BY <1>14, Quiet DEF Send, Kept, NoNewFresh
<1>15. ASSUME NEW d \in Devices, NEW c \in Calls, SignOut(d, c)
      PROVE  Races' /\ RevokedFamilyStaysRevoked'
  BY <1>15, Quiet DEF SignOut, Kept, NoNewFresh
<1>16. ASSUME NEW d \in Devices, NEW c \in Calls, Lose(d, c)
      PROVE  Races' /\ RevokedFamilyStaysRevoked'
  BY <1>16, Quiet DEF Lose, Kept, NoNewFresh
<1>17. ASSUME NEW d \in Devices, NEW c \in Calls, Clear(d, c)
      PROVE  Races' /\ RevokedFamilyStaysRevoked'
  BY <1>17, Quiet DEF Clear, Kept, NoNewFresh
<1>18. ASSUME NEW d \in Devices, Login(d)
      PROVE  Races' /\ RevokedFamilyStaysRevoked'
  <2>1. IssueTokens(0, home) /\ Kept /\ UNCHANGED <<revoked, racing>> /\ 0 \in Ids
    BY <1>18, SessionsAssumption DEF Login, Kept
  <2> QED
    BY <2>1, NewToken
<1>19. ASSUME NEW d \in Devices, NEW heard \in Heard, DissolveHome(d, heard)
      PROVE  Races' /\ RevokedFamilyStaysRevoked'
  <2>1. IssueTokens(0, NoHome) /\ Kept /\ UNCHANGED <<revoked, racing>> /\ 0 \in Ids
    BY <1>19, SessionsAssumption DEF DissolveHome, Kept
  <2> QED
    BY <2>1, NewToken
<1>20. ASSUME NEW d \in Devices, NEW heard \in Heard, NEW h \in Homes,
             EnterHome(d, h, heard)
      PROVE  Races' /\ RevokedFamilyStaysRevoked'
  <2>1. IssueTokens(0, h) /\ Kept /\ UNCHANGED <<revoked, racing>> /\ 0 \in Ids
    BY <1>20, SessionsAssumption DEF EnterHome, Kept
  <2> QED
    BY <2>1, NewToken
<1>21. ASSUME RemovedFromHome
      PROVE  Races' /\ RevokedFamilyStaysRevoked'
  BY <1>21, Quiet DEF RemovedFromHome, Kept, NoNewFresh, TypeOK
<1>22. ASSUME CleanUp
      PROVE  Races' /\ RevokedFamilyStaysRevoked'
  BY <1>22, Quiet DEF CleanUp, Kept, NoNewFresh, TypeOK
<1>23. ASSUME NEW t \in Tokens, ExpireAccess(t)
      PROVE  Races' /\ RevokedFamilyStaysRevoked'
  BY <1>23, Quiet DEF ExpireAccess, Kept, NoNewFresh, TypeOK
<1>24. ASSUME NEW t \in Tokens, ExpireRefresh(t)
      PROVE  Races' /\ RevokedFamilyStaysRevoked'
  BY <1>24, Quiet DEF ExpireRefresh, Kept, NoNewFresh, TypeOK
<1>25. CASE UNCHANGED vars
  BY <1>25, Quiet DEF vars, Kept, NoNewFresh
<1> QED
  BY <1>1, <1>2, <1>3, <1>4, <1>5, <1>6, <1>7, <1>8, <1>9, <1>10, <1>11, <1>12, <1>13, <1>14, <1>15, <1>16, <1>17, <1>18, <1>19, <1>20, <1>21, <1>22, <1>23, <1>24, <1>25 DEF Next, ServerStep, ClientStep

\* The invariant holds of every behaviour.
LEMMA Inductive == Spec => []IInv
<1>1. IInv /\ [Next]_vars => IInv'
  BY FrameStep, RaceStep DEF IInv
<1> QED
  BY <1>1, Start, PTL DEF Spec

(***************************************************************************)
(* Every variable keeps its type: sessions never outgrow the token table,  *)
(* and no request is left in a state its handler does not know.            *)
(***************************************************************************)
THEOREM SessionTypes == Spec => []TypeOK
<1>1. IInv => TypeOK
  BY DEF IInv, Frame
<1> QED
  BY <1>1, Inductive, PTL

(***************************************************************************)
(* After a logout or a detected reuse the family cannot be renewed, unless *)
(* a renewal had passed its check before: logout (auth.service.ts:250-262) *)
(* against the steps of refresh (auth.service.ts:223-243).                 *)
(***************************************************************************)
THEOREM RevokedForGood == Spec => []RevokedFamilyStaysRevoked
<1>1. IInv => RevokedFamilyStaysRevoked
  BY DEF IInv
<1> QED
  BY <1>1, Inductive, PTL

-----------------------------------------------------------------------------
(***************************************************************************)
(* Whose tokens are whose: the strengthening under which the token a device*)
(* stores stays good, and only a lost answer looks like reuse.             *)
(***************************************************************************)
\* The refresh tokens a device stores, is renewing or has been sent.
Holds(d) ==
  {app[d].ref} \union {renewal[d][c].tok : c \in Calls} \union {renewal[d][c].new : c \in Calls}

\* No device comes by another's token.
Owned ==
  /\ \A d \in Devices : \A t \in Holds(d) : t <= issued
  /\ \A d, e \in Devices : d # e => Holds(d) \intersect Holds(e) \subseteq {0}

\* A device waits for one renewal at a time, and one it does not wait for is
\* counted as unheard.
Waiting ==
  /\ \A d \in Devices : \A c, k \in Calls : renewal[d][c].heard /\ renewal[d][k].heard => c = k
  /\ \A d \in Devices, c \in Calls :
       renewal[d][c].at # "none" /\ ~renewal[d][c].heard => renewal[d][c].tok \in unheard

\* Only a renewal marks a token as used: for a renewal that has not marked its
\* own, that was one whose answer the device did not hear.
Unspent(t) == row[t] = "used" => t \in unheard

InFlight ==
  \A d \in Devices, c \in Calls :
    /\ renewal[d][c].at \in {"arrived", "checked", "refused", "broken"} => Unspent(renewal[d][c].tok)
    /\ renewal[d][c].at = "reused" => renewal[d][c].tok \in unheard

\* The token in an answer is new to everybody.
Delivered ==
  \A d \in Devices, c \in Calls : renewal[d][c].at = "answered" =>
    /\ renewal[d][c].heard /\ row[renewal[d][c].new] # "used"
    /\ renewal[d][c].new # app[d].ref
    /\ \A k \in Calls : renewal[d][k].tok # renewal[d][c].new

\* A stored token that is used is being renewed, and its answer awaited.
Stored ==
  \A d \in Devices : app[d].ref # 0 =>
    \/ Unspent(app[d].ref)
    \/ \E c \in Calls : /\ renewal[d][c].heard /\ renewal[d][c].tok = app[d].ref
                        /\ renewal[d][c].at \in {"marked", "answered"}

\* Rows go when they are old or their family is revoked.
Gone ==
  \A t \in Tokens : t <= issued /\ row[t] = "none" => t \in old \/ family[t] \in revoked

Custody == Owned /\ Waiting /\ InFlight /\ Delivered /\ Stored /\ Gone

\* At first nobody holds a token.
LEMMA CustodyStart == Init => Custody
BY SessionsAssumption DEF Init, Custody, Owned, Waiting, InFlight, Delivered, Stored, Gone,
  Holds, SignedOut, NoRenewal

(***************************************************************************)
(* A step that issues and marks nothing: rows only go, renewals only end   *)
(* or go on to be refused, and no device comes by a token.                 *)
(***************************************************************************)
RowsOnlyGo ==
  \A t \in Tokens : row'[t] # row[t] => row'[t] = "none" /\ (t \in old' \/ family[t] \in revoked')

Ends(d, c) ==
  /\ renewal'[d][c] = NoRenewal
  /\ renewal[d][c].heard /\ renewal[d][c].at \in {"marked", "answered"}
       => renewal[d][c].tok \in unheard' \/ app'[d].ref # renewal[d][c].tok

GoesOn(d, c) ==
  LET r == renewal[d][c]
      n == renewal'[d][c] IN
  /\ n.tok = r.tok /\ n.new \in {0, r.new} /\ (n.heard => r.heard)
  /\ n.at # "none" => r.at # "none"
  /\ r.heard /\ ~n.heard => r.tok \in unheard'
  /\ \/ n.at = r.at
     \/ n.at \in {"checked", "refused", "broken"} /\ r.at \in {"arrived", "checked"}
     \/ n.at = "reused" /\ r.at = "arrived" /\ row[r.tok] = "used"
     \/ n.at \in {"refused", "broken"} /\ r.tok \in unheard'
  /\ n.at = "answered" => n = r

Calm ==
  /\ UNCHANGED <<issued, family>>
  /\ old \subseteq old' /\ revoked \subseteq revoked' /\ unheard \subseteq unheard'
  /\ RowsOnlyGo
  /\ \A d \in Devices : app'[d].ref \in {app[d].ref, 0}
  /\ \A d \in Devices, c \in Calls : Ends(d, c) \/ GoesOn(d, c)

\* Such a step keeps every part.
LEMMA CalmKeeps ==
  ASSUME TypeOK, TypeOK', Flight, Custody, Calm
  PROVE  Custody'
<1> USE DEF Calm
<1>1. \A d \in Devices, c \in Calls :
        /\ renewal[d][c] \in RenewalState /\ renewal'[d][c] \in RenewalState
        /\ renewal'[d][c] = NoRenewal \/ GoesOn(d, c)
        /\ renewal'[d][c].heard => renewal[d][c].heard
        /\ renewal'[d][c].tok \in {0, renewal[d][c].tok}
        /\ renewal'[d][c].new \in {0, renewal[d][c].new}
  BY DEF TypeOK, Ends, GoesOn, NoRenewal
<1>2. \A t \in Tokens : Unspent(t) => Unspent(t)'
  BY DEF RowsOnlyGo, Unspent
<1>3. Owned'
  <2>1. \A d \in Devices : Holds(d)' \subseteq Holds(d) \union {0}
    BY <1>1 DEF Holds
  <2>2. issued \in Nat /\ 0 <= issued
    BY SessionsAssumption DEF TypeOK
  <2> QED BY <2>1, <2>2 DEF Custody, Owned
<1>4. Waiting'
  <2>1. ASSUME NEW d \in Devices, NEW c \in Calls,
               renewal'[d][c].at # "none", ~renewal'[d][c].heard
        PROVE  renewal'[d][c].tok \in unheard'
    <3>1. GoesOn(d, c)
      BY <1>1, <2>1 DEF NoRenewal
    <3> QED BY <2>1, <3>1 DEF GoesOn, Custody, Waiting
  <2> QED BY <1>1, <2>1 DEF Custody, Waiting
<1>5. InFlight'
  <2>1. ASSUME NEW d \in Devices, NEW c \in Calls,
               renewal'[d][c].at \in {"arrived", "checked", "refused", "broken", "reused"}
        PROVE  /\ renewal'[d][c].at # "reused" => Unspent(renewal[d][c].tok)'
               /\ renewal'[d][c].at = "reused" => renewal'[d][c].tok \in unheard'
    <3>1. GoesOn(d, c)
      BY <1>1, <2>1 DEF NoRenewal
    <3>2. renewal[d][c].tok \in Tokens /\ renewal'[d][c].tok = renewal[d][c].tok
      BY <2>1, <3>1 DEF GoesOn, Flight
    <3>3. CASE renewal[d][c].tok \in unheard'
      BY <3>2, <3>3 DEF Unspent
    <3>4. CASE renewal[d][c].tok \notin unheard'
      <4>1. /\ renewal[d][c].at \in {"arrived", "checked", "refused", "broken"}
            /\ renewal'[d][c].at # "reused"
        BY <2>1, <3>1, <3>4 DEF GoesOn, Custody, InFlight, Unspent
      <4>2. Unspent(renewal[d][c].tok)
        BY <4>1 DEF Custody, InFlight
      <4>3. row'[renewal[d][c].tok] = "used" => renewal[d][c].tok \in unheard'
        BY <1>2, <3>2, <4>2 DEF Unspent
      <4> QED BY <3>2, <4>1, <4>3 DEF Unspent
    <3> QED BY <3>3, <3>4
  <2> QED BY <2>1 DEF InFlight
<1>6. Delivered'
  <2>1. ASSUME NEW d \in Devices, NEW c \in Calls, renewal'[d][c].at = "answered"
        PROVE  /\ renewal'[d][c].heard /\ row'[renewal'[d][c].new] # "used"
               /\ renewal'[d][c].new # app'[d].ref
               /\ \A k \in Calls : renewal'[d][k].tok # renewal'[d][c].new
    <3>1. renewal'[d][c] = renewal[d][c]
      BY <1>1, <2>1 DEF NoRenewal, GoesOn
    <3>2. renewal[d][c].new \in Tokens /\ renewal[d][c].new # 0
      BY <2>1, <3>1 DEF Flight
    <3> QED BY <1>1, <2>1, <3>1, <3>2 DEF Custody, Delivered, RowsOnlyGo
  <2> QED BY <2>1 DEF Delivered
<1>7. Stored'
  <2>1. ASSUME NEW d \in Devices, app'[d].ref # 0, ~Unspent(app[d].ref)'
        PROVE  \E c \in Calls : /\ renewal'[d][c].heard /\ renewal'[d][c].tok = app'[d].ref
                                /\ renewal'[d][c].at \in {"marked", "answered"}
    <3>1. app'[d].ref = app[d].ref /\ app[d].ref \in Tokens
      BY <2>1 DEF TypeOK, AppState
    <3>2. ~Unspent(app[d].ref) /\ app[d].ref \notin unheard'
      BY <1>2, <2>1, <3>1 DEF Unspent
    <3>3. PICK c \in Calls : /\ renewal[d][c].heard /\ renewal[d][c].tok = app[d].ref
                             /\ renewal[d][c].at \in {"marked", "answered"}
      BY <3>1, <3>2 DEF Custody, Stored
    <3>4. GoesOn(d, c)
      BY <3>1, <3>2, <3>3 DEF Ends
    <3> QED BY <3>1, <3>2, <3>3, <3>4 DEF GoesOn
  <2> QED BY <2>1 DEF Stored
<1>8. Gone'
  BY DEF Custody, Gone, RowsOnlyGo
<1> QED BY <1>3, <1>4, <1>5, <1>6, <1>7, <1>8 DEF Custody

\* What one renewal does, the others standing still.
LEMMA OthersGoOn ==
  ASSUME TypeOK, NEW d \in Devices, NEW c \in Calls, NEW x,
         renewal' = [renewal EXCEPT ![d][c] = x], Ends(d, c) \/ GoesOn(d, c)
  PROVE  \A e \in Devices, k \in Calls : Ends(e, k) \/ GoesOn(e, k)
<1>1. \A e \in Devices, k \in Calls :
        ~(e = d /\ k = c) => renewal'[e][k] = renewal[e][k]
  BY DEF TypeOK
<1>2. \A e \in Devices, k \in Calls : renewal'[e][k] = renewal[e][k] => GoesOn(e, k)
  BY DEF GoesOn
<1> QED BY <1>1, <1>2

\* No renewal moves.
LEMMA AllStay ==
  ASSUME UNCHANGED renewal
  PROVE  \A e \in Devices, k \in Calls : Ends(e, k) \/ GoesOn(e, k)
BY DEF GoesOn

\* A refused renewal ends if nobody waits for it.
LEMMA RefusalGoesOn ==
  ASSUME TypeOK, NEW d \in Devices, NEW c \in Calls,
         NEW at \in {"refused", "broken"}, Answer(d, c, at, 0),
         \/ renewal[d][c].at \in {"arrived", "checked"}
         \/ renewal[d][c].at # "none" /\ renewal[d][c].tok \in unheard'
  PROVE  \A e \in Devices, k \in Calls : Ends(e, k) \/ GoesOn(e, k)
<1> DEFINE r == renewal[d][c]
           x == IF r.heard THEN [r EXCEPT !.at = at, !.new = 0] ELSE NoRenewal
<1>1. renewal' = [renewal EXCEPT ![d][c] = x]
  BY DEF Answer, TypeOK
<1>2. renewal'[d][c] = x /\ r \in RenewalState
  BY <1>1 DEF TypeOK
<1>3. CASE r.heard
  <2>1. /\ x.tok = r.tok /\ x.new = 0 /\ x.heard = r.heard /\ x.at = at
    BY <1>2, <1>3 DEF RenewalState
  <2>2. GoesOn(d, c)
    BY <1>2, <1>3, <2>1 DEF GoesOn
  <2> QED BY <1>1, <2>2, OthersGoOn
<1>4. CASE ~r.heard
  <2>1. Ends(d, c)
    BY <1>2, <1>4 DEF Ends
  <2> QED BY <1>1, <2>1, OthersGoOn
<1> QED BY <1>3, <1>4

\* A renewal the device does not wait for any longer is counted.
LEMMA AbandonedGoesOn ==
  ASSUME TypeOK, NEW d \in Devices, NEW c \in Calls,
         renewal'[d][c] = Abandoned(renewal[d][c]),
         renewal[d][c].heard => renewal[d][c].tok \in unheard'
  PROVE  Ends(d, c) \/ GoesOn(d, c)
<1>1. renewal[d][c] \in RenewalState
  BY DEF TypeOK
<1>2. CASE renewal[d][c].at \in {"answered", "refused", "broken"}
  BY <1>2 DEF Abandoned, Ends
<1>3. CASE renewal[d][c].at \notin {"answered", "refused", "broken"}
  BY <1>1, <1>3 DEF Abandoned, GoesOn, RenewalState
<1> QED BY <1>2, <1>3

\* Deleting a family only takes rows away.
LEMMA DeletedRowsGo ==
  ASSUME TypeOK, NEW f, DeleteFamily(f)
  PROVE  RowsOnlyGo /\ revoked \subseteq revoked' /\ UNCHANGED <<issued, family, unheard>>
<1>1. /\ row' = [t \in Tokens |-> IF family[t] = f THEN "none" ELSE row[t]]
      /\ revoked' = revoked \union {f}
      /\ UNCHANGED <<issued, family, unheard>>
  BY DEF DeleteFamily
<1> QED BY <1>1 DEF RowsOnlyGo

(***************************************************************************)
(* A renewal marks its token: whoever else presents that token has seen an *)
(* answer go missing.                                                      *)
(***************************************************************************)
LEMMA MarkKeeps ==
  ASSUME TypeOK, TypeOK', Flight, Custody, NEW d \in Devices, NEW c \in Calls, Mark(d, c),
         row[renewal[d][c].tok] # "none"
  PROVE  Custody'
<1> DEFINE r == renewal[d][c]
<1>1. /\ r.at = "checked" /\ r.tok \in Tokens /\ r.tok # 0 /\ r \in RenewalState
  BY DEF Mark, Flight, TypeOK
<1>2. /\ row' = [row EXCEPT ![r.tok] = "used"]
      /\ renewal' = [renewal EXCEPT ![d][c].at = "marked"]
      /\ UNCHANGED <<family, issued, unheard, old, revoked, app>>
  BY DEF Mark, Renewal, clock, client, history
<1>3. \A e \in Devices, k \in Calls :
        /\ renewal'[e][k].tok = renewal[e][k].tok /\ renewal'[e][k].new = renewal[e][k].new
        /\ renewal'[e][k].heard = renewal[e][k].heard
        /\ renewal'[e][k].at # renewal[e][k].at => e = d /\ k = c
        /\ e = d /\ k = c => renewal'[e][k].at = "marked"
  BY <1>2 DEF TypeOK, RenewalState
<1>4. \A t \in Tokens : t # r.tok => row'[t] = row[t] /\ (Unspent(t) => Unspent(t)')
  BY <1>2 DEF TypeOK, Unspent
<1>5. \A e \in Devices : e # d => r.tok \notin Holds(e)
  <2>1. r.tok \in Holds(d)
    BY DEF Holds
  <2> QED BY <1>1, <2>1 DEF Custody, Owned
<1>6. Owned'
  <2>1. \A e \in Devices : Holds(e)' = Holds(e)
    BY <1>2, <1>3 DEF Holds
  <2> QED BY <1>2, <2>1 DEF Custody, Owned
<1>7. Waiting'
  BY <1>1, <1>2, <1>3 DEF Custody, Waiting
<1>8. InFlight'
  <2>1. ASSUME NEW e \in Devices, NEW k \in Calls,
               renewal'[e][k].at \in {"arrived", "checked", "refused", "broken"}
        PROVE  Unspent(renewal[e][k].tok)'
    <3>1. /\ ~(e = d /\ k = c) /\ renewal[e][k].at \in {"arrived", "checked", "refused", "broken"}
          /\ renewal[e][k].tok \in Tokens
      BY <1>3, <2>1 DEF Flight
    <3>2. CASE renewal[e][k].tok # r.tok
      BY <1>2, <1>3, <1>4, <3>1, <3>2 DEF Custody, InFlight, Unspent
    <3>3. CASE renewal[e][k].tok = r.tok
      <4>1. e = d
        BY <1>5, <3>3 DEF Holds
      <4>2. ~r.heard \/ ~renewal[d][k].heard
        BY <3>1, <4>1 DEF Custody, Waiting
      <4>3. r.tok \in unheard
        BY <1>1, <3>1, <3>3, <4>1, <4>2 DEF Custody, Waiting
      <4> QED BY <1>2, <1>3, <3>3, <4>3 DEF Unspent
    <3> QED BY <3>2, <3>3
  <2>2. ASSUME NEW e \in Devices, NEW k \in Calls, renewal'[e][k].at = "reused"
        PROVE  renewal'[e][k].tok \in unheard'
    BY <1>2, <1>3, <2>2 DEF Custody, InFlight
  <2> QED BY <1>3, <2>1, <2>2 DEF InFlight, Unspent
<1>9. Delivered'
  <2>1. ASSUME NEW e \in Devices, NEW k \in Calls, renewal'[e][k].at = "answered"
        PROVE  /\ renewal'[e][k].heard /\ row'[renewal'[e][k].new] # "used"
               /\ renewal'[e][k].new # app'[e].ref
               /\ \A i \in Calls : renewal'[e][i].tok # renewal'[e][k].new
    <3>1. renewal[e][k].at = "answered" /\ renewal[e][k].new \in Tokens
      BY <1>3, <2>1 DEF Flight
    <3>2. renewal[e][k].new # r.tok
      BY <1>5, <3>1 DEF Custody, Delivered, Holds
    <3> QED BY <1>2, <1>3, <1>4, <3>1, <3>2 DEF Custody, Delivered
  <2> QED BY <2>1 DEF Delivered
<1>10. Stored'
  <2>1. ASSUME NEW e \in Devices, app[e].ref # 0, ~Unspent(app[e].ref)'
        PROVE  \E k \in Calls : /\ renewal'[e][k].heard /\ renewal'[e][k].tok = app[e].ref
                                /\ renewal'[e][k].at \in {"marked", "answered"}
    <3>1. app[e].ref \in Tokens
      BY <2>1 DEF TypeOK, AppState
    <3>2. CASE app[e].ref # r.tok
      <4>1. ~Unspent(app[e].ref)
        BY <1>2, <1>4, <2>1, <3>1, <3>2 DEF Unspent
      <4> QED BY <1>1, <1>3, <2>1, <4>1 DEF Custody, Stored
    <3>3. CASE app[e].ref = r.tok
      <4>1. e = d
        BY <1>5, <3>3 DEF Holds
      <4>2. r.heard
        BY <1>1, <1>2, <2>1, <3>3 DEF Custody, Waiting, Unspent
      <4> QED BY <1>3, <3>3, <4>1, <4>2
    <3> QED BY <3>2, <3>3
  <2> QED BY <1>2, <2>1 DEF Stored, Unspent
<1>11. Gone'
  BY <1>2, <1>4 DEF Custody, Gone, TypeOK
<1> QED BY <1>6, <1>7, <1>8, <1>9, <1>10, <1>11 DEF Custody

\* What issuing a token does to the table.
LEMMA IssuedRow ==
  ASSUME TypeOK, NEW f, NEW h, IssueTokens(f, h)
  PROVE  /\ issued' = issued + 1 /\ issued + 1 \in Tokens /\ issued \in Nat
         /\ row'[issued + 1] = "fresh"
         /\ \A t \in Tokens : t # issued + 1 => row'[t] = row[t] /\ family'[t] = family[t]
BY SessionsAssumption DEF IssueTokens, TypeOK

\* A token just issued is held by one device at most.
LEMMA OwnedGrows ==
  ASSUME TypeOK, TypeOK', Owned, NEW d \in Devices, issued' = issued + 1,
         \A e \in Devices : \A t \in Holds(e)' :
           t \in Holds(e) \/ t = 0 \/ (e = d /\ t = issued + 1)
  PROVE  Owned'
<1>1. issued \in Nat
  BY SessionsAssumption DEF TypeOK
<1>2. \A e \in Devices : Holds(e) \subseteq Nat
  BY SessionsAssumption DEF Holds, TypeOK, AppState, RenewalState
<1>3. \A e \in Devices : issued + 1 \notin Holds(e)
  BY <1>1 DEF Owned
<1>4. ASSUME NEW e \in Devices, NEW t \in Holds(e)' PROVE t <= issued'
  BY <1>1, <1>2, <1>4 DEF Owned
<1>5. ASSUME NEW e \in Devices, NEW g \in Devices, e # g, NEW t \in Holds(e)', t \in Holds(g)'
      PROVE  t = 0
  BY <1>3, <1>5 DEF Owned
<1> QED BY <1>4, <1>5 DEF Owned

\* Issuing a token spends none, and no row goes.
LEMMA IssuingSpends ==
  ASSUME TypeOK, NEW f, NEW h, IssueTokens(f, h), UNCHANGED <<unheard, old, revoked>>, Gone
  PROVE  (\A t \in Tokens : Unspent(t) => Unspent(t)') /\ Gone'
<1>1. /\ issued' = issued + 1 /\ issued + 1 \in Tokens /\ issued \in Nat
      /\ row'[issued + 1] = "fresh"
      /\ \A t \in Tokens : t # issued + 1 => row'[t] = row[t] /\ family'[t] = family[t]
  BY IssuedRow
<1>2. \A t \in Tokens : Unspent(t) => Unspent(t)'
  BY <1>1 DEF Unspent
<1>3. ASSUME NEW t \in Tokens, t <= issued', row'[t] = "none"
      PROVE  t \in old' \/ family'[t] \in revoked'
  <2>1. t # issued + 1 /\ t <= issued
    BY <1>1, <1>3 DEF TypeOK
  <2> QED BY <1>1, <1>3, <2>1 DEF Gone
<1> QED BY <1>2, <1>3 DEF Gone

(***************************************************************************)
(* The answer of a renewal brings its device a token nobody has seen.      *)
(***************************************************************************)
LEMMA IssueKeeps ==
  ASSUME TypeOK, TypeOK', Flight, Custody, NEW d \in Devices, NEW c \in Calls, Issue(d, c)
  PROVE  Custody'
<1> DEFINE r == renewal[d][c]
           n == issued + 1
           x == IF r.heard THEN [r EXCEPT !.at = "answered", !.new = n] ELSE NoRenewal
<1>1. /\ r.at = "marked" /\ IssueTokens(r.fam, home)
      /\ renewal' = [renewal EXCEPT ![d][c] = x]
      /\ UNCHANGED <<app, old, unheard, revoked>>
  BY DEF Issue, Answer, TypeOK, clock, client, history
<1>2. /\ issued' = n /\ n \in Tokens /\ issued \in Nat /\ row'[n] = "fresh"
      /\ \A t \in Tokens : t # n => row'[t] = row[t]
  BY <1>1, IssuedRow
<1>3. /\ \A e \in Devices, k \in Calls : ~(e = d /\ k = c) => renewal'[e][k] = renewal[e][k]
      /\ renewal'[d][c] = x
  BY <1>1 DEF TypeOK
<1>4. /\ r.heard => /\ x.at = "answered" /\ x.new = n /\ x.tok = r.tok /\ x.heard = TRUE
      /\ ~r.heard => x.at = "none" /\ x.new = 0 /\ x.tok = 0 /\ x.heard = FALSE
  BY DEF TypeOK, RenewalState, NoRenewal
<1> HIDE DEF x
<1>5. /\ \A t \in Tokens : Unspent(t) => Unspent(t)'
      /\ Gone'
  BY <1>1, IssuingSpends DEF Custody
<1>6. Owned'
  <2>1. \A e \in Devices : \A t \in Holds(e)' : t \in Holds(e) \/ t = 0 \/ (e = d /\ t = n)
    BY <1>1, <1>3, <1>4 DEF Holds
  <2> QED BY <1>2, <2>1, OwnedGrows DEF Custody
<1>7. Waiting'
  BY <1>1, <1>3, <1>4 DEF Custody, Waiting
<1>8. InFlight'
  <2>1. ASSUME NEW e \in Devices, NEW k \in Calls,
               renewal'[e][k].at \in {"arrived", "checked", "refused", "broken", "reused"}
        PROVE  renewal'[e][k] = renewal[e][k] /\ renewal[e][k].tok \in Tokens
    BY <1>3, <1>4, <2>1 DEF Flight
  <2> QED BY <1>1, <1>5, <2>1 DEF Custody, InFlight, Unspent
<1>9. Delivered'
  <2>1. ASSUME NEW e \in Devices, NEW k \in Calls, renewal'[e][k].at = "answered"
        PROVE  /\ renewal'[e][k].heard /\ row'[renewal'[e][k].new] # "used"
               /\ renewal'[e][k].new # app'[e].ref
               /\ \A i \in Calls : renewal'[e][i].tok # renewal'[e][k].new
    <3>1. CASE e = d /\ k = c
      <4>1. r.heard
        BY <1>3, <1>4, <2>1, <3>1
      <4>2. app[d].ref <= issued /\ \A i \in Calls : renewal[d][i].tok <= issued
        BY DEF Custody, Owned, Holds
      <4>3. app[d].ref # n /\ \A i \in Calls : renewal[d][i].tok # n
        BY <1>2, <4>2
      <4>4. \A i \in Calls : renewal'[d][i].tok = renewal[d][i].tok
        BY <1>3, <1>4, <4>1
      <4> QED BY <1>1, <1>2, <1>3, <1>4, <3>1, <4>1, <4>3, <4>4
    <3>2. CASE ~(e = d /\ k = c)
      <4>1. /\ renewal'[e][k] = renewal[e][k] /\ renewal[e][k].at = "answered"
            /\ renewal[e][k].new \in Tokens /\ renewal[e][k].new # 0
        BY <1>3, <2>1, <3>2 DEF Flight
      <4>2. /\ renewal[e][k].heard /\ row[renewal[e][k].new] # "used"
            /\ renewal[e][k].new # app[e].ref
            /\ \A i \in Calls : renewal[e][i].tok # renewal[e][k].new
        BY <4>1 DEF Custody, Delivered
      <4>3. \A i \in Calls : renewal'[e][i].tok \in {0, renewal[e][i].tok}
        BY <1>3, <1>4
      <4>4. row'[renewal[e][k].new] # "used"
        BY <1>2, <4>1, <4>2
      <4> QED BY <1>1, <4>1, <4>2, <4>3, <4>4
    <3> QED BY <3>1, <3>2
  <2> QED BY <2>1 DEF Delivered
<1>10. Stored'
  <2>1. ASSUME NEW e \in Devices, app[e].ref # 0, ~Unspent(app[e].ref)'
        PROVE  \E k \in Calls : /\ renewal'[e][k].heard /\ renewal'[e][k].tok = app[e].ref
                                /\ renewal'[e][k].at \in {"marked", "answered"}
    <3>1. app[e].ref \in Tokens
      BY <2>1 DEF TypeOK, AppState
    <3>2. ~Unspent(app[e].ref)
      BY <1>1, <1>5, <2>1, <3>1 DEF Unspent
    <3>3. PICK k \in Calls : /\ renewal[e][k].heard /\ renewal[e][k].tok = app[e].ref
                             /\ renewal[e][k].at \in {"marked", "answered"}
      BY <2>1, <3>2 DEF Custody, Stored
    <3> QED BY <1>3, <1>4, <3>3
  <2> QED BY <1>1, <2>1 DEF Stored, Unspent
<1> QED BY <1>5, <1>6, <1>7, <1>8, <1>9, <1>10 DEF Custody

(***************************************************************************)
(* A login, and entering or dissolving a household, give one device at most*)
(* a token, which is new.                                                  *)
(***************************************************************************)
LEMMA NewSessionKeeps ==
  ASSUME TypeOK, TypeOK', Flight, Custody, NEW d \in Devices, NEW f, NEW h, IssueTokens(f, h),
         UNCHANGED <<renewal, old, unheard, revoked>>,
         app'[d].ref \in {app[d].ref, issued + 1},
         \A e \in Devices : e # d => app'[e].ref = app[e].ref
  PROVE  Custody'
<1> DEFINE n == issued + 1
<1>1. /\ issued' = n /\ n \in Tokens /\ issued \in Nat /\ row'[n] = "fresh"
      /\ \A t \in Tokens : t # n => row'[t] = row[t]
  BY IssuedRow
<1>2. /\ \A t \in Tokens : Unspent(t) => Unspent(t)'
      /\ Gone'
  BY IssuingSpends DEF Custody
<1>3. Owned'
  <2>1. \A e \in Devices : \A t \in Holds(e)' : t \in Holds(e) \/ t = 0 \/ (e = d /\ t = n)
    BY DEF Holds
  <2> QED BY <1>1, <2>1, OwnedGrows DEF Custody
<1>4. Waiting'
  BY DEF Custody, Waiting
<1>5. InFlight'
  BY <1>2 DEF Custody, InFlight, Unspent, Flight
<1>6. Delivered'
  <2>1. ASSUME NEW e \in Devices, NEW k \in Calls, renewal[e][k].at = "answered"
        PROVE  row'[renewal[e][k].new] # "used" /\ renewal[e][k].new # app'[e].ref
    <3>1. /\ renewal[e][k].new \in Tokens /\ row[renewal[e][k].new] # "used"
          /\ renewal[e][k].new # app[e].ref
      BY <2>1 DEF Flight, Custody, Delivered
    <3>2. renewal[e][k].new <= issued
      BY DEF Custody, Owned, Holds
    <3>3. renewal[e][k].new # n
      BY <1>1, <3>2
    <3> QED BY <1>1, <3>1, <3>3
  <2> QED BY <2>1 DEF Custody, Delivered
<1>7. Stored'
  <2>1. ASSUME NEW e \in Devices, app'[e].ref # 0, row'[app'[e].ref] = "used", app'[e].ref \notin unheard
        PROVE  \E k \in Calls : /\ renewal[e][k].heard /\ renewal[e][k].tok = app'[e].ref
                                /\ renewal[e][k].at \in {"marked", "answered"}
    <3>1. app'[e].ref = app[e].ref /\ app[e].ref \in Tokens
      BY <1>1, <2>1 DEF TypeOK, AppState
    <3>2. ~Unspent(app[e].ref)
      BY <1>2, <2>1, <3>1 DEF Unspent
    <3> QED BY <2>1, <3>1, <3>2 DEF Custody, Stored
  <2> QED BY <2>1 DEF Stored, Unspent
<1> QED BY <1>2, <1>3, <1>4, <1>5, <1>6, <1>7 DEF Custody

(***************************************************************************)
(* A device starts a renewal when it waits for none, so the token it stores*)
(* is unspent.                                                             *)
(***************************************************************************)
LEMMA RenewKeeps ==
  ASSUME TypeOK, TypeOK', Flight, Custody, NEW d \in Devices, NEW c \in Calls, Renew(d, c)
  PROVE  Custody'
<1> DEFINE x == [at |-> "arrived", tok |-> app[d].ref, fam |-> app[d].fam,
                 new |-> 0, heard |-> TRUE]
<1>1. /\ \A k \in Calls : ~renewal[d][k].heard
      /\ app[d].ref # 0
      /\ renewal' = [renewal EXCEPT ![d][c] = x]
      /\ UNCHANGED <<row, family, issued, app, old, unheard, revoked>>
  BY DEF Renew, Busy, server, clock, history
<1>2. x.at = "arrived" /\ x.tok = app[d].ref /\ x.new = 0 /\ x.heard = TRUE
  OBVIOUS
<1> HIDE DEF x
<1>3. /\ \A e \in Devices, k \in Calls : ~(e = d /\ k = c) => renewal'[e][k] = renewal[e][k]
      /\ renewal'[d][c] = x
  BY <1>1 DEF TypeOK
<1>4. Owned'
  <2>1. \A e \in Devices : Holds(e)' \subseteq Holds(e) \union {0}
    BY <1>1, <1>2, <1>3 DEF Holds
  <2>2. 0 <= issued
    BY SessionsAssumption DEF TypeOK
  <2> QED BY <1>1, <2>1, <2>2 DEF Custody, Owned
<1>5. Waiting'
  BY <1>1, <1>2, <1>3 DEF Custody, Waiting
<1>6. InFlight'
  <2>1. Unspent(app[d].ref)
    BY <1>1 DEF Custody, Stored
  <2> QED BY <1>1, <1>2, <1>3, <2>1 DEF Custody, InFlight, Unspent
<1>7. Delivered'
  <2>1. ASSUME NEW e \in Devices, NEW k \in Calls, renewal'[e][k].at = "answered"
        PROVE  e # d /\ renewal'[e][k] = renewal[e][k]
    BY <1>1, <1>2, <1>3, <2>1 DEF Custody, Delivered
  <2> QED BY <1>1, <1>3, <2>1 DEF Custody, Delivered
<1>8. Stored'
  <2>1. \A e \in Devices, k \in Calls : renewal[e][k].heard => renewal'[e][k] = renewal[e][k]
    BY <1>1, <1>3
  <2> QED BY <1>1, <2>1 DEF Custody, Stored, Unspent
<1>9. Gone'
  BY <1>1 DEF Custody, Gone
<1> QED BY <1>4, <1>5, <1>6, <1>7, <1>8, <1>9 DEF Custody

(***************************************************************************)
(* The device stores the token it was sent.                                *)
(***************************************************************************)
LEMMA RenewedKeeps ==
  ASSUME TypeOK, TypeOK', Flight, Custody, NEW d \in Devices, NEW c \in Calls, Renewed(d, c)
  PROVE  Custody'
<1> DEFINE n == renewal[d][c].new
<1>1. /\ renewal[d][c].at = "answered" /\ renewal[d][c].heard
      /\ renewal' = [renewal EXCEPT ![d][c] = NoRenewal]
      /\ UNCHANGED <<row, family, issued, old, unheard, revoked>>
  BY DEF Renewed, server, clock, history
<1>2. app'[d].ref = n /\ \A e \in Devices : e # d => app'[e] = app[e]
  BY DEF Renewed, TypeOK, AppState
<1>3. /\ \A e \in Devices, k \in Calls : ~(e = d /\ k = c) => renewal'[e][k] = renewal[e][k]
      /\ renewal'[d][c] = NoRenewal
  BY <1>1 DEF TypeOK
<1>4. /\ NoRenewal.at = "none" /\ NoRenewal.tok = 0 /\ NoRenewal.new = 0
      /\ NoRenewal.heard = FALSE
  BY DEF NoRenewal
<1>5. Owned'
  <2>1. \A e \in Devices : Holds(e)' \subseteq Holds(e) \union {0}
    BY <1>2, <1>3, <1>4 DEF Holds
  <2>2. 0 <= issued
    BY SessionsAssumption DEF TypeOK
  <2> QED BY <1>1, <2>1, <2>2 DEF Custody, Owned
<1>6. Waiting'
  BY <1>1, <1>3, <1>4 DEF Custody, Waiting
<1>7. InFlight'
  BY <1>1, <1>3, <1>4 DEF Custody, InFlight, Unspent
<1>8. Delivered'
  <2>1. ASSUME NEW e \in Devices, NEW k \in Calls, renewal'[e][k].at = "answered"
        PROVE  e # d /\ renewal'[e][k] = renewal[e][k]
    BY <1>1, <1>3, <1>4, <2>1 DEF Custody, Delivered, Waiting
  <2> QED BY <1>1, <1>2, <1>3, <2>1 DEF Custody, Delivered
<1>9. Stored'
  <2>1. Unspent(n)
    BY <1>1 DEF Custody, Delivered, Unspent
  <2> QED BY <1>1, <1>2, <1>3, <2>1 DEF Custody, Stored, Unspent
<1>10. Gone'
  BY <1>1 DEF Custody, Gone
<1> QED BY <1>5, <1>6, <1>7, <1>8, <1>9, <1>10 DEF Custody

\* Every action either is calm or is one of the five above.
LEMMA CustodyStep == Frame /\ Custody /\ [Next]_vars => Custody'
<1> SUFFICES ASSUME Frame, Custody, [Next]_vars PROVE Custody'
  OBVIOUS
<1>0. TypeOK /\ Flight /\ TypeOK'
  BY FrameStep DEF Frame
<1> USE DEF server, clock, client, history
<1>a. Calm => Custody'
  BY <1>0, CalmKeeps
<1>b. UNCHANGED <<issued, family, row, app, renewal, unheard>> /\ old \subseteq old' /\ revoked \subseteq revoked'
        => Custody'
  BY <1>a, AllStay DEF Calm, RowsOnlyGo
<1>1. ASSUME NEW d \in Devices, NEW c \in Calls, Check(d, c) PROVE Custody'
  <2> DEFINE r == renewal[d][c]
             v == Verdict(r.tok, r.fam)
  <2>1. r.at = "arrived" /\ r.tok \in Tokens /\ r \in RenewalState
    BY <1>0, <1>1 DEF Check, Flight, TypeOK
  <2>2. v \in {"refused", "reused", "checked"} /\ (v = "reused" => row[r.tok] = "used")
    BY <1>0, <2>1 DEF Verdict, TypeOK
  <2>3. \A e \in Devices, k \in Calls : Ends(e, k) \/ GoesOn(e, k)
    <3>1. CASE v = "refused"
      BY <1>0, <1>1, <2>1, <3>1, RefusalGoesOn DEF Refuse, Check
    <3>2. CASE v # "refused"
      <4> DEFINE x == [r EXCEPT !.at = v]
      <4>1. renewal' = [renewal EXCEPT ![d][c] = x]
        BY <1>0, <1>1, <3>2 DEF Check, Renewal, TypeOK
      <4>2. x.at = v /\ x.tok = r.tok /\ x.new = r.new /\ x.heard = r.heard
        BY <2>1 DEF RenewalState
      <4> HIDE DEF x, v
      <4>3. renewal'[d][c] = x
        BY <1>0, <4>1 DEF TypeOK
      <4>4. GoesOn(d, c)
        BY <2>1, <2>2, <3>2, <4>2, <4>3 DEF GoesOn
      <4> QED BY <1>0, <4>1, <4>4, OthersGoOn
    <3> QED BY <3>1, <3>2
  <2>4. RowsOnlyGo /\ UNCHANGED <<issued, family, old, revoked, unheard, app>>
    BY <1>0, <1>1, <2>1 DEF Check, RowsOnlyGo, TypeOK
  <2> QED BY <1>a, <2>3, <2>4 DEF Calm
<1>2. ASSUME NEW d \in Devices, NEW c \in Calls, EndFamily(d, c) PROVE Custody'
  <2>1. /\ RowsOnlyGo /\ revoked \subseteq revoked'
        /\ UNCHANGED <<issued, family, unheard, old, app>>
    BY <1>0, <1>2, DeletedRowsGo DEF EndFamily
  <2>2. renewal[d][c].at = "reused" /\ renewal[d][c].tok \in unheard
    BY <1>2 DEF EndFamily, Custody, InFlight
  <2>3. \A e \in Devices, k \in Calls : Ends(e, k) \/ GoesOn(e, k)
    BY <1>0, <1>2, <2>1, <2>2, RefusalGoesOn DEF Refuse, EndFamily
  <2> QED BY <1>a, <2>1, <2>3 DEF Calm
<1>3. ASSUME NEW d \in Devices, NEW c \in Calls, Mark(d, c) PROVE Custody'
  <2>1. CASE row[renewal[d][c].tok] = "none"
    <3>1. Refuse(d, c) /\ UNCHANGED <<row, issued, family, old, revoked, unheard, app>>
      BY <1>3, <2>1 DEF Mark
    <3>2. \A e \in Devices, k \in Calls : Ends(e, k) \/ GoesOn(e, k)
      BY <1>0, <1>3, <3>1, RefusalGoesOn DEF Refuse, Mark
    <3> QED BY <1>a, <3>1, <3>2 DEF Calm, RowsOnlyGo
  <2>2. CASE row[renewal[d][c].tok] # "none"
    BY <1>0, <1>3, <2>2, MarkKeeps
  <2> QED BY <2>1, <2>2
<1>4. ASSUME NEW d \in Devices, NEW c \in Calls, Issue(d, c) PROVE Custody'
  BY <1>0, <1>4, IssueKeeps
<1>5. ASSUME NEW d \in Devices, NEW c \in Calls, Break(d, c) PROVE Custody'
  <2>1. /\ Answer(d, c, "broken", 0) /\ UNCHANGED <<row, issued, family, old, revoked, app>>
        /\ unheard \subseteq unheard'
        /\ renewal[d][c].at \in {"arrived", "reused", "checked", "marked"}
        /\ renewal[d][c].at \in {"reused", "marked"} => renewal[d][c].tok \in unheard'
    BY <1>5 DEF Break, Custody, InFlight
  <2>2. \A e \in Devices, k \in Calls : Ends(e, k) \/ GoesOn(e, k)
    BY <1>0, <2>1, RefusalGoesOn
  <2> QED BY <1>a, <2>1, <2>2 DEF Calm, RowsOnlyGo
<1>6. ASSUME NEW d \in Devices, NEW c \in Calls, ServeLogout(d, c) PROVE Custody'
  <2>1. /\ RowsOnlyGo /\ revoked \subseteq revoked'
        /\ UNCHANGED <<issued, family, unheard, old, app, renewal>>
    BY <1>0, <1>6, DeletedRowsGo DEF ServeLogout
  <2> QED BY <1>a, <2>1, AllStay DEF Calm
<1>7. ASSUME NEW d \in Devices, NEW c \in Calls, Renew(d, c) PROVE Custody'
  BY <1>0, <1>7, RenewKeeps
<1>8. ASSUME NEW d \in Devices, NEW c \in Calls, Renewed(d, c) PROVE Custody'
  BY <1>0, <1>8, RenewedKeeps
<1>9. ASSUME NEW d \in Devices, NEW c \in Calls, NotRenewed(d, c) PROVE Custody'
  <2>1. /\ renewal' = [renewal EXCEPT ![d][c] = NoRenewal]
        /\ renewal[d][c].at \in {"refused", "broken"}
        /\ UNCHANGED <<row, issued, family, old, revoked, unheard, app>>
    BY <1>9 DEF NotRenewed
  <2>2. Ends(d, c)
    BY <1>0, <2>1 DEF Ends, TypeOK
  <2>3. \A e \in Devices, k \in Calls : Ends(e, k) \/ GoesOn(e, k)
    BY <1>0, <2>1, <2>2, OthersGoOn
  <2> QED BY <1>a, <2>1, <2>3 DEF Calm, RowsOnlyGo
<1>10. ASSUME NEW d \in Devices, NEW c \in Calls, TimeOut(d, c) PROVE Custody'
  <2> DEFINE x == Abandoned(renewal[d][c])
  <2>1. /\ renewal' = [renewal EXCEPT ![d][c] = x]
        /\ unheard \subseteq unheard' /\ renewal[d][c].tok \in unheard'
        /\ UNCHANGED <<row, issued, family, old, revoked, app>>
    BY <1>0, <1>10 DEF TimeOut, TypeOK
  <2> HIDE DEF x
  <2>2. renewal'[d][c] = x
    BY <1>0, <2>1 DEF TypeOK
  <2>3. Ends(d, c) \/ GoesOn(d, c)
    BY <1>0, <2>1, <2>2, AbandonedGoesOn DEF x
  <2>4. \A e \in Devices, k \in Calls : Ends(e, k) \/ GoesOn(e, k)
    BY <1>0, <2>1, <2>3, OthersGoOn
  <2> QED BY <1>a, <2>1, <2>4 DEF Calm, RowsOnlyGo
<1>11. ASSUME NEW d \in Devices, Restart(d) PROVE Custody'
  <2>1. /\ unheard \subseteq unheard'
        /\ UNCHANGED <<row, issued, family, old, revoked, app>>
        /\ \A c \in Calls : renewal[d][c].heard => renewal[d][c].tok \in unheard'
    BY <1>11 DEF Restart
  <2>2. /\ \A c \in Calls : renewal'[d][c] = Abandoned(renewal[d][c])
        /\ \A e \in Devices, k \in Calls : e # d => renewal'[e][k] = renewal[e][k]
    BY <1>0, <1>11 DEF Restart, TypeOK
  <2>3. \A k \in Calls : Ends(d, k) \/ GoesOn(d, k)
    BY <1>0, <2>1, <2>2, AbandonedGoesOn
  <2>4. \A e \in Devices, k \in Calls : e # d => GoesOn(e, k)
    BY <2>2 DEF GoesOn
  <2> QED BY <1>a, <2>1, <2>3, <2>4 DEF Calm, RowsOnlyGo
<1>12. ASSUME NEW d \in Devices, NEW c \in Calls, Clear(d, c) PROVE Custody'
  <2>1. UNCHANGED <<row, issued, family, old, revoked, unheard, renewal>>
    BY <1>12 DEF Clear
  <2>2. \A e \in Devices : app'[e].ref \in {app[e].ref, 0}
    BY <1>0, <1>12 DEF Clear, TypeOK, SignedOut
  <2> QED BY <1>a, <2>1, <2>2, AllStay DEF Calm, RowsOnlyGo
<1>13. ASSUME NEW d \in Devices, Login(d) PROVE Custody'
  <2>1. /\ IssueTokens(0, home) /\ UNCHANGED <<renewal, old, unheard, revoked>>
        /\ app'[d].ref = issued + 1 /\ \A e \in Devices : e # d => app'[e].ref = app[e].ref
    BY <1>0, <1>13 DEF Login, TypeOK
  <2> QED BY <1>0, <2>1, NewSessionKeeps
<1>14. ASSUME NEW d \in Devices, NEW heard \in Heard, DissolveHome(d, heard) PROVE Custody'
  <2>1. /\ IssueTokens(0, NoHome) /\ UNCHANGED <<renewal, old, unheard, revoked>>
        /\ \A e \in Devices : app'[e].ref = app[e].ref
    BY <1>0, <1>14 DEF DissolveHome, TypeOK, AppState
  <2> QED BY <1>0, <2>1, NewSessionKeeps
<1>15. ASSUME NEW d \in Devices, NEW heard \in Heard, NEW h \in Homes,
              EnterHome(d, h, heard)
       PROVE  Custody'
  <2>1. /\ IssueTokens(0, h) /\ UNCHANGED <<renewal, old, unheard, revoked>>
        /\ \A e \in Devices : app'[e].ref = app[e].ref
    BY <1>0, <1>15 DEF EnterHome, TypeOK, AppState
  <2> QED BY <1>0, <2>1, NewSessionKeeps
<1>16. ASSUME CleanUp PROVE Custody'
  <2>1. RowsOnlyGo /\ UNCHANGED <<issued, family, app, old, revoked, unheard, renewal>>
    BY <1>0, <1>16 DEF CleanUp, RowsOnlyGo
  <2> QED BY <1>a, <2>1, AllStay DEF Calm
<1>17. ASSUME NEW d \in Devices, NEW c \in Calls,
              Serve(d, c) \/ GiveUp(d, c) \/ Send(d, c) \/ SignOut(d, c) \/ Lose(d, c)
       PROVE  Custody'
  BY <1>17, <1>b DEF Serve, GiveUp, Send, SignOut, Lose
<1>18. ASSUME RemovedFromHome PROVE Custody'
  BY <1>18, <1>b DEF RemovedFromHome
<1>19. ASSUME NEW t \in Tokens, ExpireAccess(t) \/ ExpireRefresh(t) PROVE Custody'
  BY <1>19, <1>b DEF ExpireAccess, ExpireRefresh
<1>20. CASE UNCHANGED vars
  BY <1>20, <1>b DEF vars
<1> QED
  BY <1>1, <1>2, <1>3, <1>4, <1>5, <1>6, <1>7, <1>8, <1>9, <1>10, <1>11, <1>12, <1>13, <1>14,
     <1>15, <1>16, <1>17, <1>18, <1>19, <1>20 DEF Next, ServerStep, ClientStep

\* So nobody's token is ever lost but for a reason.
LEMMA AlwaysInCustody == Spec => [](TypeOK /\ Flight /\ Custody)
<1>1. Frame => TypeOK /\ Flight
  BY DEF Frame
<1>2. IInv => Frame
  BY DEF IInv
<1> QED
  BY <1>1, <1>2, CustodyStart, CustodyStep, Inductive, PTL DEF Spec

(***************************************************************************)
(* The reuse detection of refresh (auth.service.ts:221-225) never takes a  *)
(* device whose renewals were all answered for a thief, however requests,  *)
(* sign-outs and household changes overlap.                                *)
(***************************************************************************)
THEOREM ReuseForCause == Spec => []ReuseMeansLostAnswer
<1>1. Custody => ReuseMeansLostAnswer
  BY DEF Custody, InFlight, ReuseMeansLostAnswer
<1> QED BY <1>1, AlwaysInCustody, PTL

(***************************************************************************)
(* The refresh token a device stores, the one _attemptTokenRefresh sends   *)
(* (auth_providers.dart:192), can be renewed, unless it expired, its family*)
(* was revoked, or the answer to its renewal was lost or is awaited.       *)
(***************************************************************************)
THEOREM StoredTokensAreGood == Spec => []StoredTokenIsGood
<1>1. ASSUME TypeOK, Flight, Custody, NEW d \in Devices, app[d].ref # 0,
             app[d].ref \notin old, app[d].ref \notin unheard, family[app[d].ref] \notin revoked,
             row[app[d].ref] # "fresh"
      PROVE  \E c \in Calls : renewal[d][c].heard /\ renewal[d][c].tok = app[d].ref
  <2>1. app[d].ref \in Tokens /\ app[d].ref <= issued
    BY <1>1 DEF TypeOK, AppState, Custody, Owned, Holds
  <2>2. row[app[d].ref] = "used"
    BY <1>1, <2>1 DEF TypeOK, Custody, Gone
  <2> QED BY <1>1, <2>2 DEF Custody, Stored, Unspent
<1>2. TypeOK /\ Flight /\ Custody => StoredTokenIsGood
  BY <1>1 DEF StoredTokenIsGood
<1> QED BY <1>2, AlwaysInCustody, PTL

-----------------------------------------------------------------------------
(***************************************************************************)
(* One usable token to a family: what the renewals past their check, and   *)
(* the rows they are about to write, have to satisfy for that.             *)
(***************************************************************************)
\* A device did not hear of one of the family's renewals.
Lost(f) == \E x \in unheard : family[x] = f

\* Only issued tokens have rows, and a renewal past its check names the family
\* of its token.
Named ==
  /\ unheard \subseteq 1..issued
  /\ \A t \in Tokens : t > issued => row[t] = "none"
  /\ \A d \in Devices, c \in Calls :
       /\ renewal[d][c].at # "none" => renewal[d][c].fam # 0
       /\ renewal[d][c].at \in {"checked", "marked"} =>
            renewal[d][c].fam = family[renewal[d][c].tok]

\* A renewal that has marked its token is about to make the family's only
\* usable one.
Heir ==
  \A d \in Devices, c \in Calls : renewal[d][c].at = "marked" =>
    /\ row[renewal[d][c].tok] # "fresh"
    /\ \A t \in Tokens :
         row[t] = "fresh" /\ family[t] = renewal[d][c].fam => Lost(renewal[d][c].fam)
    /\ \A e \in Devices, k \in Calls :
         ~(e = d /\ k = c) /\ renewal[e][k].at = "marked" /\ renewal[e][k].fam = renewal[d][c].fam
           => Lost(renewal[d][c].fam)

Chain == Named /\ Heir /\ OneUsableToken

\* At first there are no rows.
LEMMA ChainStart == Init => Chain
BY SessionsAssumption DEF Init, Chain, Named, Heir, OneUsableToken, NoRenewal

\* A step that marks and issues nothing: at most a check has succeeded.
Settled(d, c) ==
  LET r == renewal[d][c]
      n == renewal'[d][c] IN
  /\ n.at # "none" => n.fam # 0
  /\ n.at = "checked" => n.fam = family[n.tok]
  /\ n.at = "marked" => r.at = "marked" /\ n.tok = r.tok /\ n.fam = r.fam

Plain ==
  /\ UNCHANGED <<family, issued>>
  /\ \A t \in Tokens : row'[t] \in {row[t], "none"}
  /\ unheard \subseteq unheard' /\ unheard' \subseteq 1..issued
  /\ \A d \in Devices, c \in Calls : Settled(d, c)

\* Such a step keeps the chain.
LEMMA PlainKeeps ==
  ASSUME TypeOK, Flight, Flight', Chain, Plain
  PROVE  Chain'
<1>2. \A t \in Tokens : row'[t] = "fresh" => row[t] = "fresh"
  BY DEF Plain
<1>3. Named'
  <2>1. ASSUME NEW t \in Tokens, t > issued' PROVE row'[t] = "none"
    BY <2>1 DEF Plain, Chain, Named
  <2>2. ASSUME NEW d \in Devices, NEW c \in Calls
        PROVE  /\ renewal'[d][c].at # "none" => renewal'[d][c].fam # 0
               /\ renewal'[d][c].at \in {"checked", "marked"} =>
                    renewal'[d][c].fam = family'[renewal'[d][c].tok]
    <3>1. Settled(d, c) /\ family' = family
      BY DEF Plain
    <3> QED BY <3>1 DEF Settled, Chain, Named
  <2> QED BY <2>1, <2>2 DEF Plain, Named
<1>4. Heir'
  <2>1. ASSUME NEW d \in Devices, NEW c \in Calls, renewal'[d][c].at = "marked"
        PROVE  /\ renewal[d][c].at = "marked" /\ renewal'[d][c].tok = renewal[d][c].tok
               /\ renewal'[d][c].fam = renewal[d][c].fam /\ renewal[d][c].tok \in Tokens
    BY <2>1 DEF Plain, Settled, Flight
  <2>2. ASSUME NEW d \in Devices, NEW c \in Calls, renewal'[d][c].at = "marked"
        PROVE  row'[renewal'[d][c].tok] # "fresh"
    BY <1>2, <2>1, <2>2 DEF Chain, Heir
  <2>3. ASSUME NEW d \in Devices, NEW c \in Calls, renewal'[d][c].at = "marked",
               NEW t \in Tokens, row'[t] = "fresh", family'[t] = renewal'[d][c].fam
        PROVE  \E x \in unheard' : family'[x] = renewal'[d][c].fam
    <3>1. Lost(renewal[d][c].fam)
      BY <1>2, <2>1, <2>3 DEF Plain, Chain, Heir
    <3>2. PICK x \in unheard : family[x] = renewal'[d][c].fam
      BY <2>1, <2>3, <3>1 DEF Lost
    <3> QED BY <3>2 DEF Plain
  <2>4. ASSUME NEW d \in Devices, NEW c \in Calls, NEW e \in Devices, NEW k \in Calls,
               ~(e = d /\ k = c), renewal'[d][c].at = "marked", renewal'[e][k].at = "marked",
               renewal'[e][k].fam = renewal'[d][c].fam
        PROVE  \E x \in unheard' : family'[x] = renewal'[d][c].fam
    <3>1. Lost(renewal[d][c].fam)
      BY <2>1, <2>4 DEF Chain, Heir
    <3>2. PICK x \in unheard : family[x] = renewal'[d][c].fam
      BY <2>1, <2>4, <3>1 DEF Lost
    <3> QED BY <3>2 DEF Plain
  <2> QED BY <2>2, <2>3, <2>4 DEF Heir, Lost
<1>5. OneUsableToken'
  <2>1. ASSUME NEW t \in Tokens, NEW u \in Tokens, t # u, row'[t] = "fresh", row'[u] = "fresh",
               family'[t] = family'[u]
        PROVE  \E x \in unheard' : family'[x] = family'[t]
    <3>1. PICK x \in unheard : family[x] = family[t]
      BY <1>2, <2>1 DEF Plain, Chain, OneUsableToken
    <3> QED BY <3>1 DEF Plain
  <2> QED BY <2>1 DEF OneUsableToken
<1> QED BY <1>3, <1>4, <1>5 DEF Chain

(***************************************************************************)
(* A renewal marks its token.  A token of the family that can still be     *)
(* renewed, or another renewal that marked one, shows that an answer was   *)
(* lost.                                                                   *)
(***************************************************************************)
LEMMA MarkChain ==
  ASSUME TypeOK, Flight, Custody, Chain, NEW d \in Devices, NEW c \in Calls, Mark(d, c),
         row[renewal[d][c].tok] # "none"
  PROVE  Chain'
<1> DEFINE r == renewal[d][c]
           x == [r EXCEPT !.at = "marked"]
<1>1. /\ r.at = "checked" /\ r.tok \in Tokens /\ r \in RenewalState
      /\ r.fam # 0 /\ r.fam = family[r.tok] /\ row[r.tok] \in {"fresh", "used"}
  BY DEF Mark, Flight, TypeOK, Chain, Named
<1>2. /\ row' = [row EXCEPT ![r.tok] = "used"]
      /\ renewal' = [renewal EXCEPT ![d][c] = x]
      /\ UNCHANGED <<family, issued, unheard>>
  BY DEF Mark, Renewal, TypeOK, history
<1>3. x.at = "marked" /\ x.tok = r.tok /\ x.fam = r.fam
  BY <1>1 DEF RenewalState
<1> HIDE DEF x
<1>4. /\ \A e \in Devices, k \in Calls : ~(e = d /\ k = c) => renewal'[e][k] = renewal[e][k]
      /\ renewal'[d][c] = x
  BY <1>2 DEF TypeOK
<1>5. /\ row'[r.tok] = "used"
      /\ \A t \in Tokens : t # r.tok => row'[t] = row[t]
  BY <1>1, <1>2 DEF TypeOK
<1>6. row[r.tok] = "used" => Lost(r.fam)
  BY <1>1 DEF Custody, InFlight, Unspent, Lost
<1>7. ASSUME NEW t \in Tokens, row'[t] = "fresh", family[t] = r.fam PROVE Lost(r.fam)
  <2>1. t # r.tok /\ row[t] = "fresh"
    BY <1>5, <1>7
  <2>2. CASE row[r.tok] = "fresh"
    BY <1>1, <1>7, <2>1, <2>2 DEF Chain, OneUsableToken, Lost
  <2> QED BY <1>1, <1>6, <2>2
<1>8. ASSUME NEW e \in Devices, NEW k \in Calls, renewal[e][k].at = "marked",
             renewal[e][k].fam = r.fam
      PROVE  Lost(r.fam)
  <2>1. CASE row[r.tok] = "fresh"
    BY <1>1, <1>8, <2>1 DEF Chain, Heir
  <2> QED BY <1>1, <1>6, <2>1
<1>9. Named'
  <2>1. ASSUME NEW t \in Tokens, t > issued PROVE row'[t] = "none"
    <3>1. row[t] = "none"
      BY <2>1 DEF Chain, Named
    <3> QED BY <1>1, <1>5, <3>1
  <2>2. ASSUME NEW e \in Devices, NEW k \in Calls
        PROVE  /\ renewal'[e][k].at # "none" => renewal'[e][k].fam # 0
               /\ renewal'[e][k].at \in {"checked", "marked"} =>
                    renewal'[e][k].fam = family[renewal'[e][k].tok]
    BY <1>1, <1>3, <1>4 DEF Chain, Named
  <2> QED BY <1>2, <2>1, <2>2 DEF Chain, Named
<1>10. Heir'
  <2>1. ASSUME NEW e \in Devices, NEW k \in Calls, renewal'[e][k].at = "marked"
        PROVE  /\ row'[renewal'[e][k].tok] # "fresh"
               /\ \A t \in Tokens :
                    row'[t] = "fresh" /\ family[t] = renewal'[e][k].fam => Lost(family[t])
    <3>1. CASE e = d /\ k = c
      BY <1>3, <1>4, <1>5, <1>7, <3>1
    <3>2. CASE ~(e = d /\ k = c)
      <4>1. renewal'[e][k] = renewal[e][k] /\ renewal[e][k].at = "marked"
            /\ renewal[e][k].tok \in Tokens
        BY <1>4, <2>1, <3>2 DEF Flight
      <4>2. \A t \in Tokens : row'[t] = "fresh" => row[t] = "fresh"
        BY <1>5
      <4> QED BY <4>1, <4>2 DEF Chain, Heir
    <3> QED BY <3>1, <3>2
  <2>2. ASSUME NEW e \in Devices, NEW k \in Calls, NEW g \in Devices, NEW i \in Calls,
               ~(g = e /\ i = k), renewal'[e][k].at = "marked", renewal'[g][i].at = "marked",
               renewal'[g][i].fam = renewal'[e][k].fam
        PROVE  \E y \in unheard : family[y] = renewal'[e][k].fam
    <3>1. CASE e = d /\ k = c
      <4>1. renewal'[g][i] = renewal[g][i] /\ renewal'[e][k].fam = r.fam
        BY <1>3, <1>4, <2>2, <3>1
      <4> QED BY <1>8, <2>2, <4>1 DEF Lost
    <3>2. CASE g = d /\ i = c
      <4>1. renewal'[e][k] = renewal[e][k] /\ renewal'[g][i].fam = r.fam
        BY <1>3, <1>4, <2>2, <3>2
      <4> QED BY <1>8, <2>2, <4>1 DEF Lost
    <3>3. CASE ~(e = d /\ k = c) /\ ~(g = d /\ i = c)
      <4>1. renewal'[e][k] = renewal[e][k] /\ renewal'[g][i] = renewal[g][i]
        BY <1>4, <3>3
      <4> QED BY <2>2, <4>1 DEF Chain, Heir, Lost
    <3> QED BY <3>1, <3>2, <3>3
  <2> QED BY <1>2, <2>1, <2>2 DEF Heir, Lost
<1>11. OneUsableToken'
  <2>1. \A t \in Tokens : row'[t] = "fresh" => row[t] = "fresh"
    BY <1>5
  <2> QED BY <1>2, <2>1 DEF Chain, OneUsableToken
<1> QED BY <1>9, <1>10, <1>11 DEF Chain

\* A family that may have one more usable token: a new one, or one with none
\* left, nor a renewal about to make one.
Vacant(f) ==
  \/ f = 0
  \/ Lost(f)
  \/ /\ \A t \in Tokens : row[t] = "fresh" => family[t] # f
     /\ \A d \in Devices, c \in Calls : renewal'[d][c].at = "marked" => renewal'[d][c].fam # f

(***************************************************************************)
(* A token is issued in a vacant family.                                   *)
(***************************************************************************)
LEMMA IssueChain ==
  ASSUME TypeOK, Flight, Known, Owned, Chain,
         NEW f \in Ids, f <= issued, NEW h, IssueTokens(f, h), UNCHANGED unheard,
         \A d \in Devices, c \in Calls :
           /\ renewal'[d][c].at # "none" => renewal'[d][c].fam = renewal[d][c].fam /\ renewal[d][c].at # "none"
           /\ renewal'[d][c].at \in {"checked", "marked"} => renewal'[d][c] = renewal[d][c],
         Vacant(f)
  PROVE  Chain'
<1> DEFINE n == issued + 1
           g == IF f = 0 THEN n ELSE f
<1>1. /\ issued' = n /\ n \in Tokens /\ issued \in Nat /\ row'[n] = "fresh"
      /\ \A t \in Tokens : t # n => row'[t] = row[t] /\ family'[t] = family[t]
  BY IssuedRow
<1>2. family'[n] = g
  BY <1>1 DEF IssueTokens, TypeOK
<1>3. /\ unheard \subseteq Tokens /\ unheard \subseteq 1..issued /\ unheard' = unheard
      /\ \A y \in unheard : family'[y] = family[y]
  BY <1>1 DEF TypeOK, Chain, Named
<1>4. \A t \in Tokens : family[t] \in Nat /\ family[t] <= issued
  BY SessionsAssumption DEF TypeOK, Known
<1>5. \A d \in Devices, c \in Calls :
        /\ renewal[d][c].fam \in Nat /\ renewal[d][c].fam <= issued
        /\ renewal[d][c].tok # n
  <2>1. ASSUME NEW d \in Devices, NEW c \in Calls
        PROVE  /\ renewal[d][c].fam \in Nat /\ renewal[d][c].fam <= issued
               /\ renewal[d][c].tok \in Nat /\ renewal[d][c].tok <= issued
    BY SessionsAssumption DEF TypeOK, RenewalState, Known, Owned, Holds
  <2> QED BY <1>1, <2>1
<1>6. \/ \E y \in unheard : family[y] = g
      \/ /\ \A t \in Tokens : t # n /\ row'[t] = "fresh" => family'[t] # g
         /\ \A d \in Devices, c \in Calls : renewal'[d][c].at = "marked" => renewal'[d][c].fam # g
  <2>1. CASE f = 0
    <3>1. \A t \in Tokens : t # n => family'[t] # g
      BY <1>1, <1>4, <2>1
    <3>2. \A d \in Devices, c \in Calls : renewal'[d][c].at = "marked" => renewal'[d][c].fam # g
      BY <1>1, <1>5, <2>1
    <3> QED BY <3>1, <3>2
  <2>2. CASE f # 0
    BY <1>1, <2>2 DEF Vacant, Lost
  <2> QED BY <2>1, <2>2
<1> HIDE DEF g
<1>7. Named'
  <2>1. \A t \in Tokens : t > n => row'[t] = "none"
    BY <1>1 DEF Chain, Named
  <2>2. ASSUME NEW d \in Devices, NEW c \in Calls
        PROVE  /\ renewal'[d][c].at # "none" => renewal'[d][c].fam # 0
               /\ renewal'[d][c].at \in {"checked", "marked"} =>
                    renewal'[d][c].fam = family'[renewal'[d][c].tok]
    <3>1. renewal[d][c].at # "none" => renewal[d][c].tok \in Tokens
      BY DEF Flight
    <3> QED BY <1>1, <1>5, <3>1 DEF Chain, Named
  <2> QED BY <1>1, <1>3, <2>1, <2>2 DEF Named
<1>8. Heir'
  <2>1. ASSUME NEW d \in Devices, NEW c \in Calls, renewal'[d][c].at = "marked"
        PROVE  /\ renewal'[d][c] = renewal[d][c] /\ renewal[d][c].tok \in Tokens
               /\ renewal[d][c].tok # n
    BY <1>5, <2>1 DEF Flight
  <2>2. ASSUME NEW d \in Devices, NEW c \in Calls, renewal'[d][c].at = "marked"
        PROVE  row'[renewal'[d][c].tok] # "fresh"
    BY <1>1, <2>1, <2>2 DEF Chain, Heir
  <2>3. ASSUME NEW d \in Devices, NEW c \in Calls, renewal'[d][c].at = "marked",
               NEW t \in Tokens, row'[t] = "fresh", family'[t] = renewal'[d][c].fam
        PROVE  \E y \in unheard : family[y] = renewal'[d][c].fam
    <3>1. CASE t = n
      BY <1>2, <1>6, <2>3, <3>1
    <3>2. CASE t # n
      BY <1>1, <2>1, <2>3, <3>2 DEF Chain, Heir, Lost
    <3> QED BY <3>1, <3>2
  <2>4. ASSUME NEW d \in Devices, NEW c \in Calls, NEW e \in Devices, NEW k \in Calls,
               ~(e = d /\ k = c), renewal'[d][c].at = "marked", renewal'[e][k].at = "marked",
               renewal'[e][k].fam = renewal'[d][c].fam
        PROVE  \E y \in unheard : family[y] = renewal'[d][c].fam
    BY <2>1, <2>4 DEF Chain, Heir, Lost
  <2> QED BY <1>3, <2>2, <2>3, <2>4 DEF Heir, Lost
<1>9. OneUsableToken'
  <2>1. ASSUME NEW t \in Tokens, NEW u \in Tokens, t # u, row'[t] = "fresh", row'[u] = "fresh",
               family'[t] = family'[u]
        PROVE  \E y \in unheard : family[y] = family'[t]
    <3>1. CASE t = n
      BY <1>2, <1>6, <2>1, <3>1
    <3>2. CASE u = n
      BY <1>2, <1>6, <2>1, <3>2
    <3>3. CASE t # n /\ u # n
      BY <1>1, <2>1, <3>3 DEF Chain, OneUsableToken
    <3> QED BY <3>1, <3>2, <3>3
  <2> QED BY <1>3, <2>1 DEF OneUsableToken
<1> QED BY <1>7, <1>8, <1>9 DEF Chain

\* A renewal stands still, or is over, or is refused.
LEMMA SettledSo ==
  ASSUME TypeOK, Chain, NEW d \in Devices, NEW c \in Calls,
         \/ renewal'[d][c] = renewal[d][c]
         \/ renewal'[d][c] = NoRenewal
         \/ renewal'[d][c].at \in {"refused", "broken"} /\ renewal'[d][c].fam # 0
  PROVE  Settled(d, c)
BY DEF Settled, NoRenewal, Chain, Named

\* What one renewal does, the others standing still.
LEMMA OthersSettled ==
  ASSUME TypeOK, Chain, NEW d \in Devices, NEW c \in Calls, NEW x,
         renewal' = [renewal EXCEPT ![d][c] = x], Settled(d, c)
  PROVE  \A e \in Devices, k \in Calls : Settled(e, k)
<1>1. \A e \in Devices, k \in Calls : ~(e = d /\ k = c) => renewal'[e][k] = renewal[e][k]
  BY DEF TypeOK
<1> QED BY <1>1, SettledSo

\* A refused renewal marks nothing any more.
LEMMA RefusalSettles ==
  ASSUME TypeOK, Chain, NEW d \in Devices, NEW c \in Calls, renewal[d][c].at # "none",
         NEW at \in {"refused", "broken"}, Answer(d, c, at, 0)
  PROVE  \A e \in Devices, k \in Calls : Settled(e, k)
<1> DEFINE r == renewal[d][c]
           x == IF r.heard THEN [r EXCEPT !.at = at, !.new = 0] ELSE NoRenewal
<1>1. renewal' = [renewal EXCEPT ![d][c] = x] /\ r \in RenewalState /\ r.fam # 0
  BY DEF Answer, TypeOK, Chain, Named
<1>2. renewal'[d][c] = x
  BY <1>1 DEF TypeOK
<1>3. x = NoRenewal \/ (x.at = at /\ x.fam # 0)
  BY <1>1 DEF RenewalState
<1> HIDE DEF x
<1>4. Settled(d, c)
  BY <1>2, <1>3, SettledSo
<1> QED BY <1>1, <1>4, OthersSettled

\* A renewal its device gives up goes on as it was, or is over.
LEMMA AbandonedSettles ==
  ASSUME TypeOK, Chain, NEW d \in Devices, NEW c \in Calls,
         renewal'[d][c] = Abandoned(renewal[d][c])
  PROVE  Settled(d, c)
<1>1. renewal[d][c] \in RenewalState
  BY DEF TypeOK
<1>2. CASE renewal[d][c].at \in {"answered", "refused", "broken"}
  BY <1>2, SettledSo DEF Abandoned
<1>3. CASE renewal[d][c].at \notin {"answered", "refused", "broken"}
  <2> DEFINE x == [renewal[d][c] EXCEPT !.heard = FALSE]
  <2>1. /\ x.at = renewal[d][c].at /\ x.tok = renewal[d][c].tok /\ x.fam = renewal[d][c].fam
        /\ renewal'[d][c] = x
    BY <1>1, <1>3 DEF Abandoned, RenewalState
  <2> HIDE DEF x
  <2> QED BY <2>1 DEF Settled, Chain, Named
<1> QED BY <1>2, <1>3

\* Whatever a step does, the chain of tokens holds.
LEMMA ChainStep == Frame /\ Custody /\ Chain /\ [Next]_vars => Chain'
<1> SUFFICES ASSUME Frame, Custody, Chain, [Next]_vars PROVE Chain'
  OBVIOUS
<1>0. TypeOK /\ Flight /\ Known /\ Flight' /\ Owned /\ unheard \subseteq 1..issued
  BY FrameStep DEF Frame, Custody, Chain, Named
<1> USE DEF server, clock, client, history
<1>a. Plain => Chain'
  BY <1>0, PlainKeeps
<1>b. ASSUME UNCHANGED renewal PROVE \A d \in Devices, c \in Calls : Settled(d, c)
  BY <1>0, <1>b, SettledSo
<1>c. UNCHANGED <<issued, family, row, renewal, unheard>> => Chain'
  BY <1>0, <1>a, <1>b DEF Plain
<1>d. \A d \in Devices, c \in Calls : renewal[d][c].at # "none" =>
        renewal[d][c].tok \in Tokens /\ renewal[d][c].tok \in 1..issued
  BY <1>0, SessionsAssumption DEF Flight, Owned, Holds, TypeOK
<1>e. ASSUME NEW h \in Homes \union {NoHome}, IssueTokens(0, h), UNCHANGED <<renewal, unheard>>
      PROVE  Chain'
  <2>1. 0 \in Ids /\ 0 <= issued /\ Vacant(0)
    BY <1>0, SessionsAssumption DEF Vacant, TypeOK
  <2> QED BY <1>0, <1>e, <2>1, IssueChain
<1>1. ASSUME NEW d \in Devices, NEW c \in Calls, Check(d, c) PROVE Chain'
  <2> DEFINE r == renewal[d][c]
             v == Verdict(r.tok, r.fam)
  <2>1. r.at = "arrived" /\ r.tok \in Tokens /\ r \in RenewalState /\ r.fam # 0
    BY <1>0, <1>1 DEF Check, Flight, TypeOK, Chain, Named
  <2>2. v \in {"refused", "reused", "checked"} /\ (v = "checked" => family[r.tok] = r.fam)
    BY <1>0, <2>1 DEF Verdict, TypeOK
  <2>3. \A e \in Devices, k \in Calls : Settled(e, k)
    <3>1. CASE v = "refused"
      BY <1>0, <1>1, <2>1, <3>1, RefusalSettles DEF Refuse, Check
    <3>2. CASE v # "refused"
      <4> DEFINE x == [r EXCEPT !.at = v]
      <4>1. renewal' = [renewal EXCEPT ![d][c] = x]
        BY <1>0, <1>1, <3>2 DEF Check, Renewal, TypeOK
      <4>2. x.at = v /\ x.tok = r.tok /\ x.fam = r.fam
        BY <2>1 DEF RenewalState
      <4> HIDE DEF x, v
      <4>3. renewal'[d][c] = x
        BY <1>0, <4>1 DEF TypeOK
      <4>4. Settled(d, c)
        BY <2>1, <2>2, <3>2, <4>2, <4>3 DEF Settled
      <4> QED BY <1>0, <4>1, <4>4, OthersSettled
    <3> QED BY <3>1, <3>2
  <2>4. /\ \A t \in Tokens : row'[t] \in {row[t], "none"}
        /\ UNCHANGED <<issued, family, unheard>>
    BY <1>0, <1>1 DEF Check, TypeOK
  <2> QED BY <1>0, <1>a, <2>3, <2>4 DEF Plain
<1>2. ASSUME NEW d \in Devices, NEW c \in Calls, EndFamily(d, c) PROVE Chain'
  <2>1. \A e \in Devices, k \in Calls : Settled(e, k)
    BY <1>0, <1>2, RefusalSettles DEF Refuse, EndFamily
  <2>2. /\ \A t \in Tokens : row'[t] \in {row[t], "none"}
        /\ UNCHANGED <<issued, family, unheard>>
    BY <1>2 DEF EndFamily, DeleteFamily
  <2> QED BY <1>0, <1>a, <2>1, <2>2 DEF Plain
<1>3. ASSUME NEW d \in Devices, NEW c \in Calls, Mark(d, c) PROVE Chain'
  <2>1. CASE row[renewal[d][c].tok] = "none"
    <3>1. /\ Refuse(d, c) /\ renewal[d][c].at # "none"
          /\ UNCHANGED <<row, issued, family, unheard>>
      BY <1>3, <2>1 DEF Mark
    <3>2. \A e \in Devices, k \in Calls : Settled(e, k)
      BY <1>0, <3>1, RefusalSettles DEF Refuse
    <3> QED BY <1>0, <1>a, <3>1, <3>2 DEF Plain
  <2>2. CASE row[renewal[d][c].tok] # "none"
    BY <1>0, <1>3, <2>2, MarkChain
  <2> QED BY <2>1, <2>2
<1>4. ASSUME NEW d \in Devices, NEW c \in Calls, Issue(d, c) PROVE Chain'
  <2> DEFINE r == renewal[d][c]
             x == IF r.heard THEN [r EXCEPT !.at = "answered", !.new = issued + 1]
                  ELSE NoRenewal
  <2>1. /\ r.at = "marked" /\ r.fam \in Ids /\ r.fam <= issued /\ r \in RenewalState
        /\ IssueTokens(r.fam, home) /\ UNCHANGED unheard
        /\ renewal' = [renewal EXCEPT ![d][c] = x]
    BY <1>0, <1>4 DEF Issue, Answer, TypeOK, RenewalState, Known
  <2>2. x.at \in {"answered", "none"} /\ (x.at # "none" => x.fam = r.fam)
    BY <2>1 DEF RenewalState, NoRenewal
  <2> HIDE DEF x
  <2>3. /\ \A e \in Devices, k \in Calls : ~(e = d /\ k = c) => renewal'[e][k] = renewal[e][k]
        /\ renewal'[d][c] = x
    BY <1>0, <2>1 DEF TypeOK
  <2>4. Vacant(r.fam)
    <3>1. CASE Lost(r.fam)
      BY <3>1 DEF Vacant
    <3>2. CASE ~Lost(r.fam)
      <4>1. \A t \in Tokens : row[t] = "fresh" => family[t] # r.fam
        BY <2>1, <3>2 DEF Chain, Heir
      <4>2. ASSUME NEW e \in Devices, NEW k \in Calls, renewal'[e][k].at = "marked"
            PROVE  renewal'[e][k].fam # r.fam
        <5>1. ~(e = d /\ k = c) /\ renewal'[e][k] = renewal[e][k]
          BY <2>2, <2>3, <4>2
        <5> QED BY <2>1, <3>2, <4>2, <5>1 DEF Chain, Heir
      <4> QED BY <4>1, <4>2 DEF Vacant
    <3> QED BY <3>1, <3>2
  <2>5. \A e \in Devices, k \in Calls :
          /\ renewal'[e][k].at # "none" =>
               renewal'[e][k].fam = renewal[e][k].fam /\ renewal[e][k].at # "none"
          /\ renewal'[e][k].at \in {"checked", "marked"} => renewal'[e][k] = renewal[e][k]
    BY <2>1, <2>2, <2>3
  <2> HIDE DEF r
  <2> QED BY <1>0, <2>1, <2>4, <2>5, IssueChain
<1>5. ASSUME NEW d \in Devices, NEW c \in Calls, Break(d, c) PROVE Chain'
  <2>1. /\ Answer(d, c, "broken", 0) /\ renewal[d][c].at # "none"
        /\ UNCHANGED <<row, issued, family>>
        /\ unheard \subseteq unheard' /\ unheard' \subseteq unheard \union {renewal[d][c].tok}
    BY <1>5 DEF Break
  <2>2. \A e \in Devices, k \in Calls : Settled(e, k)
    BY <1>0, <2>1, RefusalSettles
  <2> QED BY <1>0, <1>a, <1>d, <2>1, <2>2 DEF Plain
<1>6. ASSUME NEW d \in Devices, NEW c \in Calls, ServeLogout(d, c) PROVE Chain'
  <2>1. /\ \A t \in Tokens : row'[t] \in {row[t], "none"}
        /\ UNCHANGED <<issued, family, unheard, renewal>>
    BY <1>6 DEF ServeLogout, DeleteFamily
  <2> QED BY <1>0, <1>a, <1>b, <2>1 DEF Plain
<1>7. ASSUME NEW d \in Devices, NEW c \in Calls, Renew(d, c) PROVE Chain'
  <2> DEFINE x == [at |-> "arrived", tok |-> app[d].ref, fam |-> app[d].fam,
                   new |-> 0, heard |-> TRUE]
  <2>1. /\ renewal' = [renewal EXCEPT ![d][c] = x] /\ x.at = "arrived" /\ x.fam # 0
        /\ UNCHANGED <<row, issued, family, unheard>>
    BY <1>7 DEF Renew
  <2> HIDE DEF x
  <2>2. renewal'[d][c] = x
    BY <1>0, <2>1 DEF TypeOK
  <2>3. Settled(d, c)
    BY <2>1, <2>2 DEF Settled
  <2>4. \A e \in Devices, k \in Calls : Settled(e, k)
    BY <1>0, <2>1, <2>3, OthersSettled
  <2> QED BY <1>0, <1>a, <2>1, <2>4 DEF Plain
<1>8. ASSUME NEW d \in Devices, NEW c \in Calls, Renewed(d, c) \/ NotRenewed(d, c) PROVE Chain'
  <2>1. /\ renewal' = [renewal EXCEPT ![d][c] = NoRenewal]
        /\ UNCHANGED <<row, issued, family, unheard>>
    BY <1>8 DEF Renewed, NotRenewed
  <2>2. renewal'[d][c] = NoRenewal
    BY <1>0, <2>1 DEF TypeOK
  <2>3. \A e \in Devices, k \in Calls : Settled(e, k)
    BY <1>0, <2>1, <2>2, SettledSo, OthersSettled
  <2> QED BY <1>0, <1>a, <2>1, <2>3 DEF Plain
<1>9. ASSUME NEW d \in Devices, NEW c \in Calls, TimeOut(d, c) PROVE Chain'
  <2> DEFINE x == Abandoned(renewal[d][c])
  <2>1. /\ renewal' = [renewal EXCEPT ![d][c] = x] /\ renewal[d][c].at # "none"
        /\ unheard' = unheard \union {renewal[d][c].tok}
        /\ UNCHANGED <<row, issued, family>>
    BY <1>0, <1>9 DEF TimeOut, TypeOK, Flight
  <2> HIDE DEF x
  <2>2. renewal'[d][c] = x
    BY <1>0, <2>1 DEF TypeOK
  <2>3. Settled(d, c)
    BY <1>0, <2>2, AbandonedSettles DEF x
  <2>4. \A e \in Devices, k \in Calls : Settled(e, k)
    BY <1>0, <2>1, <2>3, OthersSettled
  <2> QED BY <1>0, <1>a, <1>d, <2>1, <2>4 DEF Plain
<1>10. ASSUME NEW d \in Devices, Restart(d) PROVE Chain'
  <2>1. /\ unheard' = unheard \union
                        {renewal[d][c].tok : c \in {k \in Calls : renewal[d][k].heard}}
        /\ UNCHANGED <<row, issued, family>>
    BY <1>10 DEF Restart
  <2>2. /\ \A c \in Calls : renewal'[d][c] = Abandoned(renewal[d][c])
        /\ \A e \in Devices, k \in Calls : e # d => renewal'[e][k] = renewal[e][k]
    BY <1>0, <1>10 DEF Restart, TypeOK
  <2>3. \A e \in Devices, k \in Calls : Settled(e, k)
    BY <1>0, <2>2, AbandonedSettles, SettledSo
  <2>4. unheard' \subseteq 1..issued
    <3>1. \A c \in Calls : renewal[d][c].heard => renewal[d][c].tok \in 1..issued
      BY <1>0, <1>d DEF Flight
    <3> QED BY <1>0, <2>1, <3>1
  <2>5. unheard \subseteq unheard'
    BY <2>1
  <2>6. Plain
    BY <1>0, <2>1, <2>3, <2>4, <2>5 DEF Plain
  <2> QED BY <1>a, <2>6
<1>11. ASSUME NEW d \in Devices, Login(d) PROVE Chain'
  BY <1>0, <1>e, <1>11 DEF Login, TypeOK
<1>12. ASSUME NEW d \in Devices, NEW heard \in Heard, DissolveHome(d, heard) PROVE Chain'
  BY <1>e, <1>12 DEF DissolveHome
<1>13. ASSUME NEW d \in Devices, NEW heard \in Heard, NEW h \in Homes, EnterHome(d, h, heard)
       PROVE  Chain'
  BY <1>e, <1>13 DEF EnterHome
<1>14. ASSUME CleanUp PROVE Chain'
  <2>1. /\ \A t \in Tokens : row'[t] \in {row[t], "none"}
        /\ UNCHANGED <<issued, family, unheard, renewal>>
    BY <1>14 DEF CleanUp
  <2> QED BY <1>0, <1>a, <1>b, <2>1 DEF Plain
<1>15. ASSUME NEW d \in Devices, NEW c \in Calls,
              \/ Serve(d, c) \/ GiveUp(d, c) \/ Send(d, c) \/ SignOut(d, c) \/ Lose(d, c)
              \/ Clear(d, c)
       PROVE  Chain'
  BY <1>15, <1>c DEF Serve, GiveUp, Send, SignOut, Lose, Clear
<1>16. ASSUME RemovedFromHome PROVE Chain'
  BY <1>16, <1>c DEF RemovedFromHome
<1>17. ASSUME NEW t \in Tokens, ExpireAccess(t) \/ ExpireRefresh(t) PROVE Chain'
  BY <1>17, <1>c DEF ExpireAccess, ExpireRefresh
<1>18. CASE UNCHANGED vars
  BY <1>18, <1>c DEF vars
<1> QED
  BY <1>1, <1>2, <1>3, <1>4, <1>5, <1>6, <1>7, <1>8, <1>9, <1>10, <1>11, <1>12, <1>13, <1>14,
     <1>15, <1>16, <1>17, <1>18 DEF Next, ServerStep, ClientStep

(***************************************************************************)
(* Rotation works: refresh (auth.service.ts:234-243) leaves a family with  *)
(* one token that can be renewed, although it marks the old one and issues *)
(* the next in separate statements, and two renewals of one token may both *)
(* pass the check; that takes an answer the device did not hear.           *)
(***************************************************************************)
THEOREM OneTokenPerFamily == Spec => []OneUsableToken
<1>1. IInv => Frame
  BY DEF IInv
<1>2. Chain => OneUsableToken
  BY DEF Chain
<1> QED
  BY <1>1, <1>2, ChainStart, ChainStep, CustodyStart, CustodyStep, Inductive, PTL DEF Spec

-----------------------------------------------------------------------------
(***************************************************************************)
(* Why a renewal is refused: a row is missing for a reason (Gone), and a   *)
(* token found used takes its family with it.                              *)
(***************************************************************************)
Caused(d, c) ==
  LET r == renewal[d][c] IN
  r.at = "refused" => r.tok \in old \/ family[r.tok] \in revoked \/ family[r.tok] # r.fam

Causes == \A d \in Devices, c \in Calls : Caused(d, c)

\* A cause remains one, for families of issued tokens and the past stay.
LEMMA CausesKept ==
  ASSUME Flight, Owned, Causes,
         old \subseteq old', revoked \subseteq revoked',
         \A t \in Tokens : t <= issued => family'[t] = family[t],
         \A d \in Devices, c \in Calls :
           \/ renewal'[d][c] = renewal[d][c] \/ renewal'[d][c].at # "refused"
           \/ Caused(d, c)'
  PROVE  Causes'
<1>1. ASSUME NEW d \in Devices, NEW c \in Calls, renewal'[d][c] = renewal[d][c],
             renewal[d][c].at = "refused"
      PROVE  Caused(d, c)'
  <2>1. renewal[d][c].tok \in Tokens /\ renewal[d][c].tok <= issued
    BY <1>1 DEF Flight, Owned, Holds
  <2>2. Caused(d, c)
    BY DEF Causes
  <2> QED BY <1>1, <2>1, <2>2 DEF Caused
<1>2. \A d \in Devices, c \in Calls : renewal'[d][c].at # "refused" => Caused(d, c)'
  BY DEF Caused
<1>3. \A d \in Devices, c \in Calls : Caused(d, c)'
  <2> SUFFICES ASSUME NEW d \in Devices, NEW c \in Calls PROVE Caused(d, c)'
    OBVIOUS
  <2> QED BY <1>1, <1>2
<1> QED BY <1>3 DEF Causes

\* Only the renewals of d and c move, and if they are refused there is a cause.
LEMMA CauseOfOne ==
  ASSUME TypeOK, NEW d \in Devices, NEW c \in Calls, NEW x,
         renewal' = [renewal EXCEPT ![d][c] = x],
         x.at # "refused" \/ Caused(d, c)'
  PROVE  \A e \in Devices, k \in Calls :
           \/ renewal'[e][k] = renewal[e][k] \/ renewal'[e][k].at # "refused"
           \/ Caused(e, k)'
<1>1. /\ \A e \in Devices, k \in Calls : ~(e = d /\ k = c) => renewal'[e][k] = renewal[e][k]
      /\ renewal'[d][c] = x
  BY DEF TypeOK
<1> QED BY <1>1

\* A refusal keeps what the request named.
LEMMA RefusalNames ==
  ASSUME TypeOK, NEW d \in Devices, NEW c \in Calls, Refuse(d, c),
         LET r == renewal[d][c] IN
         r.tok \in old' \/ family'[r.tok] \in revoked' \/ family'[r.tok] # r.fam
  PROVE  \A e \in Devices, k \in Calls :
           \/ renewal'[e][k] = renewal[e][k] \/ renewal'[e][k].at # "refused"
           \/ Caused(e, k)'
<1> DEFINE r == renewal[d][c]
           x == IF r.heard THEN [r EXCEPT !.at = "refused", !.new = 0] ELSE NoRenewal
<1>1. renewal' = [renewal EXCEPT ![d][c] = x] /\ r \in RenewalState
  BY DEF Refuse, Answer, TypeOK
<1>2. renewal'[d][c] = x
  BY <1>1 DEF TypeOK
<1>3. x.at # "refused" \/ (x.tok = r.tok /\ x.fam = r.fam)
  BY <1>1 DEF RenewalState, NoRenewal
<1> HIDE DEF x
<1>4. x.at # "refused" \/ Caused(d, c)'
  BY <1>2, <1>3 DEF Caused
<1> QED BY <1>1, <1>4, CauseOfOne

\* A renewal its device gives up is over, or waits for its answer.
LEMMA AbandonedUnrefused ==
  ASSUME TypeOK
  PROVE  \A d \in Devices, c \in Calls : Abandoned(renewal[d][c]).at # "refused"
<1> SUFFICES ASSUME NEW d \in Devices, NEW c \in Calls
             PROVE  Abandoned(renewal[d][c]).at # "refused"
  OBVIOUS
<1>1. renewal[d][c] \in RenewalState
  BY DEF TypeOK
<1> QED BY <1>1 DEF Abandoned, NoRenewal, RenewalState

\* Whatever a step does, a renewal is refused for a cause only.
LEMMA CauseStep == Frame /\ Custody /\ Causes /\ [Next]_vars => Causes'
<1> SUFFICES ASSUME Frame, Custody, Causes, [Next]_vars PROVE Causes'
  OBVIOUS
<1>0. TypeOK /\ Flight /\ Known /\ Owned
  BY DEF Frame, Custody
<1> USE DEF server, clock, client, history
<1> DEFINE Moves == \A d \in Devices, c \in Calls :
             \/ renewal'[d][c] = renewal[d][c] \/ renewal'[d][c].at # "refused"
             \/ Caused(d, c)'
<1>a. Moves /\ UNCHANGED family /\ old \subseteq old' /\ revoked \subseteq revoked'
        => Causes'
  BY <1>0, CausesKept
<1>b. UNCHANGED <<family, renewal>> /\ old \subseteq old' /\ revoked \subseteq revoked'
        => Causes'
  BY <1>a
<1>c. ASSUME NEW f, NEW h, IssueTokens(f, h), UNCHANGED <<old, revoked>>, Moves
      PROVE  Causes'
  <2>1. \A t \in Tokens : t <= issued => family'[t] = family[t]
    BY <1>0, <1>c, IssuedRow DEF TypeOK
  <2> QED BY <1>0, <1>c, <2>1, CausesKept
<1>1. ASSUME NEW d \in Devices, NEW c \in Calls, Check(d, c) PROVE Causes'
  <2> DEFINE r == renewal[d][c]
             v == Verdict(r.tok, r.fam)
  <2>1. r.at = "arrived" /\ r.tok \in Tokens /\ r.tok <= issued /\ r \in RenewalState
    BY <1>0, <1>1 DEF Check, Flight, TypeOK, Owned, Holds
  <2>2. /\ v \in {"refused", "reused", "checked"}
        /\ v = "refused" =>
             r.tok \in old \/ family[r.tok] \in revoked \/ family[r.tok] # r.fam
    BY <1>0, <2>1 DEF Verdict, TypeOK, Custody, Gone
  <2>3. UNCHANGED <<family, old, revoked>>
    BY <1>1 DEF Check
  <2>4. CASE v = "refused"
    <3>1. Refuse(d, c)
      BY <1>1, <2>4 DEF Check
    <3>2. Moves
      BY <1>0, <2>2, <2>3, <2>4, <3>1, RefusalNames
    <3> QED BY <1>a, <2>3, <3>2
  <2>5. CASE v # "refused"
    <3> DEFINE x == [r EXCEPT !.at = v]
    <3>1. renewal' = [renewal EXCEPT ![d][c] = x] /\ x.at = v
      BY <1>0, <1>1, <2>1, <2>5 DEF Check, Renewal, TypeOK, RenewalState
    <3> HIDE DEF x
    <3>2. Moves
      BY <1>0, <2>5, <3>1, CauseOfOne
    <3> QED BY <1>a, <2>3, <3>2
  <2> QED BY <2>4, <2>5
<1>2. ASSUME NEW d \in Devices, NEW c \in Calls, EndFamily(d, c) PROVE Causes'
  <2>1. /\ Refuse(d, c) /\ UNCHANGED <<family, old>>
        /\ revoked' = revoked \union {renewal[d][c].fam}
    BY <1>2 DEF EndFamily, DeleteFamily
  <2>2. Moves
    BY <1>0, <2>1, RefusalNames
  <2> QED BY <1>a, <2>1, <2>2
<1>3. ASSUME NEW d \in Devices, NEW c \in Calls, Mark(d, c) PROVE Causes'
  <2> DEFINE r == renewal[d][c]
  <2>1. r.at = "checked" /\ r.tok \in Tokens /\ r.tok <= issued /\ r \in RenewalState
    BY <1>0, <1>3 DEF Mark, Flight, TypeOK, Owned, Holds
  <2>2. UNCHANGED <<family, old, revoked>>
    BY <1>3 DEF Mark
  <2>3. CASE row[r.tok] = "none"
    <3>1. Refuse(d, c)
      BY <1>3, <2>3 DEF Mark
    <3>2. r.tok \in old' \/ family'[r.tok] \in revoked'
      BY <2>1, <2>2, <2>3 DEF Custody, Gone
    <3>3. Moves
      BY <1>0, <3>1, <3>2, RefusalNames
    <3> QED BY <1>a, <2>2, <3>3
  <2>4. CASE row[r.tok] # "none"
    <3> DEFINE x == [r EXCEPT !.at = "marked"]
    <3>1. renewal' = [renewal EXCEPT ![d][c] = x] /\ x.at = "marked"
      BY <1>0, <1>3, <2>1, <2>4 DEF Mark, Renewal, TypeOK, RenewalState
    <3> HIDE DEF x
    <3>2. Moves
      BY <1>0, <3>1, CauseOfOne
    <3> QED BY <1>a, <2>2, <3>2
  <2> QED BY <2>3, <2>4
<1>4. ASSUME NEW d \in Devices, NEW c \in Calls, Issue(d, c) PROVE Causes'
  <2> DEFINE r == renewal[d][c]
             x == IF r.heard THEN [r EXCEPT !.at = "answered", !.new = issued + 1]
                  ELSE NoRenewal
  <2>1. /\ IssueTokens(r.fam, home) /\ UNCHANGED <<old, revoked>>
        /\ renewal' = [renewal EXCEPT ![d][c] = x] /\ r \in RenewalState
    BY <1>0, <1>4 DEF Issue, Answer, TypeOK
  <2>2. x.at # "refused"
    BY <2>1 DEF RenewalState, NoRenewal
  <2> HIDE DEF x
  <2>3. Moves
    BY <1>0, <2>1, <2>2, CauseOfOne
  <2> QED BY <1>c, <2>1, <2>3
<1>5. ASSUME NEW d \in Devices, NEW c \in Calls, Renew(d, c) PROVE Causes'
  <2> DEFINE x == [at |-> "arrived", tok |-> app[d].ref, fam |-> app[d].fam,
                   new |-> 0, heard |-> TRUE]
  <2>1. /\ renewal' = [renewal EXCEPT ![d][c] = x] /\ x.at # "refused"
        /\ UNCHANGED <<family, old, revoked>>
    BY <1>5 DEF Renew
  <2> HIDE DEF x
  <2>2. Moves
    BY <1>0, <2>1, CauseOfOne
  <2> QED BY <1>a, <2>1, <2>2
<1>6. ASSUME NEW d \in Devices, NEW c \in Calls, Renewed(d, c) \/ NotRenewed(d, c) PROVE Causes'
  <2>1. /\ renewal' = [renewal EXCEPT ![d][c] = NoRenewal] /\ NoRenewal.at # "refused"
        /\ UNCHANGED <<family, old, revoked>>
    BY <1>6 DEF Renewed, NotRenewed, NoRenewal
  <2>2. Moves
    BY <1>0, <2>1, CauseOfOne
  <2> QED BY <1>a, <2>1, <2>2
<1>7. ASSUME NEW d \in Devices, NEW c \in Calls, ServeLogout(d, c) PROVE Causes'
  BY <1>7, <1>b DEF ServeLogout, DeleteFamily
<1>8. ASSUME NEW d \in Devices, Login(d) PROVE Causes'
  BY <1>8, <1>c DEF Login
<1>9. ASSUME NEW d \in Devices, NEW heard \in Heard, DissolveHome(d, heard) PROVE Causes'
  BY <1>9, <1>c DEF DissolveHome
<1>10. ASSUME NEW d \in Devices, NEW heard \in Heard, NEW h \in Homes, EnterHome(d, h, heard)
       PROVE  Causes'
  BY <1>10, <1>c DEF EnterHome
<1>11. ASSUME NEW d \in Devices, NEW c \in Calls,
              \/ Serve(d, c) \/ GiveUp(d, c) \/ Send(d, c) \/ SignOut(d, c) \/ Clear(d, c) \/ Lose(d, c)
       PROVE  Causes'
  BY <1>11, <1>b DEF Serve, GiveUp, Send, SignOut, Clear, Lose
<1>12. ASSUME RemovedFromHome \/ CleanUp PROVE Causes'
  BY <1>12, <1>b DEF RemovedFromHome, CleanUp
<1>13. ASSUME NEW t \in Tokens, ExpireAccess(t) \/ ExpireRefresh(t) PROVE Causes'
  BY <1>13, <1>b DEF ExpireAccess, ExpireRefresh
<1>14. ASSUME NEW d \in Devices, NEW c \in Calls, Break(d, c) PROVE Causes'
  <2> DEFINE r == renewal[d][c]
             x == IF r.heard THEN [r EXCEPT !.at = "broken", !.new = 0] ELSE NoRenewal
  <2>1. /\ renewal' = [renewal EXCEPT ![d][c] = x] /\ r \in RenewalState
        /\ UNCHANGED <<family, old, revoked>>
    BY <1>0, <1>14 DEF Break, Answer, TypeOK
  <2>2. x.at # "refused"
    BY <2>1 DEF RenewalState, NoRenewal
  <2> HIDE DEF x
  <2>3. Moves
    BY <1>0, <2>1, <2>2, CauseOfOne
  <2> QED BY <1>a, <2>1, <2>3
<1>15. ASSUME NEW d \in Devices, NEW c \in Calls, TimeOut(d, c) PROVE Causes'
  <2> DEFINE x == Abandoned(renewal[d][c])
  <2>1. /\ renewal' = [renewal EXCEPT ![d][c] = x]
        /\ UNCHANGED <<family, old, revoked>>
    BY <1>0, <1>15 DEF TimeOut, TypeOK
  <2>2. x.at # "refused"
    BY <1>0, AbandonedUnrefused
  <2> HIDE DEF x
  <2>3. Moves
    BY <1>0, <2>1, <2>2, CauseOfOne
  <2> QED BY <1>a, <2>1, <2>3
<1>16. ASSUME NEW d \in Devices, Restart(d) PROVE Causes'
  <2>1. /\ renewal' = [renewal EXCEPT ![d] = [c \in Calls |-> Abandoned(@[c])]]
        /\ UNCHANGED <<family, old, revoked>>
    BY <1>16 DEF Restart
  <2>2. \A e \in Devices, k \in Calls :
          \/ renewal'[e][k] = renewal[e][k]
          \/ renewal'[e][k] = Abandoned(renewal[e][k])
    BY <1>0, <2>1 DEF TypeOK
  <2>3. \A e \in Devices, k \in Calls : Abandoned(renewal[e][k]).at # "refused"
    BY <1>0, AbandonedUnrefused
  <2>4. Moves
    BY <2>2, <2>3
  <2> QED BY <1>a, <2>1, <2>4
<1>17. CASE UNCHANGED vars
  BY <1>17, <1>b DEF vars
<1> QED
  BY <1>1, <1>2, <1>3, <1>4, <1>5, <1>6, <1>7, <1>8, <1>9, <1>10, <1>11, <1>12, <1>13, <1>14,
     <1>15, <1>16, <1>17 DEF Next, ServerStep, ClientStep

(***************************************************************************)
(* Whatever overlaps or gets lost, refresh (auth.service.ts:200-232)       *)
(* refuses a token that expired, one of a revoked family, and one the      *)
(* device presents with another family: requests that overlap, sign-outs,  *)
(* clean-up, timeouts and restarts give it no other reason.                *)
(***************************************************************************)
THEOREM RefusalsForCause == Spec => []RefusedForCause
<1>1. IInv => Frame
  BY DEF IInv
<1>2. Init => Causes
  BY DEF Init, Causes, Caused, NoRenewal
<1>3. Causes => RefusedForCause
  BY DEF Causes, Caused, RefusedForCause
<1> QED
  BY <1>1, <1>2, <1>3, CauseStep, CustodyStart, CustodyStep, Inductive, PTL DEF Spec

=============================================================================
