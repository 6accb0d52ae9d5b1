------------------------------ MODULE Sessions ------------------------------
(* A paired phone's sign-in: the household's rotating pair of tokens       *)
(* (src/server/auth.ts, refreshSession) and the phone that keeps it        *)
(* renewed over routes that lose answers (src/lib/companion-session.ts,    *)
(* src/lib/companion-request.ts).                                          *)
EXTENDS Integers, Sequences, FiniteSets

CONSTANTS
  Requests,    \* what the phone asks for at once
  Routes,      \* how many routes the phone tries, one after another
  Timeout,     \* REFRESH_TIMEOUT_MS, in ticks
  Grace,       \* REFRESH_REUSE_GRACE_MS
  MaxTime, MaxPairings, MaxExpiries, MaxTroubles

ASSUME SessionsAssumption ==
  /\ {Routes, Timeout, Grace} \subseteq Nat \ {0}
  /\ {MaxTime, MaxPairings, MaxExpiries, MaxTroubles} \subseteq Nat

\* REFRESH_TIMEOUT_MS and REFRESH_REUSE_GRACE_MS: 5 s and 10 s.
ASSUME TimeoutAssumption == Timeout <= Grace

\* A bearer and the refresh token issued with it are one number, in the order
\* of issue.  A pairing is a number too: the sign-in a claim made.
SignIns  == [current : Nat, previous : Nat, until : Nat, revoked : BOOLEAN]
Calls    == [by : {"renewal", "unpairing"}, token : Nat,
             stage : {"sent", "read", "answered", "lost", "failed", "gone"}, start : Nat,
             due : Nat, row : Nat, replaces : Nat, retry : BOOLEAN, answer : Nat, open : BOOLEAN, slow : BOOLEAN]
Held     == [pairing : Nat, token : Nat]
Asked    == [at : {"idle", "ahead", "sent", "waits", "again"}, bearer : Nat]
Renewals == [at : {"off", "asking", "saving"}, pairing : Nat, token : Nat, route : Nat]
Unpairings == [at : {"off", "forgetting", "asking", "deleting"}, pairing : Nat, token : Nat,
               route : Nat, alone : BOOLEAN]

VARIABLES
  now,       \* the clock, in ticks
  signIns,   \* the Session rows of the pairings so far
  issued,    \* how many pairs of tokens there have been
  expired,   \* the bearers that run out within the minute
  bought,    \* the refresh tokens that bought a pair, and when
  calls,     \* the refresh calls so far, those done with the same as each other
  mem,       \* the pairing and session the phone works with, 0 for none
  disk,      \* the ones its secure storage holds
  request,   \* what each request is at
  renewal,   \* the one renewal in flight
  unpairing, \* the revocation in the background after "Unpair this phone"
  ended,     \* the pairings a person ended
  left,      \* pairings the phone was unpaired from, and whether no renewal was in flight
  faults,
  strained   \* a call outlived its timeout, a proxy hid an answer, or the app was
             \* launched again

server == <<signIns, issued, bought>>
phone  == <<mem, disk, request, renewal, unpairing>>
people == <<ended, left, expired>>
vars   == <<now, server, calls, phone, people, faults, strained>>

Nobody == [pairing |-> 0, token |-> 0]
Idle   == [at |-> "idle", bearer |-> 0]
NoRenewal   == [at |-> "off", pairing |-> 0, token |-> 0, route |-> 0]
Gone   == [by |-> "renewal", token |-> 0, stage |-> "gone", start |-> 0, due |-> 0, row |-> 0, replaces |-> 0,
           retry |-> FALSE, answer |-> 0, open |-> FALSE, slow |-> FALSE]
NoUnpairing == [at |-> "off", pairing |-> 0, token |-> 0, route |-> 0, alone |-> FALSE]

TypeOK ==
  /\ now \in Nat /\ issued \in Nat /\ faults \in Nat /\ strained \in BOOLEAN
  /\ signIns \in Seq(SignIns) /\ calls \in Seq(Calls)
  /\ bought \in Seq([token : Nat, start : Nat])
  /\ mem \in Held /\ disk \in Held /\ (mem.pairing = 0 <=> mem.token = 0)
  /\ request \in [Requests -> Asked]
  /\ renewal \in Renewals /\ unpairing \in Unpairings
  /\ ended \subseteq Nat /\ expired \subseteq Nat
  /\ left \subseteq [pairing : Nat, alone : BOOLEAN]

Init ==
  /\ now = 0 /\ signIns = <<>> /\ issued = 0 /\ bought = <<>> /\ expired = {} /\ calls = <<>>
  /\ mem = Nobody /\ disk = Nobody
  /\ request = [r \in Requests |-> Idle]
  /\ renewal = NoRenewal /\ unpairing = NoUnpairing
  /\ ended = {} /\ left = {} /\ faults = 0 /\ strained = FALSE

\* Faults and pairings come out of one budget.
Spare == faults + Len(signIns) < MaxTroubles
Fault == Spare /\ faults' = faults + 1

----------------------------------------------------------------------------
(* The household: refreshSession                                           *)

CurrentOf(t)  == {p \in DOMAIN signIns : signIns[p].current = t}
PreviousOf(t) == {p \in DOMAIN signIns : signIns[p].previous = t}

Revoke(p) == [signIns EXCEPT ![p].revoked = TRUE]

\* What became of a call; of the handling of it nothing remains.
Outcome(call, stage, t) ==
  [call EXCEPT !.stage = stage, !.answer = t, !.start = 0, !.row = 0, !.replaces = 0, !.retry = FALSE]

\* The answer goes to the phone, if that still waits for it.
Answer(c, t) ==
  calls' = [calls EXCEPT ![c] = IF @.open THEN Outcome(@, "answered", t) ELSE Gone]

Refuse(c) == Answer(c, 0)

\* The handler reads the clock and the row, and decides.  A replaced token
\* whose grace is over ends the sign-in.
Arrive(c) ==
  LET t == calls[c].token
      grace == {p \in PreviousOf(t) : signIns[p].until > now}
      Begin(p, retry) ==
        IF signIns[p].revoked
          THEN Refuse(c)
          ELSE calls' = [calls EXCEPT ![c] = [@ EXCEPT !.stage = "read", !.start = now, !.retry = retry,
                                              !.row = p, !.replaces = signIns[p].current]]
  IN  /\ calls[c].stage = "sent"
      /\ \/ \E p \in CurrentOf(t) : Begin(p, FALSE) /\ UNCHANGED signIns
         \/ /\ CurrentOf(t) = {}
            /\ \E p \in grace : Begin(p, TRUE) /\ UNCHANGED signIns
         \/ /\ CurrentOf(t) = {}
            /\ \E p \in PreviousOf(t) \ grace : Refuse(c) /\ signIns' = Revoke(p)
         \/ /\ CurrentOf(t) \cup PreviousOf(t) = {}
            /\ Refuse(c) /\ UNCHANGED signIns
      /\ UNCHANGED <<now, issued, bought, phone, people, faults, strained>>

\* Replaces the pair on the row, when it is one of these.
RotateAmong(c, rows) ==
  LET call == calls[c]
      new  == issued + 1
  IN  /\ call.stage = "read"
      /\ IF call.row \in rows
           THEN /\ signIns' = [signIns EXCEPT ![call.row] =
                     [@ EXCEPT !.current = new, !.previous = call.token,
                               !.until = call.start + IF call.retry THEN 0 ELSE Grace]]
                /\ issued' = new
                /\ bought' = Append(bought, [token |-> call.token, start |-> call.start])
                /\ Answer(c, new)
           ELSE Refuse(c) /\ UNCHANGED server
      /\ UNCHANGED <<now, phone, people, faults, strained>>

\* The update without one of its conditions.
RotateStale(c)   == RotateAmong(c, {p \in DOMAIN signIns : ~signIns[p].revoked})
RotateRevoked(c) == RotateAmong(c, CurrentOf(calls[c].replaces))

\* The update goes by the row as it was read: its token, and not revoked.
Rotate(c) == RotateAmong(c, {p \in CurrentOf(calls[c].replaces) : ~signIns[p].revoked})

\* Someone signs the phone out, changes the password or revokes the phone.
EndSignIn(p) ==
  /\ p \in DOMAIN signIns /\ ~signIns[p].revoked
  /\ signIns' = Revoke(p)
  /\ ended' = ended \cup {p}
  /\ UNCHANGED <<now, issued, bought, calls, phone, left, expired, faults, strained>>

\* A bearer the household takes, and one it may refuse by now.
Accepts(t)   == \E p \in CurrentOf(t) : ~signIns[p].revoked
MayRefuse(t) == ~Accepts(t) \/ t \in expired

----------------------------------------------------------------------------
(* The phone's refresh calls: createCompanionRequest                       *)

Call(by, t) == [by |-> by, token |-> t, stage |-> "sent", start |-> 0, due |-> now + Timeout, row |-> 0,
                replaces |-> 0, retry |-> FALSE, answer |-> 0, open |-> TRUE, slow |-> FALSE]

\* The phone is done with a call; the household need not be.
Closed(call) ==
  IF call.stage \in {"answered", "lost", "failed"} THEN Gone
  ELSE [call EXCEPT !.open = FALSE, !.due = 0, !.slow = FALSE]

Close(c) == [calls EXCEPT ![c] = Closed(@)]

Answered(c, by) == calls[c].open /\ calls[c].by = by /\ calls[c].stage = "answered"

\* No answer came within the timeout, or one that says nothing of the token.
Unanswered(c, by) ==
  /\ calls[c].open /\ calls[c].by = by
  /\ calls[c].stage \in {"lost", "failed"} \/ (calls[c].slow /\ now = calls[c].due)

\* A route that gave no answer is followed by the next.
Another(c, route) == calls[c].stage # "failed" /\ route < Routes

\* The requests that wait for the renewal go on, once it ended this way: with
\* a new bearer, with a refusal, or with no answer.
Resume(outcome, bearer) ==
  request' = [r \in Requests |->
    IF request[r].at = "ahead" /\ outcome # "refused" THEN [at |-> "sent", bearer |-> bearer]
    ELSE IF request[r].at = "waits" /\ outcome = "renewed" THEN [at |-> "again", bearer |-> bearer]
    ELSE IF request[r].at \in {"ahead", "waits"} THEN Idle
    ELSE request[r]]

----------------------------------------------------------------------------
(* A request, and the renewal it may need                                  *)

\* renew: joins the renewal in flight, or starts one.
Renew(r, waits) ==
  /\ request' = [request EXCEPT ![r] = [at |-> waits, bearer |-> 0]]
  /\ IF renewal.at = "off"
       THEN /\ renewal' = [at |-> "asking", pairing |-> mem.pairing, token |-> mem.token, route |-> 1]
            /\ calls' = Append(calls, Call("renewal", mem.token))
       ELSE UNCHANGED <<renewal, calls>>

\* A bearer about to run out is renewed before the request is sent.
Ask(r) ==
  /\ request[r].at = "idle" /\ mem.pairing # 0
  /\ IF mem.token \in expired
       THEN Renew(r, "ahead")
       ELSE /\ request' = [request EXCEPT ![r] = [at |-> "sent", bearer |-> mem.token]]
            /\ UNCHANGED <<renewal, calls>>
  /\ UNCHANGED <<now, server, mem, disk, unpairing, people, faults, strained>>

\* The request is answered, fails, or is refused a second time.
Finish(r) ==
  /\ request[r].at \in {"sent", "again"}
  /\ request' = [request EXCEPT ![r] = Idle]
  /\ UNCHANGED <<now, server, calls, mem, disk, renewal, unpairing, people, faults, strained>>

\* The household answers 401: the bearer is renewed, unless it already was.
Refused(r) ==
  /\ request[r].at = "sent" /\ MayRefuse(request[r].bearer)
  /\ mem.pairing # 0
  /\ IF mem.token = request[r].bearer
       THEN Renew(r, "waits")
       ELSE /\ request' = [request EXCEPT ![r] = [at |-> "again", bearer |-> mem.token]]
            /\ UNCHANGED <<renewal, calls>>
  /\ UNCHANGED <<now, server, mem, disk, unpairing, people, faults, strained>>

\* The phone still holds what it asked the renewal for.
StillHeld == mem = [pairing |-> renewal.pairing, token |-> renewal.token]

\* The new session is held at once, and stored after.
Renewed(c) ==
  /\ Answered(c, "renewal") /\ calls[c].answer # 0
  /\ calls' = Close(c)
  /\ IF StillHeld
       THEN /\ mem' = [mem EXCEPT !.token = calls[c].answer]
            /\ renewal' = [renewal EXCEPT !.at = "saving", !.token = calls[c].answer]
            /\ UNCHANGED request
       ELSE /\ renewal' = NoRenewal
            /\ Resume("renewed", mem.token)
            /\ UNCHANGED mem
  /\ UNCHANGED <<now, server, disk, unpairing, people, faults, strained>>

\* vault.saveSession: storage may fail to keep it.
Save ==
  /\ renewal.at = "saving"
  /\ \/ disk' = [disk EXCEPT !.token = renewal.token] /\ UNCHANGED faults
     \/ UNCHANGED disk /\ Fault
  /\ renewal' = NoRenewal
  /\ Resume("renewed", mem.token)
  /\ UNCHANGED <<now, server, calls, mem, unpairing, people, strained>>

\* vault.forget, which may fail.
Forget ==
  \/ disk' = Nobody /\ UNCHANGED faults
  \/ UNCHANGED disk /\ Fault

\* A refused token means the household ended the pairing, when the phone
\* still holds it.
RenewalRefusedIf(c, held) ==
  /\ Answered(c, "renewal") /\ calls[c].answer = 0
  /\ calls' = Close(c)
  /\ renewal' = NoRenewal
  /\ Resume("refused", 0)
  /\ IF held THEN mem' = Nobody /\ Forget ELSE UNCHANGED <<mem, disk, faults>>
  /\ UNCHANGED <<now, server, unpairing, people, strained>>

RenewalRefusedAlways(c) == RenewalRefusedIf(c, TRUE)

RenewalRefused(c) == RenewalRefusedIf(c, StillHeld)

\* The next route, with the same token; after the last one, the session is
\* left as it is.
RenewalUnanswered(c) ==
  /\ Unanswered(c, "renewal")
  /\ IF Another(c, renewal.route)
       THEN /\ renewal' = [renewal EXCEPT !.route = @ + 1]
            /\ calls' = Append(Close(c), Call("renewal", renewal.token))
            /\ UNCHANGED request
       ELSE /\ renewal' = NoRenewal
            /\ calls' = Close(c)
            /\ Resume("unanswered", mem.token)
  /\ UNCHANGED <<now, server, mem, disk, unpairing, people, faults, strained>>

----------------------------------------------------------------------------
(* Pairing, unpairing, launching                                           *)

\* trust: the code is spent on a new sign-in, which is kept once it is stored.
\* Storage may fail, having kept the new pairing's first half.
Pair ==
  LET p == Len(signIns) + 1
      t == issued + 1
  IN  /\ mem.pairing = 0 /\ p <= MaxPairings /\ Spare
      /\ signIns' = Append(signIns, [current |-> t, previous |-> 0, until |-> 0, revoked |-> FALSE])
      /\ issued' = t
      /\ \/ /\ mem' = [pairing |-> p, token |-> t] /\ disk' = mem'
            /\ UNCHANGED faults
         \/ /\ disk' \in {disk, [disk EXCEPT !.pairing = p]}
            /\ faults' = faults + 1 /\ UNCHANGED mem
      /\ UNCHANGED <<now, bought, calls, request, renewal, unpairing, people, strained>>

\* unpair: forgotten at once.  One revocation in the background at a time.
UnpairTo(forgotten) ==
  /\ mem.pairing # 0 /\ unpairing.at = "off"
  /\ mem' = forgotten
  /\ unpairing' = [at |-> "forgetting", pairing |-> mem.pairing, token |-> mem.token, route |-> 1,
                   alone |-> renewal.at = "off"]
  /\ ended' = ended \cup {mem.pairing}
  /\ UNCHANGED <<now, server, calls, disk, request, renewal, left, expired, faults, strained>>

UnpairKeepingSession == UnpairTo([mem EXCEPT !.pairing = 0])

Unpair == UnpairTo(Nobody)

\* revokeOnServer, once storage has forgotten: a bearer that ran out is
\* renewed first.
RevokeOnServerRenewing(needed) ==
  /\ unpairing.at = "forgetting"
  /\ Forget
  /\ IF needed
       THEN /\ unpairing' = [unpairing EXCEPT !.at = "asking"]
            /\ calls' = Append(calls, Call("unpairing", unpairing.token))
       ELSE /\ unpairing' = [unpairing EXCEPT !.at = "deleting"]
            /\ UNCHANGED calls
  /\ UNCHANGED <<now, server, mem, request, renewal, people, strained>>

RevokeOnServerAsIs == RevokeOnServerRenewing(FALSE)

RevokeOnServer == RevokeOnServerRenewing(unpairing.token \in expired)

\* The call goes out with the new bearer, or with the old one.
UnpairingAnswered(c) ==
  /\ Answered(c, "unpairing")
  /\ calls' = Close(c)
  /\ unpairing' = [unpairing EXCEPT !.at = "deleting",
                     !.token = IF calls[c].answer # 0 THEN calls[c].answer ELSE @]
  /\ UNCHANGED <<now, server, mem, disk, request, renewal, people, faults, strained>>

UnpairingUnanswered(c) ==
  /\ Unanswered(c, "unpairing")
  /\ IF Another(c, unpairing.route)
       THEN /\ unpairing' = [unpairing EXCEPT !.route = @ + 1]
            /\ calls' = Append(Close(c), Call("unpairing", unpairing.token))
       ELSE /\ unpairing' = [unpairing EXCEPT !.at = "deleting"]
            /\ calls' = Close(c)
  /\ UNCHANGED <<now, server, mem, disk, request, renewal, people, faults, strained>>

\* The household revokes the phone, or refuses, or is not reached.
Delete ==
  /\ unpairing.at = "deleting"
  /\ \/ /\ Accepts(unpairing.token)
        /\ signIns' = Revoke(unpairing.pairing)
        /\ UNCHANGED faults
     \/ MayRefuse(unpairing.token) /\ UNCHANGED <<signIns, faults>>
     \/ Fault /\ UNCHANGED signIns
  /\ left' = left \cup {[pairing |-> unpairing.pairing, alone |-> unpairing.alone]}
  /\ unpairing' = NoUnpairing
  /\ UNCHANGED <<now, issued, bought, calls, mem, disk, request, renewal, ended, expired, strained>>

\* The app is killed and launched again: load.  A pairing without its session
\* is none.
Launch ==
  LET kept == disk.pairing # 0 /\ disk.token # 0
  IN  /\ Fault
      /\ strained' = TRUE
      /\ mem' = IF kept THEN disk ELSE Nobody
      /\ disk' = IF kept THEN disk ELSE Nobody
      /\ request' = [r \in Requests |-> Idle]
      /\ renewal' = NoRenewal /\ unpairing' = NoUnpairing
      /\ calls' = [c \in DOMAIN calls |-> Closed(calls[c])]
      /\ UNCHANGED <<now, server, people>>

----------------------------------------------------------------------------
(* The network and the clock                                               *)

\* A call never reaches the household, or its answer never reaches the phone.
Lose(c) ==
  /\ calls[c].open /\ calls[c].stage \in {"sent", "answered"} /\ Fault
  /\ calls' = [calls EXCEPT ![c] = Outcome(@, "lost", 0)]
  /\ UNCHANGED <<now, server, phone, people, strained>>

\* The household fails before it writes, or a proxy answers a 5xx after.
Fail(c) ==
  /\ calls[c].open /\ calls[c].stage \in {"sent", "read", "answered"} /\ Fault
  /\ calls' = [calls EXCEPT ![c] = Outcome(@, "failed", 0)]
  /\ strained' = (strained \/ calls[c].stage = "answered")
  /\ UNCHANGED <<now, server, phone, people>>

\* A call takes longer than the phone waits for it.
Delay(c) ==
  /\ calls[c].open /\ ~calls[c].slow /\ calls[c].stage \in {"sent", "read"} /\ Fault
  /\ calls' = [calls EXCEPT ![c].slow = TRUE]
  /\ strained' = TRUE
  /\ UNCHANGED <<now, server, phone, people>>

\* Whether a moment's wait changes anything.
TimeMatters ==
  \/ \E c \in DOMAIN calls : calls[c].open \/ calls[c].stage = "read"
  \/ \E p \in DOMAIN signIns : signIns[p].until > now

\* The phone waits for no call beyond its timeout, and one that is neither
\* lost nor slow is answered before it.
Tick ==
  /\ now < MaxTime /\ TimeMatters
  /\ \A c \in DOMAIN calls : calls[c].open =>
       now + (IF calls[c].stage \in {"lost", "failed"} \/ calls[c].slow THEN 1 ELSE 2) <= calls[c].due
  /\ now' = now + 1
  /\ UNCHANGED <<server, calls, phone, people, faults, strained>>

Carried == {request[r].bearer : r \in Requests} \cup
           (IF unpairing.at = "deleting" THEN {unpairing.token} ELSE {})

\* A bearer comes within a minute of its end, an hour after its issue: no
\* grace lasts as long, and no request takes the minute.
Expire(p) ==
  /\ Cardinality(expired) < MaxExpiries
  /\ p \in DOMAIN signIns /\ signIns[p].until <= now
  /\ signIns[p].current \notin expired \cup Carried
  /\ expired' = expired \cup {signIns[p].current}
  /\ UNCHANGED <<now, server, calls, phone, ended, left, faults, strained>>

Household == \E c \in DOMAIN calls : Arrive(c) \/ Rotate(c)

Phone ==
  \/ \E r \in Requests : Ask(r) \/ Finish(r) \/ Refused(r)
  \/ \E c \in DOMAIN calls : \/ Renewed(c) \/ RenewalRefused(c) \/ RenewalUnanswered(c)
                             \/ UnpairingAnswered(c) \/ UnpairingUnanswered(c)
  \/ Save \/ RevokeOnServer \/ Delete

Person == Pair \/ Unpair \/ \E p \in DOMAIN signIns : EndSignIn(p)

World ==
  \/ Tick \/ Launch
  \/ \E c \in DOMAIN calls : Lose(c) \/ Fail(c) \/ Delay(c)
  \/ \E p \in DOMAIN signIns : Expire(p)

Next == Household \/ Phone \/ Person \/ World

Spec == Init /\ [][Next]_vars

----------------------------------------------------------------------------
(* Properties                                                              *)

\* However many calls carry a refresh token and however the household's
\* handlers interleave, it buys a pair at most twice, the second time within
\* the grace ("The refresh token just replaced is honoured once for a few
\* seconds", refreshSession).
HonouredTwice ==
  \A i, j \in DOMAIN bought : i < j /\ bought[i].token = bought[j].token =>
    /\ bought[j].start - bought[i].start < Grace
    /\ \A k \in DOMAIN bought : bought[k].token = bought[i].token => k \in {i, j}

\* A sign-in that ended stays so, and no refresh that read it before gives it
\* a new pair after ("revoking the device, signing out, a password change or
\* removing the account ends them together", docs/api.md).
EndedIsFinal ==
  [][\A p \in DOMAIN signIns : signIns[p].revoked => signIns'[p] = signIns[p]]_vars

\* One lost call or answer, wherever it falls, costs nobody their pairing, and
\* an answer meant for an earlier pairing does not end the present one: the
\* phone forgets a pairing only when a person ended it ("so a lost response does
\* not sign the device out", prisma/schema.prisma).  Two routes' attempts fit
\* within the grace (REFRESH_TIMEOUT_MS).  Calls that outlive their timeout, a
\* proxy's error in place of an answer, and launches are excepted.
PairingKept ==
  [][mem.pairing # 0 /\ mem'.pairing = 0 /\ faults' <= 1 /\ ~strained' => mem.pairing \in ended']_vars

\* "Unpair this phone" ends the pairing at the household too, when every call
\* got through and no renewal was in flight (unpair, revokeOnServer).
UnpairEndsAlone ==
  faults = 0 => \A u \in left : u.alone => signIns[u.pairing].revoked

\* The same whether or not a renewal was in flight.
UnpairEnds ==
  faults = 0 => \A u \in left : signIns[u.pairing].revoked

=============================================================================
