--------------------------- MODULE SessionsProofs ---------------------------
(***************************************************************************)
(* For any number of requests, routes, pairings, faults and any timing:    *)
(* the type invariant of Sessions, that a refresh token buys a pair at     *)
(* most twice and the second time within the grace, and that a sign-in     *)
(* that ended never changes again.                                         *)
(***************************************************************************)
EXTENDS Sessions, TLAPS

\* What the household records of a token spent.
Purchases == [token : Nat, start : Nat]

\* The token was bought with once, and the row's grace runs from then.
Once(p) ==
  \E i \in DOMAIN bought :
    /\ bought[i].token = signIns[p].previous
    /\ signIns[p].until = bought[i].start + Grace
    /\ \A k \in DOMAIN bought : bought[k].token = signIns[p].previous => k = i

\* Each token is current for one sign-in or replaced for one, not both.
Distinct ==
  /\ \A p \in DOMAIN signIns : signIns[p].current \in 1..issued /\ signIns[p].previous \in 0..issued
  /\ \A p, q \in DOMAIN signIns : signIns[p].previous # signIns[q].current
  /\ \A p, q \in DOMAIN signIns : signIns[p].current = signIns[q].current => p = q
  /\ \A p, q \in DOMAIN signIns :
       signIns[p].previous = signIns[q].previous /\ signIns[p].previous # 0 => p = q

\* A current token has bought nothing yet, and one in its grace once.
Spent ==
  /\ \A i \in DOMAIN bought : bought[i].token \in 1..issued
  /\ \A i \in DOMAIN bought, p \in DOMAIN signIns : bought[i].token # signIns[p].current
  /\ \A p \in DOMAIN signIns : signIns[p].until > now => Once(p)

\* What a handler read holds as long as nothing replaced the pair since.
ReadGood(call) ==
  /\ call.row \in DOMAIN signIns /\ call.start <= now /\ call.replaces \in 1..issued
  /\ signIns[call.row].current = call.replaces =>
       IF call.retry
         THEN /\ signIns[call.row].previous = call.token
              /\ call.start < signIns[call.row].until
              /\ Once(call.row)
         ELSE call.token = call.replaces

Reads == \A c \in DOMAIN calls : calls[c].stage = "read" => ReadGood(calls[c])

\* The one open call of the renewal in flight, of a pairing.
Flight ==
  /\ renewal.at # "off" => renewal.pairing # 0 /\ renewal.token # 0
  /\ \A c \in DOMAIN calls :
       calls[c].open /\ calls[c].by = "renewal" => renewal.at = "asking"
  /\ \A c, d \in DOMAIN calls :
       calls[c].open /\ calls[c].by = "renewal" /\ calls[d].open /\ calls[d].by = "renewal" => c = d

SInv == Distinct /\ Spent /\ Reads /\ HonouredTwice

IInv == TypeOK /\ Flight /\ SInv

----------------------------------------------------------------------------
(* Sequences                                                               *)

LEMMA AppendFacts ==
  ASSUME NEW S, NEW s \in Seq(S), NEW e \in S
  PROVE  /\ Append(s, e) \in Seq(S)
         /\ DOMAIN Append(s, e) = 1..(Len(s) + 1)
         /\ DOMAIN s = 1..Len(s) /\ Len(s) \in Nat
         /\ \A i \in DOMAIN s : Append(s, e)[i] = s[i] /\ s[i] \in S
         /\ Append(s, e)[Len(s) + 1] = e
  OBVIOUS

LEMMA ExceptFacts ==
  ASSUME NEW S, NEW s \in Seq(S), NEW i \in DOMAIN s, NEW e \in S
  PROVE  /\ [s EXCEPT ![i] = e] \in Seq(S)
         /\ DOMAIN [s EXCEPT ![i] = e] = DOMAIN s
         /\ \A j \in DOMAIN s : [s EXCEPT ![i] = e][j] = IF j = i THEN e ELSE s[j]
  OBVIOUS

----------------------------------------------------------------------------
(* Steps that leave the household as it is                                 *)

\* Every handler in the next state was in this one.
NoNewReads ==
  \A c \in DOMAIN calls' : calls'[c].stage = "read" =>
    \E d \in DOMAIN calls :
      /\ calls[d].stage = "read"
      /\ \A f \in {"row", "start", "replaces", "retry", "token"} : calls'[c][f] = calls[d][f]

LEMMA Quiet ==
  ASSUME SInv, NoNewReads, UNCHANGED <<now, server>>
  PROVE  SInv'
<1> USE DEF server
<1>1. Distinct' /\ HonouredTwice'
  BY DEF SInv, Distinct, HonouredTwice
<1>2. \A p : Once(p)' = Once(p)
  BY DEF Once
<1>3. Spent'
  BY <1>2 DEF SInv, Spent
<1>4. Reads'
  <2> SUFFICES ASSUME NEW c \in DOMAIN calls', calls'[c].stage = "read"
               PROVE  ReadGood(calls[c])'
    BY DEF Reads
  <2>1. PICK d \in DOMAIN calls :
          /\ calls[d].stage = "read"
          /\ calls'[c].row = calls[d].row /\ calls'[c].start = calls[d].start
          /\ calls'[c].replaces = calls[d].replaces /\ calls'[c].retry = calls[d].retry
          /\ calls'[c].token = calls[d].token
    BY DEF NoNewReads
  <2>2. ReadGood(calls[d])
    BY <2>1 DEF SInv, Reads
  <2>3. QED
    BY <2>1, <2>2, <1>2 DEF ReadGood
<1>5. QED
  BY <1>1, <1>3, <1>4 DEF SInv

----------------------------------------------------------------------------
(* What becomes of a call                                                  *)

LEMMA ClosedCall ==
  ASSUME NEW call \in Calls
  PROVE  /\ Closed(call) \in Calls /\ ~Closed(call).open
         /\ Closed(call).stage = "read" =>
              /\ call.stage = "read"
              /\ \A f \in {"row", "start", "replaces", "retry", "token"} : Closed(call)[f] = call[f]
  BY DEF Closed, Gone, Calls

LEMMA OutcomeCall ==
  ASSUME NEW call \in Calls, NEW t \in Nat, NEW stage \in {"answered", "lost", "failed"}
  PROVE  /\ Outcome(call, stage, t) \in Calls
         /\ Outcome(call, stage, t).stage = stage
         /\ Outcome(call, stage, t).open = call.open /\ Outcome(call, stage, t).by = call.by
  BY DEF Outcome, Calls

LEMMA GoneCall == Gone \in Calls /\ ~Gone.open /\ Gone.stage = "gone"
  BY DEF Gone, Calls

LEMMA NewCall ==
  ASSUME now \in Nat, NEW by \in {"renewal", "unpairing"}, NEW t \in Nat
  PROVE  /\ Call(by, t) \in Calls /\ Call(by, t).by = by
         /\ Call(by, t).stage = "sent" /\ Call(by, t).open
  BY SessionsAssumption DEF Call, Calls

\* The calls after one of them is closed, and after another is sent.
LEMMA CloseGood ==
  ASSUME TypeOK, NEW c \in DOMAIN calls
  PROVE  /\ Close(c) \in Seq(Calls) /\ DOMAIN Close(c) = DOMAIN calls
         /\ \A d \in DOMAIN calls : Close(c)[d] = IF d = c THEN Closed(calls[c]) ELSE calls[d]
<1>1. calls \in Seq(Calls) /\ calls[c] \in Calls
  BY DEF TypeOK
<1>2. Closed(calls[c]) \in Calls
  BY <1>1, ClosedCall
<1>3. QED
  BY <1>1, <1>2, ExceptFacts DEF Close

\* Closing a call starts no handler, and opens none.
LEMMA CloseReads ==
  ASSUME TypeOK, Flight, NEW c \in DOMAIN calls, calls' = Close(c)
  PROVE  /\ calls' \in Seq(Calls) /\ NoNewReads
         /\ DOMAIN calls' = DOMAIN calls
         /\ \A d \in DOMAIN calls' : calls'[d].open => d # c /\ calls'[d] = calls[d]
<1>1. calls[c] \in Calls
  BY DEF TypeOK
<1>2. \A d \in DOMAIN calls : calls'[d] = IF d = c THEN Closed(calls[c]) ELSE calls[d]
  BY CloseGood
<1>3. /\ ~Closed(calls[c]).open
      /\ Closed(calls[c]).stage = "read" =>
           /\ calls[c].stage = "read"
           /\ \A f \in {"row", "start", "replaces", "retry", "token"} : Closed(calls[c])[f] = calls[c][f]
  BY <1>1, ClosedCall
<1>4. DOMAIN calls' = DOMAIN calls /\ calls' \in Seq(Calls)
  BY CloseGood
<1>5. NoNewReads
  BY <1>2, <1>3, <1>4 DEF NoNewReads
<1>6. QED
  BY <1>2, <1>3, <1>4, <1>5

\* Nor does sending one.
LEMMA SendReads ==
  ASSUME now \in Nat, calls \in Seq(Calls), NEW s \in Seq(Calls), NEW by \in {"renewal", "unpairing"},
         NEW t \in Nat, calls' = Append(s, Call(by, t)), DOMAIN s = DOMAIN calls,
         \A d \in DOMAIN s : s[d].stage = "read" =>
           /\ calls[d].stage = "read"
           /\ \A f \in {"row", "start", "replaces", "retry", "token"} : s[d][f] = calls[d][f]
  PROVE  /\ calls' \in Seq(Calls) /\ NoNewReads
         /\ DOMAIN calls' = 1..(Len(s) + 1) /\ DOMAIN s = 1..Len(s) /\ Len(s) \in Nat
         /\ \A d \in DOMAIN s : calls'[d] = s[d]
         /\ calls'[Len(s) + 1].open /\ calls'[Len(s) + 1].by = by
<1>1. Call(by, t) \in Calls /\ Call(by, t).by = by /\ Call(by, t).stage = "sent" /\ Call(by, t).open
  BY NewCall
<1>2. /\ calls' \in Seq(Calls)
      /\ DOMAIN calls' = 1..(Len(s) + 1) /\ DOMAIN s = 1..Len(s) /\ Len(s) \in Nat
      /\ \A d \in DOMAIN s : calls'[d] = s[d]
      /\ calls'[Len(s) + 1] = Call(by, t)
  BY <1>1, AppendFacts
<1>3. NoNewReads
  <2> SUFFICES ASSUME NEW d \in DOMAIN calls', calls'[d].stage = "read"
               PROVE  d \in DOMAIN s
    BY <1>2 DEF NoNewReads
  <2>1. QED
    BY <1>1, <1>2
<1>4. QED
  BY <1>1, <1>2, <1>3

----------------------------------------------------------------------------
(* The household's steps                                                   *)

LEMMA AnswerGood ==
  ASSUME TypeOK, NEW c \in DOMAIN calls, NEW t \in Nat, Answer(c, t)
  PROVE  /\ calls' \in Seq(Calls) /\ DOMAIN calls' = DOMAIN calls
         /\ \A d \in DOMAIN calls : d # c => calls'[d] = calls[d]
         /\ calls'[c].stage # "read"
         /\ calls'[c].open => calls[c].open /\ calls'[c].by = calls[c].by
<1> DEFINE e == IF calls[c].open THEN Outcome(calls[c], "answered", t) ELSE Gone
<1>1. calls \in Seq(Calls) /\ calls[c] \in Calls
  BY DEF TypeOK
<1>2. e \in Calls /\ e.stage # "read" /\ (e.open => calls[c].open /\ e.by = calls[c].by)
  BY <1>1, OutcomeCall, GoneCall
<1>3. calls' = [calls EXCEPT ![c] = e]
  BY DEF Answer
<1> HIDE DEF e
<1>4. QED
  BY <1>1, <1>2, <1>3, ExceptFacts

LEMMA RevokeGood ==
  ASSUME signIns \in Seq(SignIns), NEW p \in DOMAIN signIns, signIns' = Revoke(p)
  PROVE  /\ signIns' \in Seq(SignIns) /\ DOMAIN signIns' = DOMAIN signIns
         /\ \A q \in DOMAIN signIns : /\ signIns'[q].current = signIns[q].current
                                      /\ signIns'[q].previous = signIns[q].previous
                                      /\ signIns'[q].until = signIns[q].until
         /\ \A q \in DOMAIN signIns : signIns[q].revoked => signIns'[q] = signIns[q]
<1> DEFINE e == [signIns[p] EXCEPT !.revoked = TRUE]
<1>1. signIns[p] \in SignIns
  OBVIOUS
<1>2. /\ e \in SignIns /\ e.current = signIns[p].current /\ e.previous = signIns[p].previous
      /\ e.until = signIns[p].until /\ (signIns[p].revoked => e = signIns[p])
  BY <1>1 DEF SignIns
<1>3. signIns' = [signIns EXCEPT ![p] = e]
  BY DEF Revoke
<1> HIDE DEF e
<1>4. QED
  BY <1>2, <1>3, ExceptFacts

\* Revoking a sign-in and ending a handler keep what the tokens have bought.
LEMMA RowsAlike ==
  ASSUME SInv, UNCHANGED <<now, issued, bought>>, DOMAIN signIns' = DOMAIN signIns,
         \A q \in DOMAIN signIns : /\ signIns'[q].current = signIns[q].current
                                  /\ signIns'[q].previous = signIns[q].previous
                                  /\ signIns'[q].until = signIns[q].until,
         DOMAIN calls' = DOMAIN calls,
         \A d \in DOMAIN calls : calls'[d].stage = "read" => calls'[d] = calls[d]
  PROVE  SInv'
<1>1. Distinct' /\ HonouredTwice'
  BY DEF SInv, Distinct, HonouredTwice
<1>2. \A p \in DOMAIN signIns : Once(p)' = Once(p)
  BY DEF Once
<1>3. Spent'
  BY <1>2 DEF SInv, Spent
<1>4. Reads'
  BY <1>2 DEF SInv, Reads, ReadGood
<1>5. QED
  BY <1>1, <1>3, <1>4 DEF SInv

\* Whatever is done to one call without opening it keeps the flight.
LEMMA FlightKept ==
  ASSUME Flight, UNCHANGED renewal, DOMAIN calls' = DOMAIN calls,
         \A d \in DOMAIN calls : calls'[d].open => calls[d].open /\ calls'[d].by = calls[d].by
  PROVE  Flight'
  BY DEF Flight

\* Answering without a change to the household's rows.
LEMMA AnswerOnly ==
  ASSUME IInv, NEW c \in DOMAIN calls, NEW t \in Nat, Answer(c, t),
         UNCHANGED <<now, server, phone, people, faults, strained>>
  PROVE  IInv'
<1>1. /\ calls' \in Seq(Calls) /\ DOMAIN calls' = DOMAIN calls
      /\ \A d \in DOMAIN calls : d # c => calls'[d] = calls[d]
      /\ calls'[c].stage # "read"
      /\ calls'[c].open => calls[c].open /\ calls'[c].by = calls[c].by
  BY AnswerGood DEF IInv
<1>2. TypeOK'
  BY <1>1 DEF IInv, TypeOK, server, phone, people
<1>3. Flight'
  BY <1>1, FlightKept DEF IInv, phone
<1>4. NoNewReads
  BY <1>1 DEF NoNewReads
<1>5. QED
  BY <1>2, <1>3, <1>4, Quiet DEF IInv

LEMMA ArriveGood ==
  ASSUME IInv, NEW c \in DOMAIN calls, Arrive(c)
  PROVE  IInv'
<1> DEFINE t == calls[c].token
           grace == {p \in PreviousOf(t) : signIns[p].until > now}
           begun(p, retry) == [calls[c] EXCEPT !.stage = "read", !.start = now, !.retry = retry,
                                               !.row = p, !.replaces = signIns[p].current]
<1> USE DEF IInv
<1>1. /\ calls \in Seq(Calls) /\ calls[c] \in Calls /\ now \in Nat /\ 0 \in Nat
      /\ signIns \in Seq(SignIns) /\ \A p \in DOMAIN signIns : signIns[p] \in SignIns
  BY DEF TypeOK
<1>2. UNCHANGED <<now, issued, bought, mem, disk, request, renewal, unpairing, ended, left, expired, faults, strained>>
  BY DEF Arrive, phone, people
<1>3. CASE Refuse(c) /\ UNCHANGED signIns
  BY <1>1, <1>2, <1>3, AnswerOnly DEF Refuse, server, phone, people
<1>4. CASE \E p \in PreviousOf(t) : Refuse(c) /\ signIns' = Revoke(p)
  <2>1. PICK p \in DOMAIN signIns : Refuse(c) /\ signIns' = Revoke(p)
    BY <1>4 DEF PreviousOf
  <2>2. /\ calls' \in Seq(Calls) /\ DOMAIN calls' = DOMAIN calls
        /\ \A d \in DOMAIN calls : d # c => calls'[d] = calls[d]
        /\ calls'[c].stage # "read"
        /\ calls'[c].open => calls[c].open /\ calls'[c].by = calls[c].by
    BY <1>1, <2>1, AnswerGood DEF Refuse
  <2>3. /\ signIns' \in Seq(SignIns) /\ DOMAIN signIns' = DOMAIN signIns
        /\ \A q \in DOMAIN signIns : /\ signIns'[q].current = signIns[q].current
                                     /\ signIns'[q].previous = signIns[q].previous
                                     /\ signIns'[q].until = signIns[q].until
    BY <1>1, <2>1, RevokeGood
  <2>4. TypeOK'
    BY <1>2, <2>2, <2>3 DEF TypeOK
  <2>5. Flight'
    BY <1>2, <2>2, FlightKept
  <2>6. SInv'
    BY <1>2, <2>2, <2>3, RowsAlike
  <2>7. QED
    BY <2>4, <2>5, <2>6
<1>5. ASSUME NEW p \in DOMAIN signIns, NEW retry \in BOOLEAN, UNCHANGED signIns,
             calls' = [calls EXCEPT ![c] = begun(p, retry)],
             IF retry THEN p \in grace ELSE p \in CurrentOf(t)
      PROVE  IInv'
  <2>1. signIns[p].current \in Nat /\ begun(p, retry) \in Calls
    <3>1. p \in Nat /\ signIns[p] \in SignIns
      BY <1>1
    <3>2. signIns[p].current \in Nat
      BY <3>1 DEF SignIns
    <3>3. QED
      BY <1>1, <3>1, <3>2 DEF Calls
  <2>2. /\ calls' \in Seq(Calls) /\ DOMAIN calls' = DOMAIN calls
        /\ \A d \in DOMAIN calls : calls'[d] = IF d = c THEN begun(p, retry) ELSE calls[d]
    BY <1>1, <1>5, <2>1, ExceptFacts
  <2>3. /\ begun(p, retry).open = calls[c].open /\ begun(p, retry).by = calls[c].by
        /\ begun(p, retry).row = p /\ begun(p, retry).start = now /\ begun(p, retry).retry = retry
        /\ begun(p, retry).replaces = signIns[p].current /\ begun(p, retry).token = t
    BY <1>1 DEF Calls
  <2> HIDE DEF begun
  <2>4. TypeOK'
    BY <1>2, <1>5, <2>2 DEF TypeOK
  <2>5. Flight'
    BY <1>2, <2>2, <2>3, FlightKept
  <2>6. Distinct' /\ Spent' /\ HonouredTwice'
    BY <1>2, <1>5 DEF SInv, Distinct, Spent, HonouredTwice, Once
  <2>7. \A q : Once(q)' = Once(q)
    BY <1>2, <1>5 DEF Once
  <2>8. ReadGood(begun(p, retry))
    <3>1. signIns[p].current \in 1..issued /\ now <= now
      BY <1>1 DEF SInv, Distinct
    <3>2. CASE retry
      <4>1. signIns[p].previous = t /\ signIns[p].until > now
        BY <1>5, <3>2 DEF PreviousOf
      <4>2. Once(p)
        BY <4>1 DEF SInv, Spent
      <4>3. signIns[p].until \in Nat
        BY <1>1 DEF SignIns
      <4>4. QED
        BY <1>1, <2>3, <3>1, <3>2, <4>1, <4>2, <4>3 DEF ReadGood
    <3>3. CASE ~retry
      BY <1>5, <2>3, <3>1, <3>3 DEF ReadGood, CurrentOf
    <3>4. QED
      BY <3>2, <3>3
  <2>9. Reads'
    <3> SUFFICES ASSUME NEW d \in DOMAIN calls', calls'[d].stage = "read"
                 PROVE  ReadGood(calls[d])'
      BY DEF Reads
    <3>1. ReadGood(calls'[d])
      BY <2>2, <2>8 DEF SInv, Reads
    <3>2. QED
      BY <1>2, <1>5, <2>7, <3>1 DEF ReadGood
  <2>10. QED
    BY <2>4, <2>5, <2>6, <2>9 DEF SInv
<1>6. \/ Refuse(c) /\ UNCHANGED signIns
      \/ \E p \in PreviousOf(t) : Refuse(c) /\ signIns' = Revoke(p)
      \/ \E p \in DOMAIN signIns, retry \in BOOLEAN :
           /\ UNCHANGED signIns /\ calls' = [calls EXCEPT ![c] = begun(p, retry)]
           /\ IF retry THEN p \in grace ELSE p \in CurrentOf(t)
  BY DEF Arrive, CurrentOf, PreviousOf
<1>7. QED
  BY <1>3, <1>4, <1>5, <1>6

\* A rotation of the row that was read: the token it replaces bought nothing
\* before, or once within the grace.
LEMMA RotateGood ==
  ASSUME IInv, NEW c \in DOMAIN calls, Rotate(c)
  PROVE  IInv'
<1> DEFINE r == calls[c].row
           t == calls[c].token
           s == calls[c].start
           retry == calls[c].retry
           new == issued + 1
           e == [signIns[r] EXCEPT !.current = new, !.previous = t, !.until = s + IF retry THEN 0 ELSE Grace]
           b == [token |-> t, start |-> s]
<1> USE DEF IInv
<1>1. /\ calls \in Seq(Calls) /\ calls[c] \in Calls /\ now \in Nat /\ issued \in Nat
      /\ signIns \in Seq(SignIns) /\ \A p \in DOMAIN signIns : signIns[p] \in SignIns
      /\ bought \in Seq(Purchases)
  BY DEF TypeOK, Purchases
<1>2. UNCHANGED <<now, mem, disk, request, renewal, unpairing, ended, left, expired, faults, strained>>
  BY DEF Rotate, RotateAmong, phone, people
<1>3. CASE Refuse(c) /\ UNCHANGED server
  BY <1>1, <1>2, <1>3, AnswerOnly DEF Refuse, phone, people
<1>4. CASE /\ r \in CurrentOf(calls[c].replaces) /\ calls[c].stage = "read"
           /\ signIns' = [signIns EXCEPT ![r] = e]
           /\ issued' = new /\ bought' = Append(bought, b) /\ Answer(c, new)
  <2>1. /\ r \in DOMAIN signIns /\ signIns[r].current = calls[c].replaces
        /\ t \in Nat /\ s \in Nat /\ retry \in BOOLEAN /\ s <= now
        /\ calls[c].replaces \in 1..issued
        /\ IF retry THEN signIns[r].previous = t /\ s < signIns[r].until /\ Once(r)
                    ELSE t = signIns[r].current
    BY <1>1, <1>4 DEF SInv, Reads, ReadGood, CurrentOf, Calls
  <2>2. Grace \in Nat /\ signIns[r].until \in Nat /\ new \in Nat
    <3>1. Grace \in Nat
      BY SessionsAssumption
    <3>2. signIns[r] \in SignIns
      BY <1>1, <1>4 DEF CurrentOf
    <3>3. signIns[r].until \in Nat
      BY <3>2 DEF SignIns
    <3>4. QED
      BY <1>1, <3>1, <3>3
  <2>3. /\ e \in SignIns /\ e.current = new /\ e.previous = t
        /\ e.until = s + IF retry THEN 0 ELSE Grace
    <3>1. signIns[r] \in SignIns /\ s + (IF retry THEN 0 ELSE Grace) \in Nat
      BY <1>1, <2>1, <2>2
    <3>2. QED
      BY <2>1, <2>2, <3>1 DEF SignIns
  <2> HIDE DEF e
  <2>4. /\ signIns' \in Seq(SignIns) /\ DOMAIN signIns' = DOMAIN signIns
        /\ \A q \in DOMAIN signIns : signIns'[q] = IF q = r THEN e ELSE signIns[q]
    BY <1>1, <1>4, <2>1, <2>3, ExceptFacts
  <2>5. b \in Purchases /\ b.token = t /\ b.start = s
    BY <2>1 DEF Purchases
  <2> HIDE DEF b
  <2> DEFINE n == Len(bought) + 1
  <2>6. /\ bought' \in Seq(Purchases)
        /\ DOMAIN bought' = 1..n /\ DOMAIN bought = 1..Len(bought) /\ Len(bought) \in Nat
        /\ \A i \in DOMAIN bought : bought'[i] = bought[i]
        /\ \A i \in DOMAIN bought : bought[i].token \in Nat /\ bought[i].start \in Nat
        /\ bought'[n] = b
        /\ \A i \in DOMAIN bought' : i = n \/ i \in DOMAIN bought
    <3>1. /\ bought' \in Seq(Purchases)
          /\ DOMAIN bought' = 1..n /\ DOMAIN bought = 1..Len(bought) /\ Len(bought) \in Nat
          /\ \A i \in DOMAIN bought : bought'[i] = bought[i] /\ bought[i] \in Purchases
          /\ bought'[n] = b
      <4>1. bought' = Append(bought, b)
        BY <1>4
      <4>2. QED
        BY <1>1, <2>5, <4>1, AppendFacts
    <3>2. \A i \in 1..n : i = n \/ i \in 1..Len(bought)
      BY <3>1
    <3>3. QED
      BY <3>1, <3>2 DEF Purchases
  <2>7. /\ calls' \in Seq(Calls) /\ DOMAIN calls' = DOMAIN calls
        /\ \A d \in DOMAIN calls : d # c => calls'[d] = calls[d]
        /\ calls'[c].stage # "read"
        /\ calls'[c].open => calls[c].open /\ calls'[c].by = calls[c].by
    BY <1>4, <2>2, AnswerGood
  \* What the token bought before, and where else it is found.
  <2>8. t \in 1..issued
    BY <2>1 DEF SInv, Spent, Once
  <2>9. \A q \in DOMAIN signIns : q # r => signIns[q].current # t /\ signIns[q].previous # t
    BY <2>1, <2>8 DEF SInv, Distinct
  <2>10. ~retry => \A i \in DOMAIN bought : bought[i].token # t
    BY <2>1 DEF SInv, Spent
  <2>11. \A i, j \in DOMAIN bought : bought[i].token = t /\ bought[j].token = t =>
           i = j /\ s - bought[i].start < Grace
    <3>1. CASE retry
      <4>1. PICK i \in DOMAIN bought :
              /\ signIns[r].until = bought[i].start + Grace
              /\ \A k \in DOMAIN bought : bought[k].token = t => k = i
        BY <2>1, <3>1 DEF Once
      <4>2. s - bought[i].start < Grace
        <5>1. s < signIns[r].until /\ s \in Nat /\ bought[i].start \in Nat
          BY <2>1, <2>6, <3>1
        <5>2. QED
          BY <2>2, <4>1, <5>1
      <4>3. QED
        BY <4>1, <4>2
    <3>2. QED
      BY <2>1, <2>10, <3>1
  <2>12. \A q \in DOMAIN signIns : q # r /\ Once(q) => Once(q)'
    <3> SUFFICES ASSUME NEW q \in DOMAIN signIns, q # r, Once(q)
                 PROVE  Once(q)'
      OBVIOUS
    <3>1. PICK i \in DOMAIN bought :
            /\ bought[i].token = signIns[q].previous
            /\ signIns[q].until = bought[i].start + Grace
            /\ \A k \in DOMAIN bought : bought[k].token = signIns[q].previous => k = i
      BY DEF Once
    <3>2. signIns'[q] = signIns[q] /\ t # signIns[q].previous
      BY <2>4, <2>9
    <3>3. i \in DOMAIN bought' /\ bought'[i] = bought[i]
      BY <2>6
    <3>4. \A k \in DOMAIN bought' : bought'[k].token = signIns[q].previous => k = i
      BY <2>5, <2>6, <3>1, <3>2
    <3>5. QED
      BY <3>1, <3>2, <3>3, <3>4 DEF Once
  <2>13. Distinct'
    <3>1. \A p \in DOMAIN signIns' : signIns'[p].current \in 1..issued' /\ signIns'[p].previous \in 0..issued'
      BY <1>1, <1>4, <2>3, <2>4, <2>8 DEF SInv, Distinct
    <3>2. \A p, q \in DOMAIN signIns' : signIns'[p].previous # signIns'[q].current
      <4>1. \A p \in DOMAIN signIns : signIns[p].previous # new
        BY <1>1 DEF SInv, Distinct
      <4>2. t # new
        BY <1>1, <2>8
      <4>3. QED
        BY <2>3, <2>4, <2>9, <4>1, <4>2 DEF SInv, Distinct
    <3>3. \A p, q \in DOMAIN signIns' : signIns'[p].current = signIns'[q].current => p = q
      <4>1. \A p \in DOMAIN signIns : signIns[p].current # new
        BY <1>1 DEF SInv, Distinct
      <4>2. QED
        BY <2>3, <2>4, <4>1 DEF SInv, Distinct
    <3>4. \A p, q \in DOMAIN signIns' :
            signIns'[p].previous = signIns'[q].previous /\ signIns'[p].previous # 0 => p = q
      BY <2>3, <2>4, <2>9 DEF SInv, Distinct
    <3>5. QED
      BY <3>1, <3>2, <3>3, <3>4 DEF Distinct
  <2>14. Spent'
    <3>1. \A i \in DOMAIN bought' : bought'[i].token \in 1..issued'
      BY <1>1, <1>4, <2>5, <2>6, <2>8 DEF SInv, Spent
    <3>2. \A i \in DOMAIN bought', p \in DOMAIN signIns' : bought'[i].token # signIns'[p].current
      <4>1. \A i \in DOMAIN bought : bought[i].token # new
        BY <1>1 DEF SInv, Spent
      <4>2. t # new
        BY <1>1, <2>8
      <4>3. \A p \in DOMAIN signIns' : t # signIns'[p].current
        BY <2>3, <2>4, <2>9, <4>2
      <4>4. \A i \in DOMAIN bought, p \in DOMAIN signIns' : bought[i].token # signIns'[p].current
        BY <2>3, <2>4, <4>1 DEF SInv, Spent
      <4>5. \A i \in DOMAIN bought' : bought'[i] = b \/ i \in DOMAIN bought
        BY <2>6
      <4>6. QED
        BY <2>5, <2>6, <4>3, <4>4, <4>5
    <3>3. ASSUME NEW p \in DOMAIN signIns', signIns'[p].until > now'
          PROVE  Once(p)'
      <4>1. CASE p # r
        BY <1>2, <2>4, <2>12, <3>3, <4>1 DEF SInv, Spent
      <4>2. CASE p = r
        <5>1. ~retry
          BY <1>1, <1>2, <2>1, <2>3, <2>4, <3>3, <4>2
        <5>2. signIns'[p].previous = t /\ signIns'[p].until = s + Grace
          BY <2>3, <2>4, <4>2, <5>1
        <5>3. n \in DOMAIN bought' /\ bought'[n].token = t /\ bought'[n].start = s
          BY <2>5, <2>6
        <5>4. \A k \in DOMAIN bought' : bought'[k].token = t => k = n
          BY <2>6, <2>10, <5>1
        <5>5. QED
          BY <5>2, <5>3, <5>4 DEF Once
      <4>3. QED
        BY <4>1, <4>2
    <3>4. QED
      BY <3>1, <3>2, <3>3 DEF Spent
  <2>15. Reads'
    <3> SUFFICES ASSUME NEW d \in DOMAIN calls', calls'[d].stage = "read"
                 PROVE  ReadGood(calls[d])'
      BY DEF Reads
    <3>1. calls'[d] = calls[d] /\ ReadGood(calls[d])
      BY <2>7 DEF SInv, Reads
    <3>2. CASE calls[d].row = r
      <4>1. /\ signIns'[calls'[d].row].current = new /\ calls'[d].row \in DOMAIN signIns'
            /\ calls'[d].start <= now' /\ calls'[d].replaces \in 1..issued
        BY <1>2, <2>1, <2>3, <2>4, <3>1, <3>2 DEF ReadGood
      <4>2. new # calls'[d].replaces /\ calls'[d].replaces \in 1..issued'
        BY <1>1, <1>4, <4>1
      <4>3. QED
        BY <4>1, <4>2 DEF ReadGood
    <3>3. CASE calls[d].row # r
      BY <1>1, <1>2, <1>4, <2>4, <2>12, <3>1, <3>3 DEF ReadGood
    <3>4. QED
      BY <3>2, <3>3
  <2>16. HonouredTwice'
    <3> SUFFICES ASSUME NEW i \in DOMAIN bought', NEW j \in DOMAIN bought', i < j,
                        bought'[i].token = bought'[j].token
                 PROVE  /\ bought'[j].start - bought'[i].start < Grace
                        /\ \A k \in DOMAIN bought' : bought'[k].token = bought'[i].token => k \in {i, j}
      BY DEF HonouredTwice
    <3>1. CASE j = n
      <4>1. i \in DOMAIN bought /\ bought[i].token = t /\ bought'[j].start = s
        BY <2>5, <2>6, <3>1
      <4>2. \A k \in DOMAIN bought' : bought'[k].token = t => k \in {i, n}
        BY <2>6, <2>11, <4>1
      <4>3. QED
        BY <2>6, <2>11, <3>1, <4>1, <4>2
    <3>2. CASE j # n
      <4>1. i \in DOMAIN bought /\ j \in DOMAIN bought
        BY <2>6, <3>2
      <4>2. bought[i].token # t
        BY <2>6, <2>11, <4>1
      <4>3. QED
        BY <2>5, <2>6, <4>1, <4>2 DEF SInv, HonouredTwice
    <3>3. QED
      BY <3>1, <3>2
  <2>17. TypeOK'
    BY <1>2, <1>4, <2>2, <2>4, <2>6, <2>7 DEF TypeOK, Purchases
  <2>18. Flight'
    BY <1>2, <2>7, FlightKept
  <2>19. QED
    BY <2>13, <2>14, <2>15, <2>16, <2>17, <2>18 DEF SInv
<1>5. QED
  BY <1>3, <1>4 DEF Rotate, RotateAmong

LEMMA EndSignInGood ==
  ASSUME IInv, NEW p \in DOMAIN signIns, EndSignIn(p)
  PROVE  IInv'
<1>1. /\ signIns \in Seq(SignIns) /\ signIns' = Revoke(p)
      /\ UNCHANGED <<now, issued, bought, calls, phone, left, expired, faults, strained>>
      /\ p \in Nat /\ ended' = ended \cup {p}
  BY DEF IInv, TypeOK, EndSignIn
<1>2. /\ signIns' \in Seq(SignIns) /\ DOMAIN signIns' = DOMAIN signIns
      /\ \A q \in DOMAIN signIns : /\ signIns'[q].current = signIns[q].current
                                   /\ signIns'[q].previous = signIns[q].previous
                                   /\ signIns'[q].until = signIns[q].until
  BY <1>1, RevokeGood
<1>3. TypeOK'
  BY <1>1, <1>2 DEF IInv, TypeOK, phone
<1>4. Flight'
  BY <1>1 DEF IInv, Flight, phone
<1>5. SInv'
  BY <1>1, <1>2, RowsAlike DEF IInv
<1>6. QED
  BY <1>3, <1>4, <1>5 DEF IInv

----------------------------------------------------------------------------
(* The phone's requests and renewals                                       *)

\* A step of the phone that leaves the calls alone.
LEMMA CallsAlone ==
  ASSUME UNCHANGED calls
  PROVE  NoNewReads
  BY DEF NoNewReads

LEMMA ResumeGood ==
  ASSUME TypeOK, NEW outcome, NEW t \in Nat, Resume(outcome, t)
  PROVE  request' \in [Requests -> Asked]
<1>1. \A r \in Requests : request[r] \in Asked
  BY DEF TypeOK
<1>2. Idle \in Asked /\ [at |-> "sent", bearer |-> t] \in Asked /\ [at |-> "again", bearer |-> t] \in Asked
  BY DEF Idle, Asked
<1>3. QED
  BY <1>1, <1>2 DEF Resume

LEMMA RenewGood ==
  ASSUME IInv, NEW r \in Requests, NEW waits \in {"ahead", "waits"}, mem.pairing # 0, Renew(r, waits),
         UNCHANGED <<now, server, mem, disk, unpairing, people, faults, strained>>
  PROVE  IInv'
<1>1. /\ calls \in Seq(Calls) /\ now \in Nat /\ mem \in Held /\ mem.pairing # 0 /\ mem.token # 0
      /\ mem.token \in Nat /\ mem.pairing \in Nat /\ request \in [Requests -> Asked]
  BY DEF IInv, TypeOK, Held
<1>2. request' \in [Requests -> Asked]
  BY <1>1 DEF Renew, Asked
<1>3. CASE UNCHANGED <<renewal, calls>>
  <2>1. TypeOK'
    BY <1>2, <1>3 DEF IInv, TypeOK, server, people
  <2>2. Flight'
    BY <1>3 DEF IInv, Flight
  <2>3. QED
    BY <1>3, <2>1, <2>2, CallsAlone, Quiet DEF IInv
<1>4. CASE /\ renewal.at = "off"
           /\ renewal' = [at |-> "asking", pairing |-> mem.pairing, token |-> mem.token, route |-> 1]
           /\ calls' = Append(calls, Call("renewal", mem.token))
  <2>1. /\ calls' \in Seq(Calls) /\ NoNewReads
        /\ DOMAIN calls' = 1..(Len(calls) + 1) /\ DOMAIN calls = 1..Len(calls) /\ Len(calls) \in Nat
        /\ \A d \in DOMAIN calls : calls'[d] = calls[d]
    BY <1>1, <1>4, SendReads
  <2>2. renewal' \in Renewals
    BY <1>1, <1>4 DEF Renewals
  <2>3. TypeOK'
    BY <1>2, <2>1, <2>2 DEF IInv, TypeOK, server, people
  <2>4. \A d \in DOMAIN calls' : d \in DOMAIN calls \/ d = Len(calls) + 1
    BY <2>1
  <2>5. \A d \in DOMAIN calls : ~(calls'[d].open /\ calls'[d].by = "renewal")
    BY <1>4, <2>1 DEF IInv, Flight
  <2>6. renewal'.at = "asking" /\ renewal'.pairing # 0 /\ renewal'.token # 0
    BY <1>1, <1>4
  <2>7. Flight'
    BY <2>4, <2>5, <2>6 DEF Flight
  <2>8. QED
    BY <2>1, <2>3, <2>7, Quiet DEF IInv
<1>5. QED
  BY <1>3, <1>4 DEF Renew

\* A request that starts no renewal.
LEMMA RequestGood ==
  ASSUME IInv, request' \in [Requests -> Asked],
         UNCHANGED <<now, server, calls, mem, disk, renewal, unpairing, people, faults, strained>>
  PROVE  IInv'
<1>1. TypeOK' /\ Flight'
  BY DEF IInv, TypeOK, Flight, server, people
<1>2. QED
  BY <1>1, CallsAlone, Quiet DEF IInv

LEMMA RequestsGood ==
  ASSUME IInv, NEW r \in Requests, Ask(r) \/ Finish(r) \/ Refused(r)
  PROVE  IInv'
<1>1. /\ \A t \in Nat, at \in {"sent", "again"} :
           [request EXCEPT ![r] = [at |-> at, bearer |-> t]] \in [Requests -> Asked]
      /\ [request EXCEPT ![r] = Idle] \in [Requests -> Asked]
      /\ mem.token \in Nat
  <2>1. request \in [Requests -> Asked] /\ mem \in Held
    BY DEF IInv, TypeOK
  <2>2. Idle \in Asked /\ \A t \in Nat, at \in {"sent", "again"} : [at |-> at, bearer |-> t] \in Asked
    BY DEF Idle, Asked
  <2>3. QED
    BY <2>1, <2>2 DEF Held
<1>2. CASE Finish(r)
  BY <1>1, <1>2, RequestGood DEF Finish
<1>3. CASE Ask(r)
  <2>1. CASE Renew(r, "ahead")
    BY <1>3, <2>1, RenewGood DEF Ask
  <2>2. CASE request' = [request EXCEPT ![r] = [at |-> "sent", bearer |-> mem.token]] /\ UNCHANGED <<renewal, calls>>
    BY <1>1, <1>3, <2>2, RequestGood DEF Ask
  <2>3. QED
    BY <1>3, <2>1, <2>2 DEF Ask
<1>4. CASE Refused(r)
  <2>1. CASE Renew(r, "waits")
    BY <1>4, <2>1, RenewGood DEF Refused
  <2>2. CASE request' = [request EXCEPT ![r] = [at |-> "again", bearer |-> mem.token]] /\ UNCHANGED <<renewal, calls>>
    BY <1>1, <1>4, <2>2, RequestGood DEF Refused
  <2>3. QED
    BY <1>4, <2>1, <2>2 DEF Refused
<1>5. QED
  BY <1>2, <1>3, <1>4

\* The renewal ends: its one open call is closed.
LEMMA LandedFlight ==
  ASSUME IInv, NEW c \in DOMAIN calls, calls[c].open, calls[c].by = "renewal", calls' = Close(c)
  PROVE  /\ calls' \in Seq(Calls) /\ NoNewReads
         /\ renewal.at = "asking" /\ renewal.pairing # 0 /\ renewal.token # 0
         /\ \A d \in DOMAIN calls' : ~(calls'[d].open /\ calls'[d].by = "renewal")
<1>1. /\ calls' \in Seq(Calls) /\ NoNewReads /\ DOMAIN calls' = DOMAIN calls
      /\ \A d \in DOMAIN calls' : calls'[d].open => d # c /\ calls'[d] = calls[d]
  BY CloseReads DEF IInv
<1>2. QED
  BY <1>1 DEF IInv, Flight

LEMMA RenewedGood ==
  ASSUME IInv, NEW c \in DOMAIN calls, Renewed(c)
  PROVE  IInv'
<1>1. /\ calls' \in Seq(Calls) /\ NoNewReads
      /\ renewal.at = "asking" /\ renewal.pairing # 0 /\ renewal.token # 0
      /\ \A d \in DOMAIN calls' : ~(calls'[d].open /\ calls'[d].by = "renewal")
  BY LandedFlight DEF Renewed, Answered
<1>2. /\ calls[c].answer \in Nat /\ calls[c].answer # 0 /\ mem \in Held /\ mem.token \in Nat
      /\ renewal \in Renewals
  <2>1. calls[c] \in Calls /\ mem \in Held /\ renewal \in Renewals
    BY DEF IInv, TypeOK
  <2>2. QED
    BY <2>1 DEF Calls, Held, Renewed
<1>3. UNCHANGED <<now, server, disk, unpairing, people, faults, strained>>
  BY DEF Renewed
<1>4. CASE /\ StillHeld /\ mem' = [mem EXCEPT !.token = calls[c].answer]
           /\ renewal' = [renewal EXCEPT !.at = "saving", !.token = calls[c].answer]
           /\ UNCHANGED request
  <2>1. mem' \in Held /\ mem'.pairing # 0 /\ mem'.token # 0
    BY <1>1, <1>2, <1>4 DEF Held, StillHeld
  <2>2. renewal' \in Renewals /\ renewal'.pairing # 0 /\ renewal'.token # 0
    BY <1>1, <1>2, <1>4 DEF Renewals
  <2>3. TypeOK'
    BY <1>1, <1>3, <1>4, <2>1, <2>2 DEF IInv, TypeOK, server, people
  <2>4. Flight'
    BY <1>1, <2>2 DEF Flight
  <2>5. QED
    BY <1>1, <1>3, <2>3, <2>4, Quiet DEF IInv
<1>5. CASE renewal' = NoRenewal /\ Resume("renewed", mem.token) /\ UNCHANGED mem
  <2>1. request' \in [Requests -> Asked]
    BY <1>2, <1>5, ResumeGood DEF IInv
  <2>2. renewal' \in Renewals /\ renewal'.at = "off"
    BY <1>5 DEF NoRenewal, Renewals
  <2>3. TypeOK'
    BY <1>1, <1>3, <1>5, <2>1, <2>2 DEF IInv, TypeOK, server, people
  <2>4. Flight'
    BY <1>1, <2>2 DEF Flight
  <2>5. QED
    BY <1>1, <1>3, <2>3, <2>4, Quiet DEF IInv
<1>6. QED
  BY <1>4, <1>5 DEF Renewed

LEMMA SaveGood ==
  ASSUME IInv, Save
  PROVE  IInv'
<1>1. mem.token \in Nat /\ renewal.token \in Nat /\ disk \in Held /\ faults \in Nat
  <2>1. mem \in Held /\ renewal \in Renewals /\ disk \in Held /\ faults \in Nat
    BY DEF IInv, TypeOK
  <2>2. QED
    BY <2>1 DEF Held, Renewals
<1>2. disk' \in Held /\ faults' \in Nat
  BY <1>1 DEF Save, Fault, Held
<1>3. request' \in [Requests -> Asked]
  BY <1>1, ResumeGood DEF IInv, Save
<1>4. renewal' \in Renewals /\ renewal'.at = "off"
  BY DEF Save, NoRenewal, Renewals
<1>5. TypeOK'
  BY <1>2, <1>3, <1>4 DEF IInv, TypeOK, Save, server, people
<1>6. Flight'
  BY <1>4 DEF IInv, Flight, Save
<1>7. QED
  BY <1>5, <1>6, CallsAlone, Quiet DEF IInv, Save

LEMMA ForgetGood ==
  ASSUME TypeOK, Forget
  PROVE  disk' \in Held /\ faults' \in Nat
  BY DEF TypeOK, Forget, Fault, Nobody, Held

LEMMA RenewalRefusedGood ==
  ASSUME IInv, NEW c \in DOMAIN calls, RenewalRefused(c)
  PROVE  IInv'
<1> USE DEF RenewalRefused, RenewalRefusedIf
<1>1. /\ calls' \in Seq(Calls) /\ NoNewReads
      /\ \A d \in DOMAIN calls' : ~(calls'[d].open /\ calls'[d].by = "renewal")
  BY LandedFlight DEF Answered
<1>2. request' \in [Requests -> Asked]
  BY ResumeGood DEF IInv
<1>3. renewal' \in Renewals /\ renewal'.at = "off"
  BY DEF NoRenewal, Renewals
<1>4. mem' \in Held /\ disk' \in Held /\ faults' \in Nat /\ (mem'.pairing = 0 <=> mem'.token = 0)
  <2>1. CASE UNCHANGED <<mem, disk, faults>>
    BY <2>1 DEF IInv, TypeOK
  <2>2. CASE mem' = Nobody /\ Forget
    BY <2>2, ForgetGood DEF IInv, Nobody, Held
  <2>3. QED
    BY <2>1, <2>2
<1>5. TypeOK'
  BY <1>1, <1>2, <1>3, <1>4 DEF IInv, TypeOK, server, people
<1>6. Flight'
  BY <1>1, <1>3 DEF Flight
<1>7. QED
  BY <1>1, <1>5, <1>6, Quiet DEF IInv

\* A call sent in place of the one just closed.
LEMMA CloseSendGood ==
  ASSUME IInv, NEW c \in DOMAIN calls, NEW by \in {"renewal", "unpairing"}, NEW t \in Nat,
         calls' = Append(Close(c), Call(by, t))
  PROVE  /\ calls' \in Seq(Calls) /\ NoNewReads
         /\ \A d \in DOMAIN calls' : \/ d \in DOMAIN calls /\ d # c /\ calls'[d] = calls[d]
                                     \/ d = c /\ ~calls'[d].open
                                     \/ d = Len(calls) + 1 /\ calls'[d].by = by
         /\ DOMAIN calls = 1..Len(calls)
<1> DEFINE s == Close(c)
<1>1. /\ calls \in Seq(Calls) /\ now \in Nat /\ calls[c] \in Calls
  BY DEF IInv, TypeOK
<1>2. /\ s \in Seq(Calls) /\ DOMAIN s = DOMAIN calls
      /\ \A d \in DOMAIN calls : s[d] = IF d = c THEN Closed(calls[c]) ELSE calls[d]
  BY CloseGood DEF IInv
<1>3. /\ ~Closed(calls[c]).open
      /\ Closed(calls[c]).stage = "read" =>
           /\ calls[c].stage = "read"
           /\ \A f \in {"row", "start", "replaces", "retry", "token"} : Closed(calls[c])[f] = calls[c][f]
  BY <1>1, ClosedCall
<1>4. calls' = Append(s, Call(by, t))
  OBVIOUS
<1> HIDE DEF s
<1>5. \A d \in DOMAIN s : s[d].stage = "read" =>
        /\ calls[d].stage = "read"
        /\ \A f \in {"row", "start", "replaces", "retry", "token"} : s[d][f] = calls[d][f]
  BY <1>2, <1>3
<1>6. /\ calls' \in Seq(Calls) /\ NoNewReads
      /\ DOMAIN calls' = 1..(Len(s) + 1) /\ DOMAIN s = 1..Len(s) /\ Len(s) \in Nat
      /\ \A d \in DOMAIN s : calls'[d] = s[d]
      /\ calls'[Len(s) + 1].by = by
  BY <1>1, <1>2, <1>4, <1>5, SendReads
<1>7. Len(s) = Len(calls) /\ DOMAIN calls = 1..Len(calls)
  BY <1>1, <1>2
<1>8. \A d \in DOMAIN calls' : d \in DOMAIN s \/ d = Len(s) + 1
  BY <1>6
<1>9. QED
  BY <1>2, <1>3, <1>6, <1>7, <1>8

LEMMA RenewalUnansweredGood ==
  ASSUME IInv, NEW c \in DOMAIN calls, RenewalUnanswered(c)
  PROVE  IInv'
<1>1. /\ renewal.at = "asking" /\ renewal.pairing # 0 /\ renewal.token # 0
      /\ calls[c].open /\ calls[c].by = "renewal"
      /\ renewal \in Renewals /\ renewal.token \in Nat /\ mem.token \in Nat
  <2>1. calls[c].open /\ calls[c].by = "renewal"
    BY DEF RenewalUnanswered, Unanswered
  <2>2. renewal \in Renewals /\ mem \in Held
    BY DEF IInv, TypeOK
  <2>3. QED
    BY <2>1, <2>2 DEF IInv, Flight, Renewals, Held
<1>2. UNCHANGED <<now, server, mem, disk, unpairing, people, faults, strained>>
  BY DEF RenewalUnanswered
<1>3. CASE /\ renewal' = [renewal EXCEPT !.route = @ + 1]
           /\ calls' = Append(Close(c), Call("renewal", renewal.token))
           /\ UNCHANGED request
  <2>1. /\ calls' \in Seq(Calls) /\ NoNewReads
        /\ \A d \in DOMAIN calls' : \/ d \in DOMAIN calls /\ d # c /\ calls'[d] = calls[d]
                                    \/ d = c /\ ~calls'[d].open
                                    \/ d = Len(calls) + 1 /\ calls'[d].by = "renewal"
    BY <1>1, <1>3, CloseSendGood
  <2>2. /\ renewal' \in Renewals /\ renewal'.at = "asking"
        /\ renewal'.pairing # 0 /\ renewal'.token # 0
    BY <1>1, <1>3 DEF Renewals
  <2>3. TypeOK'
    BY <1>2, <1>3, <2>1, <2>2 DEF IInv, TypeOK, server, people
  <2>4. \A d \in DOMAIN calls' : calls'[d].open /\ calls'[d].by = "renewal" => d = Len(calls) + 1
    BY <1>1, <2>1 DEF IInv, Flight
  <2>5. Flight'
    BY <2>2, <2>4 DEF Flight
  <2>6. QED
    BY <1>2, <2>1, <2>3, <2>5, Quiet DEF IInv
<1>4. CASE renewal' = NoRenewal /\ calls' = Close(c) /\ Resume("unanswered", mem.token)
  <2>1. /\ calls' \in Seq(Calls) /\ NoNewReads
        /\ \A d \in DOMAIN calls' : ~(calls'[d].open /\ calls'[d].by = "renewal")
    BY <1>1, <1>4, LandedFlight
  <2>2. request' \in [Requests -> Asked]
    BY <1>1, <1>4, ResumeGood DEF IInv
  <2>3. renewal' \in Renewals /\ renewal'.at = "off"
    BY <1>4 DEF NoRenewal, Renewals
  <2>4. TypeOK'
    BY <1>2, <2>1, <2>2, <2>3 DEF IInv, TypeOK, server, people
  <2>5. Flight'
    BY <2>1, <2>3 DEF Flight
  <2>6. QED
    BY <1>2, <2>1, <2>4, <2>5, Quiet DEF IInv
<1>5. QED
  BY <1>3, <1>4 DEF RenewalUnanswered

----------------------------------------------------------------------------
(* Pairing, unpairing, launching                                           *)

\* A new sign-in's token is new too.
LEMMA PairGood ==
  ASSUME IInv, Pair
  PROVE  IInv'
<1> DEFINE p == Len(signIns) + 1
           t == issued + 1
           e == [current |-> t, previous |-> 0, until |-> 0, revoked |-> FALSE]
<1>1. /\ signIns \in Seq(SignIns) /\ issued \in Nat /\ now \in Nat /\ mem \in Held /\ disk \in Held
      /\ faults \in Nat /\ (mem.pairing = 0 <=> mem.token = 0)
      /\ \A c \in DOMAIN calls : calls[c] \in Calls
  BY DEF IInv, TypeOK
<1>2. /\ signIns' = Append(signIns, e) /\ issued' = t
      /\ UNCHANGED <<now, bought, calls, request, renewal, unpairing, people, strained>>
  BY DEF Pair
<1>3. e \in SignIns /\ e.current = t /\ e.previous = 0 /\ e.until = 0 /\ t \in Nat
  BY <1>1 DEF SignIns
<1> HIDE DEF e
<1>4. /\ signIns' \in Seq(SignIns) /\ DOMAIN signIns = 1..Len(signIns) /\ Len(signIns) \in Nat
      /\ DOMAIN signIns' = 1..p
      /\ \A q \in DOMAIN signIns : signIns'[q] = signIns[q]
      /\ signIns'[p] = e
  BY <1>1, <1>2, <1>3, AppendFacts
<1>5. /\ \A q \in DOMAIN signIns' : q \in DOMAIN signIns \/ q = p
      /\ \A q \in DOMAIN signIns : q \in DOMAIN signIns'
  BY <1>4
<1>6. mem' \in Held /\ disk' \in Held /\ faults' \in Nat /\ (mem'.pairing = 0 <=> mem'.token = 0)
  <2>1. p \in Nat /\ p # 0 /\ t # 0
    BY <1>1, <1>4
  <2>2. CASE mem' = [pairing |-> p, token |-> t] /\ disk' = mem' /\ UNCHANGED faults
    BY <1>1, <1>3, <2>1, <2>2 DEF Held
  <2>3. CASE disk' \in {disk, [disk EXCEPT !.pairing = p]} /\ faults' = faults + 1 /\ UNCHANGED mem
    BY <1>1, <2>1, <2>3 DEF Held
  <2>4. QED
    BY <2>2, <2>3 DEF Pair
<1>7. TypeOK'
  BY <1>2, <1>3, <1>4, <1>6 DEF IInv, TypeOK, people
<1>8. Flight'
  BY <1>2 DEF IInv, Flight
<1>9. \A q \in DOMAIN signIns : Once(q) => Once(q)'
  BY <1>2, <1>4 DEF Once
<1>10. Distinct'
  <2>1. \A q \in DOMAIN signIns : signIns[q].current # t /\ signIns[q].previous # t /\ signIns[q].current # 0
    BY <1>1 DEF IInv, SInv, Distinct
  <2>2. \A q \in DOMAIN signIns' : signIns'[q].current \in 1..issued' /\ signIns'[q].previous \in 0..issued'
    BY <1>1, <1>2, <1>3, <1>4, <1>5 DEF IInv, SInv, Distinct
  <2>3. t # 0
    BY <1>1
  <2>4. Distinct
    BY DEF IInv, SInv
  <2>5. \A q, r \in DOMAIN signIns' : signIns'[q].previous # signIns'[r].current
    BY <1>3, <1>4, <1>5, <2>1, <2>3, <2>4 DEF Distinct
  <2>6. \A q, r \in DOMAIN signIns' : signIns'[q].current = signIns'[r].current => q = r
    BY <1>3, <1>4, <1>5, <2>1, <2>4 DEF Distinct
  <2>7. \A q, r \in DOMAIN signIns' :
          signIns'[q].previous = signIns'[r].previous /\ signIns'[q].previous # 0 => q = r
    BY <1>3, <1>4, <1>5, <2>4 DEF Distinct
  <2>8. QED
    BY <2>2, <2>5, <2>6, <2>7 DEF Distinct
<1>11. Spent'
  <2>1. \A i \in DOMAIN bought : bought[i].token \in 1..issued /\ bought[i].token # t
    BY <1>1 DEF IInv, SInv, Spent
  <2>2. \A i \in DOMAIN bought' : bought'[i].token \in 1..issued'
    BY <1>1, <1>2 DEF IInv, SInv, Spent
  <2>3. \A i \in DOMAIN bought', q \in DOMAIN signIns' : bought'[i].token # signIns'[q].current
    BY <1>2, <1>3, <1>4, <1>5, <2>1 DEF IInv, SInv, Spent
  <2>4. \A q \in DOMAIN signIns' : signIns'[q].until > now' => q \in DOMAIN signIns
    BY <1>1, <1>2, <1>3, <1>4, <1>5
  <2>5. \A q \in DOMAIN signIns' : signIns'[q].until > now' => Once(q)'
    BY <1>2, <1>4, <1>9, <2>4 DEF IInv, SInv, Spent
  <2>6. QED
    BY <2>2, <2>3, <2>5 DEF Spent
<1>12. Reads'
  <2> SUFFICES ASSUME NEW d \in DOMAIN calls', calls'[d].stage = "read"
               PROVE  ReadGood(calls[d])'
    BY DEF Reads
  <2>1. calls'[d] = calls[d] /\ ReadGood(calls[d])
    BY <1>2 DEF IInv, SInv, Reads
  <2>2. calls[d].replaces \in 1..issued'
    BY <1>1, <1>2, <2>1 DEF ReadGood
  <2>3. QED
    BY <1>2, <1>4, <1>5, <1>9, <2>1, <2>2 DEF ReadGood
<1>13. HonouredTwice'
  BY <1>2 DEF IInv, SInv, HonouredTwice
<1>14. QED
  BY <1>7, <1>8, <1>10, <1>11, <1>12, <1>13 DEF IInv, SInv

LEMMA UnpairGood ==
  ASSUME IInv, Unpair
  PROVE  IInv'
<1>1. mem.pairing \in Nat /\ mem.token \in Nat
  <2>1. mem \in Held
    BY DEF IInv, TypeOK
  <2>2. QED
    BY <2>1 DEF Held
<1>2. unpairing' \in Unpairings /\ mem' \in Held /\ mem'.pairing = 0 /\ mem'.token = 0
  BY <1>1 DEF Unpair, UnpairTo, Unpairings, Nobody, Held
<1>3. TypeOK'
  BY <1>1, <1>2 DEF IInv, TypeOK, Unpair, UnpairTo, server
<1>4. Flight'
  BY DEF IInv, Flight, Unpair, UnpairTo
<1>5. QED
  BY <1>3, <1>4, CallsAlone, Quiet DEF IInv, Unpair, UnpairTo

\* A step of the revocation in the background: it opens no renewal's call.
LEMMA BackgroundGood ==
  ASSUME IInv, unpairing' \in Unpairings, disk' \in Held, faults' \in Nat,
         calls' \in Seq(Calls), NoNewReads,
         \A d \in DOMAIN calls' : calls'[d].open /\ calls'[d].by = "renewal" =>
           d \in DOMAIN calls /\ calls'[d] = calls[d],
         UNCHANGED <<now, server, mem, request, renewal, people, strained>>
  PROVE  IInv'
<1>1. TypeOK'
  BY DEF IInv, TypeOK, server, people
<1>2. Flight'
  BY DEF IInv, Flight
<1>3. QED
  BY <1>1, <1>2, Quiet DEF IInv

LEMMA RevokeOnServerGood ==
  ASSUME IInv, RevokeOnServer
  PROVE  IInv'
<1> USE DEF RevokeOnServer, RevokeOnServerRenewing
<1>1. /\ calls \in Seq(Calls) /\ now \in Nat /\ unpairing \in Unpairings /\ unpairing.token \in Nat
  BY DEF IInv, TypeOK, Unpairings
<1>2. disk' \in Held /\ faults' \in Nat
  BY ForgetGood DEF IInv
<1>3. CASE UNCHANGED calls /\ unpairing' = [unpairing EXCEPT !.at = "deleting"]
  <2>1. unpairing' \in Unpairings
    BY <1>1, <1>3 DEF Unpairings
  <2>2. QED
    BY <1>1, <1>2, <1>3, <2>1, CallsAlone, BackgroundGood
<1>4. CASE /\ calls' = Append(calls, Call("unpairing", unpairing.token))
           /\ unpairing' = [unpairing EXCEPT !.at = "asking"]
  <2>1. unpairing' \in Unpairings
    BY <1>1, <1>4 DEF Unpairings
  <2>2. /\ calls' \in Seq(Calls) /\ NoNewReads
        /\ DOMAIN calls' = 1..(Len(calls) + 1) /\ DOMAIN calls = 1..Len(calls) /\ Len(calls) \in Nat
        /\ \A d \in DOMAIN calls : calls'[d] = calls[d]
        /\ calls'[Len(calls) + 1].by = "unpairing"
    BY <1>1, <1>4, SendReads
  <2>3. \A d \in DOMAIN calls' : d \in DOMAIN calls \/ d = Len(calls) + 1
    BY <2>2
  <2>4. QED
    BY <1>2, <2>1, <2>2, <2>3, BackgroundGood
<1>5. QED
  BY <1>3, <1>4

LEMMA UnpairingAnsweredGood ==
  ASSUME IInv, NEW c \in DOMAIN calls, UnpairingAnswered(c)
  PROVE  IInv'
<1>1. /\ calls[c].answer \in Nat /\ unpairing \in Unpairings /\ disk \in Held /\ faults \in Nat
  <2>1. calls[c] \in Calls
    BY DEF IInv, TypeOK
  <2>2. QED
    BY <2>1 DEF IInv, TypeOK, Calls
<1>2. unpairing' \in Unpairings
  BY <1>1 DEF UnpairingAnswered, Unpairings
<1>3. /\ calls' \in Seq(Calls) /\ NoNewReads /\ DOMAIN calls' = DOMAIN calls
      /\ \A d \in DOMAIN calls' : calls'[d].open => d # c /\ calls'[d] = calls[d]
  BY CloseReads DEF IInv, UnpairingAnswered
<1>4. QED
  BY <1>1, <1>2, <1>3, BackgroundGood DEF UnpairingAnswered

LEMMA UnpairingUnansweredGood ==
  ASSUME IInv, NEW c \in DOMAIN calls, UnpairingUnanswered(c)
  PROVE  IInv'
<1>1. unpairing \in Unpairings /\ unpairing.token \in Nat /\ disk \in Held /\ faults \in Nat
  BY DEF IInv, TypeOK, Unpairings
<1>2. CASE /\ unpairing' = [unpairing EXCEPT !.route = @ + 1]
           /\ calls' = Append(Close(c), Call("unpairing", unpairing.token))
  <2>1. unpairing' \in Unpairings
    BY <1>1, <1>2 DEF Unpairings
  <2>2. /\ calls' \in Seq(Calls) /\ NoNewReads
        /\ \A d \in DOMAIN calls' : \/ d \in DOMAIN calls /\ d # c /\ calls'[d] = calls[d]
                                    \/ d = c /\ ~calls'[d].open
                                    \/ d = Len(calls) + 1 /\ calls'[d].by = "unpairing"
    BY <1>1, <1>2, CloseSendGood
  <2>3. QED
    BY <1>1, <2>1, <2>2, BackgroundGood DEF UnpairingUnanswered
<1>3. CASE unpairing' = [unpairing EXCEPT !.at = "deleting"] /\ calls' = Close(c)
  <2>1. unpairing' \in Unpairings
    BY <1>1, <1>3 DEF Unpairings
  <2>2. /\ calls' \in Seq(Calls) /\ NoNewReads /\ DOMAIN calls' = DOMAIN calls
        /\ \A d \in DOMAIN calls' : calls'[d].open => d # c /\ calls'[d] = calls[d]
    BY <1>3, CloseReads DEF IInv
  <2>3. QED
    BY <1>1, <2>1, <2>2, BackgroundGood DEF UnpairingUnanswered
<1>4. QED
  BY <1>2, <1>3 DEF UnpairingUnanswered

LEMMA DeleteGood ==
  ASSUME IInv, Delete
  PROVE  IInv'
<1>1. /\ signIns \in Seq(SignIns) /\ unpairing \in Unpairings
      /\ unpairing.pairing \in Nat /\ unpairing.alone \in BOOLEAN
      /\ left \subseteq [pairing : Nat, alone : BOOLEAN] /\ faults \in Nat
  BY DEF IInv, TypeOK, Unpairings
<1>2. /\ UNCHANGED <<now, issued, bought, calls, mem, disk, request, renewal, ended, expired, strained>>
      /\ unpairing' = NoUnpairing
      /\ left' = left \cup {[pairing |-> unpairing.pairing, alone |-> unpairing.alone]}
  BY DEF Delete
<1>3. /\ signIns' \in Seq(SignIns) /\ DOMAIN signIns' = DOMAIN signIns
      /\ \A q \in DOMAIN signIns : /\ signIns'[q].current = signIns[q].current
                                   /\ signIns'[q].previous = signIns[q].previous
                                   /\ signIns'[q].until = signIns[q].until
  <2>1. CASE UNCHANGED signIns
    BY <1>1, <2>1
  <2>2. CASE signIns' = Revoke(unpairing.pairing) /\ unpairing.pairing \in DOMAIN signIns
    BY <1>1, <2>2, RevokeGood
  <2>3. CASE signIns' = Revoke(unpairing.pairing) /\ unpairing.pairing \notin DOMAIN signIns
    <3>1. signIns' = signIns
      BY <1>1, <2>3 DEF Revoke
    <3>2. QED
      BY <1>1, <3>1
  <2>4. QED
    BY <2>1, <2>2, <2>3 DEF Delete
<1>4. unpairing' \in Unpairings /\ left' \subseteq [pairing : Nat, alone : BOOLEAN]
  BY <1>1, <1>2 DEF NoUnpairing, Unpairings
<1>5. faults' \in Nat
  BY <1>1 DEF Delete, Fault
<1>6. TypeOK'
  BY <1>2, <1>3, <1>4, <1>5 DEF IInv, TypeOK
<1>7. Flight'
  BY <1>2 DEF IInv, Flight
<1>8. SInv'
  BY <1>2, <1>3, RowsAlike DEF IInv
<1>9. QED
  BY <1>6, <1>7, <1>8 DEF IInv

LEMMA LaunchGood ==
  ASSUME IInv, Launch
  PROVE  IInv'
<1> DEFINE kept == disk.pairing # 0 /\ disk.token # 0
<1>1. /\ calls \in Seq(Calls) /\ disk \in Held /\ faults \in Nat
      /\ \A c \in DOMAIN calls : calls[c] \in Calls
  BY DEF IInv, TypeOK
<1>2. /\ faults' = faults + 1 /\ strained' = TRUE
      /\ mem' = IF kept THEN disk ELSE Nobody
      /\ disk' = IF kept THEN disk ELSE Nobody
      /\ request' = [r \in Requests |-> Idle]
      /\ renewal' = NoRenewal /\ unpairing' = NoUnpairing
      /\ calls' = [c \in DOMAIN calls |-> Closed(calls[c])]
      /\ UNCHANGED <<now, server, people>>
  BY DEF Launch, Fault
<1>3. \A c \in DOMAIN calls :
        /\ Closed(calls[c]) \in Calls /\ ~Closed(calls[c]).open
        /\ Closed(calls[c]).stage = "read" =>
             /\ calls[c].stage = "read"
             /\ \A f \in {"row", "start", "replaces", "retry", "token"} : Closed(calls[c])[f] = calls[c][f]
  BY <1>1, ClosedCall
<1>4. calls' \in Seq(Calls) /\ DOMAIN calls' = DOMAIN calls
  <2>1. DOMAIN calls = 1..Len(calls) /\ Len(calls) \in Nat
    BY <1>1
  <2>2. calls' \in [1..Len(calls) -> Calls]
    BY <1>2, <1>3, <2>1
  <2>3. QED
    BY <2>1, <2>2
<1>5. NoNewReads /\ \A c \in DOMAIN calls' : ~calls'[c].open
  BY <1>2, <1>3, <1>4 DEF NoNewReads
<1>6. mem' \in Held /\ disk' \in Held /\ (mem'.pairing = 0 <=> mem'.token = 0)
  BY <1>1, <1>2 DEF Nobody, Held
<1>7. /\ request' \in [Requests -> Asked] /\ renewal' \in Renewals /\ renewal'.at = "off"
      /\ unpairing' \in Unpairings
  BY <1>2 DEF Idle, Asked, NoRenewal, Renewals, NoUnpairing, Unpairings
<1>8. TypeOK'
  BY <1>1, <1>2, <1>4, <1>6, <1>7 DEF IInv, TypeOK, server, people
<1>9. Flight'
  BY <1>5, <1>7 DEF Flight
<1>10. QED
  BY <1>2, <1>5, <1>8, <1>9, Quiet DEF IInv

----------------------------------------------------------------------------
(* The network and the clock                                               *)

LEMMA NetworkGood ==
  ASSUME IInv, NEW c \in DOMAIN calls, Lose(c) \/ Fail(c) \/ Delay(c)
  PROVE  IInv'
<1> DEFINE lost(stage) == Outcome(calls[c], stage, 0)
           slow == [calls[c] EXCEPT !.slow = TRUE]
<1>1. calls \in Seq(Calls) /\ calls[c] \in Calls /\ faults \in Nat /\ strained \in BOOLEAN /\ 0 \in Nat
  BY DEF IInv, TypeOK
<1>2. /\ UNCHANGED <<now, server, phone, people>> /\ faults' = faults + 1
      /\ strained' \in BOOLEAN
  BY <1>1 DEF Lose, Fail, Delay, Fault
<1>3. ASSUME NEW e \in Calls, calls' = [calls EXCEPT ![c] = e],
             e.open = calls[c].open /\ e.by = calls[c].by,
             e.stage = "read" =>
               /\ calls[c].stage = "read"
               /\ \A f \in {"row", "start", "replaces", "retry", "token"} : e[f] = calls[c][f]
      PROVE  IInv'
  <2>1. /\ calls' \in Seq(Calls) /\ DOMAIN calls' = DOMAIN calls
        /\ \A d \in DOMAIN calls : calls'[d] = IF d = c THEN e ELSE calls[d]
    BY <1>1, <1>3, ExceptFacts
  <2>2. NoNewReads
    BY <1>3, <2>1 DEF NoNewReads
  <2>3. TypeOK'
    BY <1>1, <1>2, <2>1 DEF IInv, TypeOK, server, phone, people
  <2>4. Flight'
    BY <1>2, <1>3, <2>1, FlightKept DEF IInv, phone
  <2>5. QED
    BY <1>2, <2>2, <2>3, <2>4, Quiet DEF IInv
<1>4. CASE Lose(c) \/ Fail(c)
  <2>1. PICK stage \in {"lost", "failed"} : calls' = [calls EXCEPT ![c] = lost(stage)]
    BY <1>4 DEF Lose, Fail
  <2>2. /\ lost(stage) \in Calls /\ lost(stage).stage # "read"
        /\ lost(stage).open = calls[c].open /\ lost(stage).by = calls[c].by
    <3>1. stage \in {"answered", "lost", "failed"} /\ stage # "read"
      BY <2>1
    <3>2. QED
      BY <1>1, <3>1, OutcomeCall
  <2> HIDE DEF lost
  <2>3. QED
    BY <1>3, <2>1, <2>2
<1>5. CASE Delay(c)
  <2>1. calls' = [calls EXCEPT ![c] = slow]
    BY <1>5 DEF Delay
  <2>2. /\ slow \in Calls /\ slow.open = calls[c].open /\ slow.by = calls[c].by
        /\ slow.stage = calls[c].stage
        /\ \A f \in {"row", "start", "replaces", "retry", "token"} : slow[f] = calls[c][f]
    BY <1>1 DEF Calls
  <2> HIDE DEF slow
  <2>3. QED
    BY <1>3, <2>1, <2>2
<1>6. QED
  BY <1>4, <1>5

LEMMA ClockGood ==
  ASSUME IInv, now' \in Nat, now <= now', expired' \subseteq Nat,
         UNCHANGED <<server, calls, phone, ended, left, faults, strained>>
  PROVE  IInv'
<1>1. now \in Nat /\ signIns \in Seq(SignIns) /\ calls \in Seq(Calls)
  BY DEF IInv, TypeOK
<1>2. /\ \A p \in DOMAIN signIns : signIns[p].until \in Nat
      /\ \A c \in DOMAIN calls : calls[c].start \in Nat
  <2>1. \A p \in DOMAIN signIns : signIns[p] \in SignIns
    BY <1>1
  <2>2. \A c \in DOMAIN calls : calls[c] \in Calls
    BY <1>1
  <2>3. QED
    BY <2>1, <2>2 DEF SignIns, Calls
<1>3. TypeOK' /\ Flight'
  BY <1>1 DEF IInv, TypeOK, Flight, server, phone
<1>4. Distinct' /\ HonouredTwice' /\ \A p \in DOMAIN signIns : Once(p)' = Once(p)
  BY DEF IInv, SInv, Distinct, HonouredTwice, Once, server
<1>5. \A p \in DOMAIN signIns : signIns[p].until > now' => signIns[p].until > now
  BY <1>1, <1>2
<1>6. Spent'
  BY <1>4, <1>5 DEF IInv, SInv, Spent, server
<1>7. \A c \in DOMAIN calls : calls[c].start <= now => calls[c].start <= now'
  BY <1>1, <1>2
<1>8. Reads'
  BY <1>4, <1>7 DEF IInv, SInv, Reads, ReadGood, server
<1>9. QED
  BY <1>3, <1>4, <1>6, <1>8 DEF IInv, SInv

LEMMA TickOrExpireGood ==
  ASSUME IInv, Tick \/ \E p \in DOMAIN signIns : Expire(p)
  PROVE  IInv'
<1>1. now \in Nat /\ expired \subseteq Nat /\ \A p \in DOMAIN signIns : signIns[p] \in SignIns
  BY DEF IInv, TypeOK
<1>2. CASE Tick
  <2>1. now' \in Nat /\ now <= now'
    BY <1>1, <1>2 DEF Tick
  <2>2. QED
    BY <1>1, <1>2, <2>1, ClockGood DEF Tick, people
<1>3. ASSUME NEW p \in DOMAIN signIns, Expire(p)
      PROVE  IInv'
  <2>1. signIns[p].current \in Nat
    BY <1>1 DEF SignIns
  <2>2. expired' \subseteq Nat /\ now' \in Nat /\ now <= now'
    <3>1. expired' = expired \cup {signIns[p].current} /\ now' = now
      BY <1>3 DEF Expire
    <3>2. expired' \subseteq Nat
      BY <1>1, <2>1, <3>1
    <3>3. now' \in Nat /\ now <= now'
      BY <1>1, <3>1
    <3>4. QED
      BY <3>2, <3>3
  <2>3. QED
    BY <1>3, <2>2, ClockGood DEF Expire
<1>4. QED
  BY <1>2, <1>3

----------------------------------------------------------------------------
(* The theorems                                                            *)

LEMMA InitGood ==
  ASSUME Init
  PROVE  IInv
<1>1. TypeOK
  <2>1. Nobody \in Held /\ Nobody.pairing = 0 /\ Nobody.token = 0
    BY DEF Nobody, Held
  <2>2. [r \in Requests |-> Idle] \in [Requests -> Asked]
    BY DEF Idle, Asked
  <2>3. NoRenewal \in Renewals /\ NoUnpairing \in Unpairings
    BY DEF NoRenewal, Renewals, NoUnpairing, Unpairings
  <2>4. /\ signIns \in Seq(SignIns) /\ calls \in Seq(Calls)
        /\ bought \in Seq([token : Nat, start : Nat])
    BY DEF Init
  <2>5. QED
    BY <2>1, <2>2, <2>3, <2>4 DEF Init, TypeOK
<1>2. Flight
  BY DEF Init, Flight, NoRenewal
<1>3. SInv
  BY DEF Init, SInv, Distinct, Spent, Reads, HonouredTwice
<1>4. QED
  BY <1>1, <1>2, <1>3 DEF IInv

LEMMA StepGood ==
  ASSUME IInv, [Next]_vars
  PROVE  IInv'
<1>1. CASE Household
  BY <1>1, ArriveGood, RotateGood DEF Household
<1>2. CASE Phone
  BY <1>2, RequestsGood, RenewedGood, RenewalRefusedGood, RenewalUnansweredGood, UnpairingAnsweredGood,
     UnpairingUnansweredGood, SaveGood, RevokeOnServerGood, DeleteGood DEF Phone
<1>3. CASE Person
  BY <1>3, PairGood, UnpairGood, EndSignInGood DEF Person
<1>4. CASE World
  BY <1>4, LaunchGood, NetworkGood, TickOrExpireGood DEF World
<1>5. CASE UNCHANGED vars
  <2>1. TypeOK' /\ Flight'
    BY <1>5 DEF IInv, TypeOK, Flight, vars, server, phone, people
  <2>2. QED
    BY <1>5, <2>1, CallsAlone, Quiet DEF IInv, vars
<1>6. QED
  BY <1>1, <1>2, <1>3, <1>4, <1>5 DEF Next

\* The variables keep their types, and the phone holds a token exactly when it
\* holds a pairing: every operation of auth.ts and companion-session.ts that
\* is modelled keeps them so.
THEOREM TypeCorrect == Spec => []TypeOK
<1>1. Init => IInv
  BY InitGood
<1>2. IInv /\ [Next]_vars => IInv'
  BY StepGood
<1>3. IInv => TypeOK
  BY DEF IInv
<1>4. QED
  BY <1>1, <1>2, <1>3, PTL DEF Spec

\* However many handlers of refreshSession overlap, a refresh token buys a pair
\* at most twice, the second time within the grace of the first.
THEOREM TokensHonouredTwice == Spec => []HonouredTwice
<1>1. Init => IInv
  BY InitGood
<1>2. IInv /\ [Next]_vars => IInv'
  BY StepGood
<1>3. IInv => HonouredTwice
  BY DEF IInv, SInv
<1>4. QED
  BY <1>1, <1>2, <1>3, PTL DEF Spec

\* One step keeps every ended sign-in as it is.
LEMMA StepEndsNothingTwice ==
  ASSUME IInv, [Next]_vars, NEW p \in DOMAIN signIns, signIns[p].revoked
  PROVE  signIns'[p] = signIns[p]
<1>1. /\ signIns \in Seq(SignIns) /\ calls \in Seq(Calls)
      /\ \A c \in DOMAIN calls : calls[c] \in Calls
  BY DEF IInv, TypeOK
<1>2. ASSUME NEW q, signIns' = Revoke(q)
      PROVE  signIns'[p] = signIns[p]
  <2>1. CASE q \in DOMAIN signIns
    BY <1>1, <1>2, <2>1, RevokeGood
  <2>2. CASE q \notin DOMAIN signIns
    BY <1>1, <1>2, <2>2 DEF Revoke
  <2>3. QED
    BY <2>1, <2>2
<1>3. ASSUME NEW c \in DOMAIN calls, Arrive(c)
      PROVE  signIns'[p] = signIns[p]
  <2>1. UNCHANGED signIns \/ \E q \in DOMAIN signIns : signIns' = Revoke(q)
    BY <1>3 DEF Arrive, PreviousOf
  <2>2. QED
    BY <1>2, <2>1
<1>4. ASSUME NEW c \in DOMAIN calls, Rotate(c)
      PROVE  signIns'[p] = signIns[p]
  <2>1. \/ UNCHANGED signIns
        \/ /\ calls[c].row \in DOMAIN signIns /\ ~signIns[calls[c].row].revoked
           /\ \E e : signIns' = [signIns EXCEPT ![calls[c].row] = e]
    BY <1>4 DEF Rotate, RotateAmong, CurrentOf, server
  <2>2. QED
    BY <1>1, <2>1
<1>5. CASE Pair
  BY <1>1, <1>5 DEF Pair
<1>6. CASE \E q \in DOMAIN signIns : EndSignIn(q)
  BY <1>2, <1>6 DEF EndSignIn
<1>7. CASE Delete
  BY <1>2, <1>7 DEF Delete
<1>8. QED
  BY <1>3, <1>4, <1>5, <1>6, <1>7
     DEF Next, Household, Phone, Person, World, Ask, Finish, Refused, Renewed, RenewalRefused,
         RenewalRefusedIf, RenewalUnanswered, UnpairingAnswered, UnpairingUnanswered, Save,
         RevokeOnServer, RevokeOnServerRenewing, Unpair, UnpairTo, Tick, Launch, Lose, Fail, Delay,
         Expire, vars, server

\* A sign-in a person ended, or that a token spent too late ended, never gets
\* another pair: no update of refreshSession that read the row before writes it.
THEOREM EndingIsFinal == Spec => EndedIsFinal
<1> DEFINE Final == \A p \in DOMAIN signIns : signIns[p].revoked => signIns'[p] = signIns[p]
<1>1. Init => IInv
  BY InitGood
<1>2. IInv /\ [Next]_vars => IInv'
  BY StepGood
<1>3. IInv /\ [Next]_vars => [Final]_vars
  BY StepEndsNothingTwice
<1>4. QED
  BY <1>1, <1>2, <1>3, PTL DEF Spec, EndedIsFinal

----------------------------------------------------------------------------
(* Unpairing, as long as nothing fails                                     *)

\* The token is of this sign-in and of no other.
Of(t, p) ==
  /\ t \in 1..issued
  /\ \A q \in DOMAIN signIns : t \in {signIns[q].current, signIns[q].previous} => q = p

\* The sign-in a call is made for.
Owner(c) == IF calls[c].by = "renewal" THEN renewal.pairing ELSE unpairing.pairing

\* A call the phone waits for, when nothing has failed: it is handled in time,
\* for its sign-in alone.
InTime(c) ==
  /\ calls[c].stage \in {"sent", "read", "answered"} /\ ~calls[c].slow
  /\ now < calls[c].due /\ calls[c].due <= now + Timeout
  /\ Of(calls[c].token, Owner(c))
  /\ calls[c].stage = "read" => calls[c].row = Owner(c) /\ calls[c].due <= calls[c].start + Timeout
  /\ calls[c].stage = "answered" /\ calls[c].answer # 0 => Of(calls[c].answer, Owner(c))
  /\ calls[c].by = "unpairing" => unpairing.at = "asking"

CallsCalm ==
  /\ \A c \in DOMAIN calls : calls[c].stage \in {"sent", "read"} => calls[c].open
  /\ \A c \in DOMAIN calls : calls[c].open => InTime(c)
  /\ \A c, d \in DOMAIN calls :
       calls[c].open /\ calls[c].by = "unpairing" /\ calls[d].open /\ calls[d].by = "unpairing" => c = d

\* Whose tokens the phone works with.
HoldersCalm ==
  /\ mem.pairing # 0 => mem.pairing \in DOMAIN signIns /\ Of(mem.token, mem.pairing)
  /\ renewal.at # "off" => renewal.pairing \in DOMAIN signIns
  /\ renewal.at = "asking" /\ renewal.pairing = mem.pairing => renewal.token = mem.token
  /\ unpairing.at # "off" =>
       /\ unpairing.pairing \in DOMAIN signIns /\ Of(unpairing.token, unpairing.pairing)
       /\ mem.pairing # unpairing.pairing
       /\ unpairing.alone /\ renewal.at # "off" => renewal.pairing # unpairing.pairing

\* The only call for a sign-in brings its next token, or says it has ended.
Serves(c, p) ==
  /\ calls[c].stage = "sent" => signIns[p].current = calls[c].token
  /\ calls[c].stage = "read" =>
       signIns[p].current = calls[c].token /\ calls[c].replaces = calls[c].token /\ ~calls[c].retry
  /\ calls[c].stage = "answered" =>
       IF calls[c].answer = 0
         THEN signIns[p].revoked
         ELSE /\ signIns[p].current = calls[c].answer /\ signIns[p].until >= calls[c].due
              /\ calls[c].answer \notin expired

\* The phone's token is the household's, or the one call for it serves.
MemInStep ==
  mem.pairing # 0 =>
    /\ renewal.at # "asking" \/ renewal.pairing # mem.pairing => signIns[mem.pairing].current = mem.token
    /\ \A c \in DOMAIN calls : calls[c].open /\ calls[c].by = "renewal" /\ renewal.pairing = mem.pairing
         => Serves(c, mem.pairing)

UnpairingInStep ==
  unpairing.at # "off" /\ unpairing.alone =>
    /\ unpairing.at = "forgetting" => signIns[unpairing.pairing].current = unpairing.token
    /\ unpairing.at = "deleting" =>
         \/ signIns[unpairing.pairing].revoked
         \/ signIns[unpairing.pairing].current = unpairing.token /\ unpairing.token \notin expired
    /\ \A c \in DOMAIN calls : calls[c].open /\ calls[c].by = "unpairing" => Serves(c, unpairing.pairing)

LeftEnded == \A u \in left : u.alone => u.pairing \in DOMAIN signIns /\ signIns[u.pairing].revoked

Calm ==
  /\ expired \subseteq 1..issued
  /\ CallsCalm /\ HoldersCalm /\ MemInStep /\ UnpairingInStep /\ LeftEnded

CalmInv == faults = 0 => Calm

LEMMA CallTypes ==
  ASSUME IInv, NEW c \in DOMAIN calls
  PROVE  /\ calls[c] \in Calls /\ calls[c].token \in Nat /\ calls[c].due \in Nat /\ calls[c].start \in Nat
         /\ calls[c].row \in Nat /\ calls[c].answer \in Nat /\ calls[c].open \in BOOLEAN
         /\ calls[c].slow \in BOOLEAN /\ calls[c].retry \in BOOLEAN
         /\ calls[c].by \in {"renewal", "unpairing"} /\ calls[c].replaces \in Nat
<1>1. calls[c] \in Calls
  BY DEF IInv, TypeOK
<1>2. QED
  BY <1>1 DEF Calls

\* The phone's tokens and the clock.
LEMMA PhoneTypes ==
  ASSUME IInv
  PROVE  /\ now \in Nat /\ issued \in Nat /\ mem.pairing \in Nat /\ mem.token \in Nat
         /\ (mem.pairing = 0 <=> mem.token = 0)
         /\ renewal.pairing \in Nat /\ renewal.token \in Nat
         /\ unpairing.pairing \in Nat /\ unpairing.token \in Nat /\ unpairing.alone \in BOOLEAN
         /\ mem \in Held /\ renewal \in Renewals /\ unpairing \in Unpairings
         /\ signIns \in Seq(SignIns) /\ calls \in Seq(Calls)
<1>1. /\ now \in Nat /\ issued \in Nat /\ mem \in Held /\ renewal \in Renewals /\ unpairing \in Unpairings
      /\ (mem.pairing = 0 <=> mem.token = 0) /\ signIns \in Seq(SignIns) /\ calls \in Seq(Calls)
  BY DEF IInv, TypeOK
<1>2. QED
  BY <1>1 DEF Held, Renewals, Unpairings

LEMMA RowTypes ==
  ASSUME IInv, NEW p \in DOMAIN signIns
  PROVE  /\ signIns[p].current \in Nat /\ signIns[p].previous \in Nat /\ signIns[p].until \in Nat
         /\ signIns[p].revoked \in BOOLEAN /\ p \in Nat /\ p # 0
<1>1. signIns[p] \in SignIns /\ p \in Nat /\ p # 0
  BY DEF IInv, TypeOK
<1>2. QED
  BY <1>1 DEF SignIns

\* A call as the phone sends it.
Fresh(call) ==
  call.stage = "sent" /\ call.open /\ ~call.slow /\ call.due = now + Timeout

LEMMA SentCall ==
  ASSUME IInv, NEW by \in {"renewal", "unpairing"}, NEW t \in Nat
  PROVE  /\ Call(by, t) \in Calls /\ Fresh(Call(by, t))
         /\ Call(by, t).by = by /\ Call(by, t).token = t
<1>1. now \in Nat /\ Timeout \in Nat
  BY SessionsAssumption, PhoneTypes
<1>2. Call(by, t) \in Calls
  BY <1>1, NewCall
<1>3. QED
  BY <1>2 DEF Fresh, Call

\* The calls that are open are those that were, and one more at most.
LEMMA CallsAfter ==
  ASSUME IInv, CallsCalm, UNCHANGED <<now, signIns, issued>>, NEW n,
         \A d \in DOMAIN calls' : calls'[d].open \/ calls'[d].stage \in {"sent", "read"} =>
           \/ /\ d \in DOMAIN calls /\ calls'[d] = calls[d] /\ Owner(d)' = Owner(d)
              /\ calls[d].by = "unpairing" => unpairing'.at = "asking"
           \/ /\ d = n /\ Fresh(calls'[d]) /\ Of(calls'[d].token, Owner(d)')
              /\ calls'[d].by = "unpairing" =>
                   /\ unpairing'.at = "asking"
                   /\ \A e \in DOMAIN calls : ~(calls[e].open /\ calls[e].by = "unpairing")
  PROVE  CallsCalm'
<1>0. now \in Nat /\ Timeout \in Nat /\ Timeout > 0
  BY SessionsAssumption, PhoneTypes
<1>1. ASSUME NEW d \in DOMAIN calls', calls'[d].open
      PROVE  InTime(d)'
  <2>1. CASE /\ d \in DOMAIN calls /\ calls'[d] = calls[d] /\ Owner(d)' = Owner(d)
             /\ calls[d].by = "unpairing" => unpairing'.at = "asking"
    BY <1>1, <2>1 DEF CallsCalm, InTime, Of
  <2>2. CASE /\ d = n /\ Fresh(calls'[d]) /\ Of(calls'[d].token, Owner(d)')
             /\ calls'[d].by = "unpairing" => unpairing'.at = "asking"
    BY <1>0, <2>2 DEF Fresh, InTime, Of
  <2>3. QED
    BY <1>1, <2>1, <2>2
<1>2. ASSUME NEW d \in DOMAIN calls', calls'[d].stage \in {"sent", "read"}
      PROVE  calls'[d].open
  BY <1>2 DEF CallsCalm, Fresh
<1>3. ASSUME NEW d \in DOMAIN calls', NEW e \in DOMAIN calls', calls'[d].open, calls'[d].by = "unpairing",
             calls'[e].open, calls'[e].by = "unpairing"
      PROVE  d = e
  BY <1>3 DEF CallsCalm
<1>4. QED
  BY <1>1, <1>2, <1>3 DEF CallsCalm

\* What a call brings its sign-in does not depend on the other calls.
LEMMA ServesSame ==
  ASSUME NEW d, NEW p, UNCHANGED <<signIns, expired>>, calls'[d] = calls[d], Serves(d, p)
  PROVE  Serves(d, p)'
BY DEF Serves

\* The phone has one call at most for a renewal, and for an unpairing, and is
\* done with the call it has the answer of.
LEMMA ClosedAnswer ==
  ASSUME IInv, NEW c \in DOMAIN calls, NEW by, Answered(c, by), calls' = Close(c)
  PROVE  /\ DOMAIN calls' = DOMAIN calls
         /\ \A d \in DOMAIN calls' : calls'[d].open \/ calls'[d].stage \in {"sent", "read"}
              => d # c /\ calls'[d] = calls[d]
<1>1. /\ DOMAIN calls' = DOMAIN calls
      /\ \A d \in DOMAIN calls : calls'[d] = IF d = c THEN Closed(calls[c]) ELSE calls[d]
  BY CloseGood DEF IInv
<1>2. Closed(calls[c]) = Gone
  BY DEF Answered, Closed
<1>3. QED
  BY <1>1, <1>2 DEF Gone

LEMMA OneMoreCall ==
  ASSUME IInv, NEW by \in {"renewal", "unpairing"}, NEW t \in Nat, calls' = Append(calls, Call(by, t))
  PROVE  \E n : /\ DOMAIN calls' = DOMAIN calls \cup {n} /\ n \notin DOMAIN calls
                /\ \A d \in DOMAIN calls : calls'[d] = calls[d]
                /\ Fresh(calls'[n]) /\ calls'[n].by = by /\ calls'[n].token = t
<1>1. calls \in Seq(Calls) /\ Call(by, t) \in Calls
  BY SentCall, PhoneTypes
<1>2. /\ DOMAIN calls' = 1..(Len(calls) + 1) /\ DOMAIN calls = 1..Len(calls) /\ Len(calls) \in Nat
      /\ \A d \in DOMAIN calls : calls'[d] = calls[d]
      /\ calls'[Len(calls) + 1] = Call(by, t)
  BY <1>1, AppendFacts
<1> DEFINE n == Len(calls) + 1
<1>3. DOMAIN calls' = DOMAIN calls \cup {n} /\ n \notin DOMAIN calls
  BY <1>2
<1>4. Fresh(calls'[n]) /\ calls'[n].by = by /\ calls'[n].token = t
  BY <1>2, SentCall
<1> HIDE DEF n
<1>5. QED
  BY <1>2, <1>3, <1>4

\* Nothing of the calls, the sign-ins and whose tokens the phone works with changes.
LEMMA NothingCalm ==
  ASSUME Calm, UNCHANGED <<now, server, calls, mem, renewal, unpairing, left, expired>>
  PROVE  Calm'
<1> USE DEF Calm, server
<1>1. CallsCalm' /\ HoldersCalm'
  BY DEF CallsCalm, HoldersCalm, InTime, Of, Owner
<1>2. MemInStep' /\ UnpairingInStep' /\ LeftEnded'
  BY DEF MemInStep, UnpairingInStep, LeftEnded, Serves
<1>3. QED
  BY <1>1, <1>2

LEMMA RenewCalm ==
  ASSUME IInv, Calm, NEW r, NEW waits, mem.pairing # 0, Renew(r, waits),
         UNCHANGED <<now, server, mem, disk, unpairing, people, faults, strained>>
  PROVE  Calm'
<1> USE DEF Calm, server, people
<1>1. CASE UNCHANGED <<renewal, calls>>
  BY <1>1, NothingCalm
<1>2. CASE /\ renewal.at = "off"
           /\ renewal' = [at |-> "asking", pairing |-> mem.pairing, token |-> mem.token, route |-> 1]
           /\ calls' = Append(calls, Call("renewal", mem.token))
  <2>1. PICK n : /\ DOMAIN calls' = DOMAIN calls \cup {n} /\ n \notin DOMAIN calls
                 /\ \A d \in DOMAIN calls : calls'[d] = calls[d]
                 /\ Fresh(calls'[n]) /\ calls'[n].by = "renewal" /\ calls'[n].token = mem.token
    BY <1>2, PhoneTypes, OneMoreCall
  <2>2. \A d \in DOMAIN calls : calls[d].open => calls[d].by = "unpairing"
    BY <1>2, CallTypes DEF IInv, Flight
  <2>3. /\ mem.pairing \in DOMAIN signIns /\ Of(mem.token, mem.pairing)
        /\ signIns[mem.pairing].current = mem.token
    BY <1>2 DEF HoldersCalm, MemInStep
  <2>4. ASSUME NEW d \in DOMAIN calls', calls'[d].open \/ calls'[d].stage \in {"sent", "read"}
        PROVE  \/ /\ d \in DOMAIN calls /\ calls'[d] = calls[d] /\ Owner(d)' = Owner(d)
                  /\ calls[d].by = "unpairing" => unpairing'.at = "asking"
               \/ /\ d = n /\ Fresh(calls'[d]) /\ Of(calls'[d].token, Owner(d)')
                  /\ calls'[d].by # "unpairing"
    <3>1. CASE d \in DOMAIN calls
      <4>1. calls[d].open /\ calls'[d] = calls[d]
        BY <2>1, <2>4, <3>1 DEF CallsCalm
      <4>2. calls[d].by = "unpairing" /\ unpairing.at = "asking"
        BY <2>2, <3>1, <4>1 DEF CallsCalm, InTime
      <4>3. QED
        BY <3>1, <4>1, <4>2 DEF Owner
    <3>2. CASE d = n
      BY <1>2, <2>1, <2>3, <3>2 DEF Owner
    <3>3. QED
      BY <2>1, <3>1, <3>2
  <2>5. CallsCalm'
    BY <2>4, CallsAfter
  <2>6. HoldersCalm'
    BY <1>2, <2>3 DEF HoldersCalm, Of
  <2>7. MemInStep'
    <3>1. ASSUME NEW d \in DOMAIN calls', calls'[d].open, calls'[d].by = "renewal"
          PROVE  Serves(d, mem.pairing)'
      <4>1. d = n
        BY <2>1, <2>2, <3>1
      <4>2. signIns'[mem'.pairing].current = calls'[d].token /\ calls'[d].stage = "sent"
        BY <2>1, <2>3, <4>1 DEF Fresh
      <4>3. QED
        BY <4>2 DEF Serves
    <3>2. QED
      BY <1>2, <3>1 DEF MemInStep
  <2>8. UnpairingInStep'
    <3>1. ASSUME unpairing.at # "off", unpairing.alone, NEW d \in DOMAIN calls', calls'[d].open,
                 calls'[d].by = "unpairing"
          PROVE  Serves(d, unpairing.pairing)'
      <4>1. d \in DOMAIN calls /\ calls'[d] = calls[d]
        BY <2>1, <3>1
      <4>2. Serves(d, unpairing.pairing)
        BY <3>1, <4>1 DEF UnpairingInStep
      <4>3. Serves(d, unpairing.pairing)'
        BY <4>1, <4>2 DEF Serves
      <4>4. QED
        BY <4>3
    <3>2. QED
      BY <3>1 DEF UnpairingInStep
  <2>9. QED
    BY <2>5, <2>6, <2>7, <2>8 DEF LeftEnded
<1>3. QED
  BY <1>1, <1>2 DEF Renew

LEMMA RequestsCalm ==
  ASSUME IInv, Calm, NEW r, Ask(r) \/ Finish(r) \/ Refused(r)
  PROVE  Calm'
<1>1. CASE UNCHANGED <<now, server, calls, mem, renewal, unpairing, left, expired>>
  BY <1>1, NothingCalm
<1>2. CASE \E waits : /\ mem.pairing # 0 /\ Renew(r, waits)
                      /\ UNCHANGED <<now, server, mem, disk, unpairing, people, faults, strained>>
  BY <1>2, RenewCalm
<1>3. QED
  BY <1>1, <1>2 DEF Ask, Finish, Refused, people

\* The answer of the renewal: no call of it is open any more.
LEMMA RenewalLanded ==
  ASSUME IInv, Calm, NEW c \in DOMAIN calls, Answered(c, "renewal"), calls' = Close(c),
         UNCHANGED <<now, server, unpairing, people>>
  PROVE  /\ CallsCalm' /\ renewal.at = "asking" /\ renewal.pairing # 0 /\ DOMAIN calls' = DOMAIN calls
         /\ \A d \in DOMAIN calls' : calls'[d].open => calls'[d] = calls[d] /\ calls'[d].by = "unpairing"
         /\ UnpairingInStep' /\ LeftEnded'
<1> USE DEF Calm, server, people
<1>1. /\ DOMAIN calls' = DOMAIN calls
      /\ \A d \in DOMAIN calls' : calls'[d].open \/ calls'[d].stage \in {"sent", "read"}
           => d # c /\ calls'[d] = calls[d]
  BY ClosedAnswer
<1>2. \A d \in DOMAIN calls : d # c /\ calls[d].open => calls[d].by = "unpairing"
  BY CallTypes DEF IInv, Flight, Answered
<1>3. renewal.at = "asking" /\ renewal.pairing # 0
  BY DEF IInv, Flight, Answered
<1>4. ASSUME NEW d \in DOMAIN calls', calls'[d].open \/ calls'[d].stage \in {"sent", "read"}
      PROVE  /\ d \in DOMAIN calls /\ calls'[d] = calls[d] /\ Owner(d)' = Owner(d)
             /\ calls[d].by = "unpairing" => unpairing'.at = "asking"
  <2>1. d # c /\ calls'[d] = calls[d] /\ d \in DOMAIN calls
    BY <1>1, <1>4
  <2>2. calls[d].open
    BY <1>4, <2>1 DEF CallsCalm
  <2>3. calls[d].by = "unpairing" /\ unpairing.at = "asking"
    BY <1>2, <2>1, <2>2 DEF CallsCalm, InTime
  <2>4. QED
    BY <2>1, <2>3 DEF Owner
<1>5. CallsCalm'
  <2>1. PICK n : n \notin DOMAIN calls'
    <3>1. 0 \notin DOMAIN calls
      BY PhoneTypes
    <3>2. QED
      BY <1>1, <3>1
  <2>2. QED
    BY <1>4, CallsAfter
<1>6. UnpairingInStep'
  <2>1. ASSUME unpairing.at # "off", unpairing.alone, NEW d \in DOMAIN calls', calls'[d].open,
               calls'[d].by = "unpairing"
        PROVE  Serves(d, unpairing.pairing)'
    <3>1. d \in DOMAIN calls /\ calls'[d] = calls[d]
      BY <1>1, <2>1
    <3>2. Serves(d, unpairing.pairing)
      BY <2>1, <3>1 DEF UnpairingInStep
    <3>3. QED
      BY <3>1, <3>2 DEF Serves
  <2>2. QED
    BY <2>1 DEF UnpairingInStep
<1>7. QED
  BY <1>1, <1>2, <1>3, <1>5, <1>6 DEF LeftEnded

LEMMA RenewedCalm ==
  ASSUME IInv, Calm, NEW c \in DOMAIN calls, Renewed(c)
  PROVE  Calm'
<1> USE DEF Calm, server, people
<1>1. /\ CallsCalm' /\ renewal.at = "asking" /\ renewal.pairing # 0 /\ DOMAIN calls' = DOMAIN calls
      /\ \A d \in DOMAIN calls' : calls'[d].open => calls'[d].by = "unpairing"
      /\ UnpairingInStep' /\ LeftEnded'
  BY RenewalLanded DEF Renewed
<1>2. InTime(c) /\ Owner(c) = renewal.pairing
  BY DEF Renewed, Answered, CallsCalm, Owner
<1>3. CASE /\ StillHeld /\ mem' = [mem EXCEPT !.token = calls[c].answer]
           /\ renewal' = [renewal EXCEPT !.at = "saving", !.token = calls[c].answer]
  <2>1. mem.pairing = renewal.pairing /\ mem \in Held /\ renewal \in Renewals
    BY <1>3, PhoneTypes DEF StillHeld, Held
  <2>2. Serves(c, mem.pairing) /\ mem.pairing \in DOMAIN signIns
    BY <1>1, <2>1 DEF MemInStep, HoldersCalm, Renewed, Answered
  <2>3. signIns[mem.pairing].current = calls[c].answer
    BY <2>2 DEF Serves, Renewed, Answered
  <2>4. /\ mem'.pairing = mem.pairing /\ mem'.token = calls[c].answer
        /\ renewal'.at = "saving" /\ renewal'.pairing = renewal.pairing
    BY <1>3, <2>1 DEF Held, Renewals
  <2>5. Of(mem.token, mem.pairing)'
    BY <1>2, <2>1, <2>4 DEF InTime, Of, Renewed, Answered
  <2>6. HoldersCalm'
    BY <1>1, <2>1, <2>4, <2>5 DEF HoldersCalm, Of, Renewed
  <2>7. MemInStep'
    BY <1>1, <2>3, <2>4 DEF MemInStep, Renewed
  <2>8. QED
    BY <1>1, <2>6, <2>7 DEF Renewed
<1>4. CASE ~StillHeld /\ renewal' = NoRenewal /\ UNCHANGED mem
  <2>1. mem.pairing # renewal.pairing
    <3>1. mem \in Held
      BY PhoneTypes
    <3>2. mem = [pairing |-> mem.pairing, token |-> mem.token]
      BY <3>1 DEF Held
    <3>3. QED
      BY <1>1, <1>4, <3>2 DEF HoldersCalm, StillHeld
  <2>2. HoldersCalm'
    BY <1>4 DEF HoldersCalm, Of, NoRenewal, Renewed
  <2>3. MemInStep'
    BY <1>1, <1>4, <2>1 DEF MemInStep, NoRenewal, Renewed
  <2>4. QED
    BY <1>1, <2>2, <2>3 DEF Renewed
<1>5. QED
  BY <1>3, <1>4 DEF Renewed

LEMMA RenewalRefusedCalm ==
  ASSUME IInv, Calm, NEW c \in DOMAIN calls, RenewalRefused(c)
  PROVE  Calm'
<1> USE DEF Calm, server, people, RenewalRefused, RenewalRefusedIf
<1>1. /\ CallsCalm' /\ renewal.at = "asking" /\ renewal.pairing # 0 /\ DOMAIN calls' = DOMAIN calls
      /\ \A d \in DOMAIN calls' : calls'[d].open => calls'[d].by = "unpairing"
      /\ UnpairingInStep' /\ LeftEnded'
  BY RenewalLanded
<1>2. renewal'.at = "off"
  BY DEF NoRenewal
<1>3. CASE mem' = Nobody
  <2>1. mem'.pairing = 0 /\ HoldersCalm
    BY <1>3 DEF Nobody
  <2>2. UNCHANGED <<signIns, issued, unpairing, expired>>
    OBVIOUS
  <2> HIDE DEF RenewalRefused, RenewalRefusedIf
  <2>3. unpairing.at # "off" => unpairing.pairing # 0
    BY <2>1, RowTypes DEF HoldersCalm
  <2>4. HoldersCalm'
    BY <1>2, <2>1, <2>2, <2>3 DEF HoldersCalm, Of
  <2>5. MemInStep'
    BY <2>1 DEF MemInStep
  <2>6. QED
    BY <1>1, <2>2, <2>4, <2>5
<1>4. CASE ~StillHeld /\ UNCHANGED mem
  <2>1. mem.pairing # renewal.pairing
    <3>1. mem \in Held
      BY PhoneTypes
    <3>2. mem = [pairing |-> mem.pairing, token |-> mem.token]
      BY <3>1 DEF Held
    <3>3. QED
      BY <1>1, <1>4, <3>2 DEF HoldersCalm, StillHeld
  <2>2. HoldersCalm'
    BY <1>2, <1>4 DEF HoldersCalm, Of
  <2>3. MemInStep'
    BY <1>1, <1>2, <1>4, <2>1 DEF MemInStep
  <2>4. QED
    BY <1>1, <2>2, <2>3
<1>5. QED
  BY <1>3, <1>4

\* The renewal is over: nothing of it is open.
LEMMA SaveCalm ==
  ASSUME IInv, Calm, Save
  PROVE  Calm'
<1> USE DEF Calm, server, people
<1>1. renewal.at = "saving" /\ renewal'.at = "off"
  BY DEF Save, NoRenewal
<1>2. \A d \in DOMAIN calls : calls[d].open => calls[d].by = "unpairing"
  BY <1>1, CallTypes DEF IInv, Flight
<1>3. ASSUME NEW d \in DOMAIN calls, calls[d].open \/ calls[d].stage \in {"sent", "read"}
      PROVE  /\ Owner(d)' = Owner(d)
             /\ calls[d].by = "unpairing" => unpairing'.at = "asking"
  <2>1. calls[d].open
    BY <1>3 DEF CallsCalm
  <2>2. QED
    BY <1>2, <2>1 DEF CallsCalm, InTime, Owner, Save
<1>4. CallsCalm'
  BY <1>3, CallsAfter DEF Save
<1>5. HoldersCalm' /\ MemInStep'
  BY <1>1, <1>2 DEF HoldersCalm, MemInStep, Of, Save
<1>6. UnpairingInStep' /\ LeftEnded'
  BY DEF UnpairingInStep, LeftEnded, Serves, Save
<1>7. QED
  BY <1>4, <1>5, <1>6 DEF Save

\* No call goes unanswered.
LEMMA NoneUnanswered ==
  ASSUME Calm, NEW c \in DOMAIN calls, NEW by
  PROVE  ~Unanswered(c, by)
BY DEF Calm, CallsCalm, InTime, Unanswered

\* What the phone has of a call is the same after a step that leaves its token be.
LEMMA CallsSame ==
  ASSUME IInv, CallsCalm, UNCHANGED <<now, signIns, issued, calls>>,
         \A d \in DOMAIN calls : calls[d].open =>
           Owner(d)' = Owner(d) /\ (calls[d].by = "unpairing" => unpairing'.at = "asking")
  PROVE  CallsCalm'
<1>1. \A d \in DOMAIN calls : calls[d].open \/ calls[d].stage \in {"sent", "read"} => calls[d].open
  BY DEF CallsCalm
<1>2. QED
  BY <1>1, CallsAfter

\* A person unpairs the phone: what no renewal was about to replace is current.
LEMMA UnpairCalm ==
  ASSUME IInv, Calm, Unpair
  PROVE  Calm'
<1> USE DEF Calm, server
<1>1. /\ mem.pairing # 0 /\ unpairing.at = "off" /\ mem'.pairing = 0
      /\ unpairing' = [at |-> "forgetting", pairing |-> mem.pairing, token |-> mem.token, route |-> 1,
                       alone |-> renewal.at = "off"]
      /\ UNCHANGED <<now, signIns, issued, calls, renewal, left, expired>>
  BY DEF Unpair, UnpairTo, Nobody
<1>2. \A d \in DOMAIN calls : calls[d].open => calls[d].by = "renewal"
  BY <1>1, CallTypes DEF CallsCalm, InTime
<1>3. CallsCalm'
  BY <1>1, <1>2, CallsSame DEF Owner
<1>4. HoldersCalm'
  <2>1. renewal.at # "off" => renewal.pairing # 0
    BY DEF IInv, Flight
  <2>2. /\ unpairing'.pairing = mem.pairing /\ unpairing'.token = mem.token
        /\ unpairing'.alone => renewal.at = "off"
    BY <1>1
  <2>3. mem.pairing \in DOMAIN signIns /\ Of(mem.token, mem.pairing)
    BY <1>1 DEF HoldersCalm
  <2>4. Of(unpairing.token, unpairing.pairing)'
    BY <1>1, <2>2, <2>3 DEF Of
  <2>5. QED
    BY <1>1, <2>1, <2>2, <2>3, <2>4 DEF HoldersCalm
<1>5. MemInStep' /\ LeftEnded'
  BY <1>1 DEF MemInStep, LeftEnded
<1>6. UnpairingInStep'
  BY <1>1, <1>2 DEF UnpairingInStep, MemInStep
<1>7. QED
  BY <1>1, <1>3, <1>4, <1>5, <1>6

LEMMA RevokeOnServerCalm ==
  ASSUME IInv, Calm, RevokeOnServer
  PROVE  Calm'
<1> USE DEF Calm, server, people
<1>1. /\ unpairing.at = "forgetting"
      /\ UNCHANGED <<now, signIns, issued, mem, renewal, left, expired>>
  BY DEF RevokeOnServer, RevokeOnServerRenewing
<1>2. \A d \in DOMAIN calls : calls[d].open => calls[d].by = "renewal"
  BY <1>1, CallTypes DEF CallsCalm, InTime
<1>3. /\ unpairing'.pairing = unpairing.pairing /\ unpairing'.token = unpairing.token
      /\ unpairing'.alone = unpairing.alone /\ unpairing'.at \in {"asking", "deleting"}
  <2>1. unpairing \in Unpairings
    BY PhoneTypes
  <2>2. QED
    BY <2>1 DEF RevokeOnServer, RevokeOnServerRenewing, Unpairings
<1>4. HoldersCalm'
  BY <1>1, <1>3 DEF HoldersCalm, Of
<1>5. CASE UNCHANGED calls /\ unpairing' = [unpairing EXCEPT !.at = "deleting"] /\ unpairing.token \notin expired
  <2>1. unpairing'.at = "deleting"
    BY <1>5, PhoneTypes DEF Unpairings
  <2>2. CallsCalm'
    BY <1>1, <1>2, <1>5, CallsSame DEF Owner
  <2>3. MemInStep' /\ LeftEnded'
    BY <1>1, <1>5 DEF MemInStep, LeftEnded, Serves
  <2>4. UnpairingInStep'
    BY <1>1, <1>2, <1>3, <1>5, <2>1 DEF UnpairingInStep
  <2>5. QED
    BY <1>1, <1>4, <2>2, <2>3, <2>4
<1>6. CASE /\ calls' = Append(calls, Call("unpairing", unpairing.token))
           /\ unpairing' = [unpairing EXCEPT !.at = "asking"]
  <2>1. unpairing'.at = "asking"
    BY <1>6, PhoneTypes DEF Unpairings
  <2>2. PICK n : /\ DOMAIN calls' = DOMAIN calls \cup {n} /\ n \notin DOMAIN calls
                 /\ \A d \in DOMAIN calls : calls'[d] = calls[d]
                 /\ Fresh(calls'[n]) /\ calls'[n].by = "unpairing" /\ calls'[n].token = unpairing.token
    BY <1>6, PhoneTypes, OneMoreCall
  <2>3. ASSUME NEW d \in DOMAIN calls', calls'[d].open \/ calls'[d].stage \in {"sent", "read"}
        PROVE  \/ /\ d \in DOMAIN calls /\ calls'[d] = calls[d] /\ Owner(d)' = Owner(d)
                  /\ calls[d].by # "unpairing"
               \/ /\ d = n /\ Fresh(calls'[d]) /\ Of(calls'[d].token, Owner(d)')
                  /\ unpairing'.at = "asking"
                  /\ \A e \in DOMAIN calls : ~(calls[e].open /\ calls[e].by = "unpairing")
    <3>1. CASE d \in DOMAIN calls
      <4>1. calls[d].open /\ calls'[d] = calls[d]
        BY <2>2, <2>3, <3>1 DEF CallsCalm
      <4>2. QED
        BY <1>1, <1>2, <3>1, <4>1 DEF Owner
    <3>2. CASE d = n
      <4>1. Owner(d)' = unpairing'.pairing
        BY <2>2, <3>2 DEF Owner
      <4>2. Of(unpairing.token, unpairing.pairing)
        BY <1>1 DEF HoldersCalm
      <4>3. QED
        BY <1>2, <1>3, <2>1, <2>2, <3>2, <4>1, <4>2
    <3>3. QED
      BY <2>2, <2>3, <3>1, <3>2
  <2>4. CallsCalm'
    BY <1>1, <2>1, <2>3, CallsAfter
  <2>5. MemInStep' /\ LeftEnded'
    <3>1. ASSUME NEW d \in DOMAIN calls', calls'[d].open, calls'[d].by = "renewal", mem.pairing # 0,
                 renewal.pairing = mem.pairing
          PROVE  Serves(d, mem.pairing)'
      <4>1. d \in DOMAIN calls /\ calls'[d] = calls[d]
        BY <2>2, <3>1
      <4>2. Serves(d, mem.pairing)
        BY <3>1, <4>1 DEF MemInStep
      <4>3. QED
        BY <1>1, <4>1, <4>2 DEF Serves
    <3>2. QED
      BY <1>1, <3>1 DEF MemInStep, LeftEnded
  <2>6. UnpairingInStep'
    <3>1. ASSUME unpairing.alone, NEW d \in DOMAIN calls', calls'[d].open, calls'[d].by = "unpairing"
          PROVE  Serves(d, unpairing.pairing)'
      <4>1. d = n
        BY <1>2, <2>2, <3>1
      <4>2. signIns[unpairing.pairing].current = unpairing.token
        BY <1>1, <3>1 DEF UnpairingInStep
      <4>3. QED
        BY <1>1, <1>3, <2>2, <4>1, <4>2 DEF Serves, Fresh
    <3>2. QED
      BY <1>3, <2>1, <3>1 DEF UnpairingInStep
  <2>7. QED
    BY <1>1, <1>4, <2>4, <2>5, <2>6
<1>7. QED
  BY <1>5, <1>6 DEF RevokeOnServer, RevokeOnServerRenewing

\* The background's bearer is renewed, or its sign-in has ended.
LEMMA UnpairingAnsweredCalm ==
  ASSUME IInv, Calm, NEW c \in DOMAIN calls, UnpairingAnswered(c)
  PROVE  Calm'
<1> USE DEF Calm, server, people
<1>1. /\ UNCHANGED <<now, signIns, issued, mem, renewal, left, expired>>
      /\ calls[c].open /\ calls[c].by = "unpairing" /\ calls[c].stage = "answered"
  BY DEF UnpairingAnswered, Answered
<1>2. /\ DOMAIN calls' = DOMAIN calls
      /\ \A d \in DOMAIN calls' : calls'[d].open \/ calls'[d].stage \in {"sent", "read"}
           => d # c /\ calls'[d] = calls[d]
  BY ClosedAnswer DEF UnpairingAnswered
<1>3. \A d \in DOMAIN calls : d # c /\ calls[d].open => calls[d].by = "renewal"
  BY <1>1, CallTypes DEF CallsCalm
<1>4. /\ InTime(c) /\ Owner(c) = unpairing.pairing /\ unpairing.at = "asking"
  BY <1>1 DEF CallsCalm, InTime, Owner
<1>5. /\ unpairing'.at = "deleting" /\ unpairing'.pairing = unpairing.pairing
      /\ unpairing'.alone = unpairing.alone
      /\ unpairing'.token = IF calls[c].answer # 0 THEN calls[c].answer ELSE unpairing.token
  <2>1. unpairing \in Unpairings
    BY PhoneTypes
  <2>2. QED
    BY <2>1 DEF UnpairingAnswered, Unpairings
<1>6. ASSUME NEW d \in DOMAIN calls', calls'[d].open \/ calls'[d].stage \in {"sent", "read"}
      PROVE  /\ d \in DOMAIN calls /\ calls'[d] = calls[d] /\ Owner(d)' = Owner(d)
             /\ calls[d].by = "renewal" /\ calls[d].open
  <2>1. d # c /\ calls'[d] = calls[d] /\ d \in DOMAIN calls
    BY <1>2, <1>6
  <2>2. calls[d].open
    BY <1>6, <2>1 DEF CallsCalm
  <2>3. QED
    BY <1>1, <1>3, <2>1, <2>2 DEF Owner
<1>7. CallsCalm'
  <2>1. 0 \notin DOMAIN calls'
    BY <1>2, PhoneTypes
  <2>2. QED
    BY <1>1, <1>6, <2>1, CallsAfter
<1>8. Of(unpairing.token, unpairing.pairing)'
  BY <1>1, <1>4, <1>5 DEF InTime, HoldersCalm, Of
<1>9. HoldersCalm'
  BY <1>1, <1>4, <1>5, <1>8 DEF HoldersCalm, Of
<1>10. MemInStep' /\ LeftEnded'
  <2>1. ASSUME NEW d \in DOMAIN calls', calls'[d].open, mem.pairing # 0, renewal.pairing = mem.pairing
        PROVE  Serves(d, mem.pairing)'
    <3>1. Serves(d, mem.pairing)
      BY <1>6, <2>1 DEF MemInStep
    <3>2. QED
      BY <1>1, <1>6, <2>1, <3>1 DEF Serves
  <2>2. QED
    BY <1>1, <2>1 DEF MemInStep, LeftEnded
<1>11. UnpairingInStep'
  <2>1. unpairing.alone => Serves(c, unpairing.pairing)
    BY <1>1, <1>4 DEF UnpairingInStep
  <2>2. unpairing.alone =>
          \/ signIns[unpairing.pairing].revoked
          \/ signIns[unpairing.pairing].current = unpairing'.token /\ unpairing'.token \notin expired
    BY <1>1, <1>5, <2>1 DEF Serves
  <2>3. \A d \in DOMAIN calls' : calls'[d].open => calls'[d].by # "unpairing"
    BY <1>6
  <2>4. QED
    BY <1>1, <1>5, <2>2, <2>3 DEF UnpairingInStep
<1>12. QED
  BY <1>1, <1>7, <1>9, <1>10, <1>11

\* The household only grows: tokens stay of their sign-ins, and what ended has.
RowsLast ==
  /\ \A t, p : Of(t, p) => Of(t, p)'
  /\ \A q \in DOMAIN signIns : q \in DOMAIN signIns' /\ (signIns[q].revoked => signIns'[q].revoked)

LEMMA RevokedRows ==
  ASSUME IInv, UNCHANGED issued, NEW p \in DOMAIN signIns, signIns' = Revoke(p)
  PROVE  /\ RowsLast /\ DOMAIN signIns' = DOMAIN signIns /\ signIns'[p].revoked
         /\ \A q \in DOMAIN signIns : /\ signIns'[q].current = signIns[q].current
                                      /\ signIns'[q].previous = signIns[q].previous
                                      /\ signIns'[q].until = signIns[q].until
                                      /\ (q # p => signIns'[q] = signIns[q])
                                      /\ (signIns[q].revoked => signIns'[q].revoked)
<1>1. /\ DOMAIN signIns' = DOMAIN signIns
      /\ \A q \in DOMAIN signIns : /\ signIns'[q].current = signIns[q].current
                                   /\ signIns'[q].previous = signIns[q].previous
                                   /\ signIns'[q].until = signIns[q].until
                                   /\ (signIns[q].revoked => signIns'[q] = signIns[q])
  BY PhoneTypes, RevokeGood
<1>2. signIns[p] \in SignIns /\ \A q \in DOMAIN signIns : q # p => signIns'[q] = signIns[q]
  BY PhoneTypes DEF Revoke
<1>3. signIns'[p].revoked
  BY <1>2, PhoneTypes DEF Revoke, SignIns
<1>4. \A t, q : Of(t, q) => Of(t, q)'
  BY <1>1 DEF Of
<1>5. QED
  BY <1>1, <1>2, <1>3, <1>4 DEF RowsLast

LEMMA EndSignInCalm ==
  ASSUME IInv, Calm, NEW p \in DOMAIN signIns, EndSignIn(p)
  PROVE  Calm'
<1> USE DEF Calm
<1>1. /\ UNCHANGED <<now, issued, calls, mem, renewal, unpairing, left, expired>>
      /\ signIns' = Revoke(p)
  BY DEF EndSignIn, phone
<1>2. /\ RowsLast /\ DOMAIN signIns' = DOMAIN signIns
      /\ \A q \in DOMAIN signIns : /\ signIns'[q].current = signIns[q].current
                                   /\ signIns'[q].until = signIns[q].until
                                   /\ (signIns[q].revoked => signIns'[q].revoked)
  BY <1>1, RevokedRows
<1>3. ASSUME NEW d \in DOMAIN calls, InTime(d)
      PROVE  InTime(d)'
  BY <1>1, <1>2, <1>3 DEF InTime, Owner, RowsLast
<1>4. CallsCalm'
  BY <1>1, <1>3 DEF CallsCalm
<1>5. HoldersCalm'
  <2>1. \A t, q : Of(t, q) => Of(t, q)'
    BY <1>2 DEF RowsLast
  <2>2. QED
    BY <1>1, <1>2, <2>1 DEF HoldersCalm
<1>6. ASSUME NEW d, NEW q \in DOMAIN signIns, Serves(d, q)
      PROVE  Serves(d, q)'
  BY <1>1, <1>2, <1>6 DEF Serves
<1>7. MemInStep'
  BY <1>1, <1>2, <1>6 DEF MemInStep, HoldersCalm
<1>8. UnpairingInStep'
  BY <1>1, <1>2, <1>6 DEF UnpairingInStep, HoldersCalm
<1>9. LeftEnded'
  BY <1>1, <1>2 DEF LeftEnded
<1>10. QED
  BY <1>1, <1>4, <1>5, <1>7, <1>8, <1>9

\* The background's own call ends the sign-in, unless it had ended.
LEMMA DeleteCalm ==
  ASSUME IInv, Calm, Delete, UNCHANGED faults
  PROVE  Calm'
<1> USE DEF Calm
<1>1. /\ UNCHANGED <<now, issued, calls, mem, renewal, expired>>
      /\ unpairing.at = "deleting" /\ unpairing'.at = "off"
      /\ left' = left \cup {[pairing |-> unpairing.pairing, alone |-> unpairing.alone]}
      /\ unpairing.pairing \in DOMAIN signIns
  BY DEF Delete, NoUnpairing, HoldersCalm
<1>2. /\ RowsLast /\ DOMAIN signIns' = DOMAIN signIns
      /\ \A q \in DOMAIN signIns : /\ signIns'[q].current = signIns[q].current
                                   /\ signIns'[q].until = signIns[q].until
                                   /\ (signIns[q].revoked => signIns'[q].revoked)
  <2>1. CASE signIns' = Revoke(unpairing.pairing)
    BY <1>1, <2>1, RevokedRows
  <2>2. CASE UNCHANGED signIns
    BY <1>1, <2>2 DEF RowsLast, Of
  <2>3. QED
    BY <2>1, <2>2 DEF Delete
<1>3. unpairing.alone => signIns'[unpairing.pairing].revoked
  <2>1. CASE signIns' = Revoke(unpairing.pairing)
    BY <1>1, <2>1, RevokedRows
  <2>2. CASE MayRefuse(unpairing.token) /\ UNCHANGED signIns
    BY <1>1, <2>2 DEF UnpairingInStep, MayRefuse, Accepts, CurrentOf
  <2>3. QED
    <3>1. faults \in Nat /\ ~Fault
      BY DEF IInv, TypeOK, Fault
    <3>2. QED
      BY <2>1, <2>2, <3>1 DEF Delete
<1>4. \A d \in DOMAIN calls : calls[d].open => calls[d].by = "renewal"
  BY <1>1, CallTypes DEF CallsCalm, InTime
<1>5. ASSUME NEW d \in DOMAIN calls, calls[d].open
      PROVE  InTime(d)'
  BY <1>1, <1>2, <1>4, <1>5 DEF CallsCalm, InTime, Owner, RowsLast
<1>6. CallsCalm'
  BY <1>1, <1>5 DEF CallsCalm
<1>7. HoldersCalm'
  <2>1. \A t, q : Of(t, q) => Of(t, q)'
    BY <1>2 DEF RowsLast
  <2>2. QED
    BY <1>1, <1>2, <2>1 DEF HoldersCalm
<1>8. MemInStep'
  <2>1. ASSUME NEW d, NEW q \in DOMAIN signIns, Serves(d, q)
        PROVE  Serves(d, q)'
    BY <1>1, <1>2, <2>1 DEF Serves
  <2>2. QED
    BY <1>1, <1>2, <2>1 DEF MemInStep, HoldersCalm
<1>9. UnpairingInStep'
  BY <1>1 DEF UnpairingInStep
<1>10. LeftEnded'
  BY <1>1, <1>2, <1>3 DEF LeftEnded
<1>11. QED
  BY <1>1, <1>6, <1>7, <1>8, <1>9, <1>10

\* A new sign-in's token is of it alone.
LEMMA PairCalm ==
  ASSUME IInv, Calm, Pair, UNCHANGED faults
  PROVE  Calm'
<1> DEFINE p == Len(signIns) + 1
           t == issued + 1
           e == [current |-> t, previous |-> 0, until |-> 0, revoked |-> FALSE]
<1> USE DEF Calm
<1>0. faults \in Nat /\ issued \in Nat /\ signIns \in Seq(SignIns)
  BY DEF IInv, TypeOK
<1>1. /\ UNCHANGED <<now, calls, renewal, unpairing, left, expired>>
      /\ mem' = [pairing |-> p, token |-> t] /\ issued' = t /\ signIns' = Append(signIns, e)
  BY <1>0 DEF Pair, people
<1>2. e \in SignIns /\ e.current = t /\ e.previous = 0 /\ t \in Nat /\ t # 0
  BY <1>0 DEF SignIns
<1> HIDE DEF e
<1>3. /\ DOMAIN signIns' = DOMAIN signIns \cup {p} /\ p \notin DOMAIN signIns /\ p # 0
      /\ \A q \in DOMAIN signIns : signIns'[q] = signIns[q]
      /\ signIns'[p] = e
  <2>1. /\ DOMAIN signIns' = 1..p /\ DOMAIN signIns = 1..Len(signIns) /\ Len(signIns) \in Nat
        /\ \A q \in DOMAIN signIns : signIns'[q] = signIns[q]
        /\ signIns'[p] = e
    BY <1>0, <1>1, <1>2, AppendFacts
  <2>2. QED
    BY <2>1
<1> PICK m : m = p
  OBVIOUS
<1> PICK s : s = t
  OBVIOUS
<1>4. Of(s, m)'
  <2>1. \A q \in DOMAIN signIns : signIns[q].current # t /\ signIns[q].previous # t
    BY <1>0 DEF IInv, SInv, Distinct
  <2>2. QED
    BY <1>0, <1>1, <1>2, <1>3, <2>1 DEF Of
<1>5. ASSUME NEW u, NEW q, Of(u, q)
      PROVE  Of(u, q)'
  <2>1. u \in 1..issued' /\ u # t /\ u # 0
    BY <1>0, <1>1, <1>5 DEF Of
  <2>2. QED
    BY <1>2, <1>3, <1>5, <2>1 DEF Of
<1>6. ASSUME NEW d \in DOMAIN calls, calls[d].open
      PROVE  InTime(d)'
  BY <1>1, <1>5, <1>6 DEF CallsCalm, InTime, Owner
<1>7. CallsCalm'
  BY <1>1, <1>6 DEF CallsCalm
<1>8. HoldersCalm'
  BY <1>1, <1>3, <1>4, <1>5 DEF HoldersCalm
<1>9. MemInStep'
  <2>1. \A d \in DOMAIN calls : calls[d].open /\ calls[d].by = "renewal" => renewal.at = "asking"
    BY DEF IInv, Flight
  <2>2. QED
    BY <1>1, <1>2, <1>3, <2>1 DEF MemInStep, HoldersCalm
<1>10. UnpairingInStep'
  <2>1. ASSUME NEW d, NEW q \in DOMAIN signIns, Serves(d, q)
        PROVE  Serves(d, q)'
    BY <1>1, <1>3, <2>1 DEF Serves
  <2>2. QED
    BY <1>1, <1>3, <2>1 DEF UnpairingInStep, HoldersCalm
<1>11. LeftEnded'
  BY <1>1, <1>3 DEF LeftEnded
<1>12. expired' \subseteq 1..issued'
  BY <1>0, <1>1
<1>13. QED
  BY <1>7, <1>8, <1>9, <1>10, <1>11, <1>12

\* The phone's calls end in time, as the clock goes on.
LEMMA TickCalm ==
  ASSUME IInv, Calm, Tick
  PROVE  Calm'
<1> USE DEF Calm, server, phone, people
<1>1. /\ UNCHANGED <<signIns, issued, calls, mem, renewal, unpairing, left, expired>>
      /\ now' = now + 1 /\ now \in Nat /\ Timeout \in Nat
  BY SessionsAssumption, PhoneTypes DEF Tick
<1>2. ASSUME NEW d \in DOMAIN calls, calls[d].open
      PROVE  InTime(d)'
  <2>1. InTime(d) /\ calls[d].due \in Nat
    BY <1>2, CallTypes DEF CallsCalm
  <2>2. now + 2 <= calls[d].due
    BY <1>2, <2>1 DEF Tick, InTime
  <2>3. now' < calls[d].due /\ calls[d].due <= now' + Timeout
    BY <1>1, <2>1, <2>2 DEF InTime
  <2>4. QED
    BY <1>1, <2>1, <2>3 DEF InTime, Of, Owner
<1>3. CallsCalm'
  BY <1>1, <1>2 DEF CallsCalm
<1>4. HoldersCalm' /\ LeftEnded'
  BY <1>1 DEF HoldersCalm, LeftEnded, Of
<1>5. MemInStep' /\ UnpairingInStep'
  BY <1>1 DEF MemInStep, UnpairingInStep, Serves
<1>6. QED
  BY <1>1, <1>3, <1>4, <1>5

\* A bearer that runs out is not one on its way, nor the background's.
LEMMA ExpireCalm ==
  ASSUME IInv, Calm, NEW p \in DOMAIN signIns, Expire(p)
  PROVE  Calm'
<1> USE DEF Calm, server, phone
<1>1. /\ UNCHANGED <<now, signIns, issued, calls, mem, renewal, unpairing, left>>
      /\ expired' = expired \cup {signIns[p].current} /\ signIns[p].until <= now
      /\ signIns[p].current \notin Carried
  BY DEF Expire
<1>2. expired' \subseteq 1..issued'
  BY <1>1 DEF IInv, SInv, Distinct
<1>3. CallsCalm' /\ HoldersCalm' /\ LeftEnded'
  BY <1>1 DEF CallsCalm, HoldersCalm, LeftEnded, InTime, Of, Owner
<1>4. ASSUME NEW d \in DOMAIN calls, calls[d].open, NEW q \in DOMAIN signIns, Serves(d, q)
      PROVE  Serves(d, q)'
  <2>1. CASE calls[d].stage = "answered" /\ calls[d].answer # 0
    <3>1. now < calls[d].due /\ calls[d].due \in Nat /\ now \in Nat
      BY <1>4, CallTypes, PhoneTypes DEF CallsCalm, InTime
    <3>2. signIns[q].current = calls[d].answer /\ signIns[q].until >= calls[d].due /\ signIns[q].until \in Nat
      BY <1>4, <2>1, RowTypes DEF Serves
    <3>3. q # p
      BY <1>1, <3>1, <3>2
    <3>4. calls[d].answer # signIns[p].current
      BY <3>2, <3>3 DEF IInv, SInv, Distinct
    <3>5. QED
      BY <1>1, <1>4, <2>1, <3>4 DEF Serves
  <2>2. CASE ~(calls[d].stage = "answered" /\ calls[d].answer # 0)
    BY <1>1, <1>4, <2>2 DEF Serves
  <2>3. QED
    BY <2>1, <2>2
<1>5. MemInStep'
  BY <1>1, <1>4 DEF MemInStep, HoldersCalm
<1>6. UnpairingInStep'
  <2>1. unpairing.at = "deleting" => unpairing.token # signIns[p].current
    BY <1>1 DEF Carried
  <2>2. QED
    BY <1>1, <1>4, <2>1 DEF UnpairingInStep, HoldersCalm
<1>7. QED
  BY <1>2, <1>3, <1>5, <1>6

----------------------------------------------------------------------------
(* The household's handlers, as long as nothing fails                      *)

\* A handler goes on with one call, for the sign-in that call is made for.
LEMMA HandledCalm ==
  ASSUME IInv, Calm, NEW c \in DOMAIN calls, calls[c].open, NEW p, p = Owner(c),
         UNCHANGED <<now, mem, renewal, unpairing, left, expired>>, issued' \in Nat, issued <= issued',
         DOMAIN calls' = DOMAIN calls, \A d \in DOMAIN calls : d # c => calls'[d] = calls[d],
         calls'[c].open, calls'[c].by = calls[c].by, calls'[c].token = calls[c].token,
         calls'[c].due = calls[c].due, ~calls'[c].slow, calls'[c].stage \in {"read", "answered"},
         calls'[c].stage = "read" => calls'[c].row = p /\ calls'[c].due <= calls'[c].start + Timeout,
         \A u : calls'[c].stage = "answered" /\ u = calls'[c].answer /\ u # 0 => Of(u, p)',
         RowsLast, \A q \in DOMAIN signIns : q # p => signIns'[q] = signIns[q],
         Serves(c, p) => Serves(c, p)'
  PROVE  Calm'
<1> USE DEF Calm
<1>1. ASSUME NEW d \in DOMAIN calls, calls[d].open
      PROVE  InTime(d)'
  <2>1. Owner(d)' = Owner(d) /\ InTime(d)
    BY <1>1 DEF Owner, CallsCalm
  <2>2. CASE d = c
    <3> PICK tk, tp : tk = calls[c].token /\ tp = calls'[c].answer
      OBVIOUS
    <3>1. Of(tk, p) /\ Of(tk, p)' /\ calls'[c].token = tk /\ Owner(c)' = p
      BY <2>1, <2>2 DEF InTime, RowsLast
    <3>2. Of(calls[c].token, Owner(c))'
      BY <3>1 DEF Of
    <3>3. (calls[c].stage = "answered" /\ calls[c].answer # 0 => Of(calls[c].answer, Owner(c)))'
      <4>1. calls'[c].stage = "answered" /\ tp # 0 => Of(tp, p)'
        OBVIOUS
      <4>2. QED
        BY <3>1, <4>1 DEF Of
    <3>4. now' < calls'[c].due /\ calls'[c].due <= now' + Timeout
          /\ (calls'[c].by = "unpairing" => unpairing'.at = "asking")
      BY <2>1, <2>2 DEF InTime
    <3>5. QED
      BY <2>2, <3>1, <3>2, <3>3, <3>4 DEF InTime
  <2>3. CASE d # c
    BY <2>1, <2>3 DEF InTime, RowsLast
  <2>4. QED
    BY <2>2, <2>3
<1>2. CallsCalm'
  BY <1>1 DEF CallsCalm
<1>3. HoldersCalm'
  <2>1. \A t, q : Of(t, q) => Of(t, q)'
    BY DEF RowsLast
  <2>2. \A q \in DOMAIN signIns : q \in DOMAIN signIns'
    BY DEF RowsLast
  <2>3. QED
    BY <2>1, <2>2 DEF HoldersCalm
<1>4. ASSUME NEW d, d # c, d \in DOMAIN calls, NEW q \in DOMAIN signIns, q # p, Serves(d, q)
      PROVE  Serves(d, q)'
  BY <1>4 DEF Serves
<1>5. calls[c].by = "renewal" => p = renewal.pairing /\ renewal.at = "asking"
  BY DEF Owner, IInv, Flight
<1>6. calls[c].by # "renewal" => calls[c].by = "unpairing" /\ p = unpairing.pairing /\ unpairing.at = "asking"
  BY CallTypes DEF Owner, CallsCalm, InTime
<1>7. MemInStep'
  <2>1. CASE mem.pairing # 0 /\ mem.pairing = p
    <3>1. calls[c].by = "renewal" /\ renewal.pairing = p /\ renewal.at = "asking"
      BY <1>5, <1>6, <2>1 DEF HoldersCalm
    <3>2. \A d \in DOMAIN calls : calls[d].open /\ calls[d].by = "renewal" => d = c
      BY <3>1 DEF IInv, Flight
    <3>3. Serves(c, p)'
      BY <2>1, <3>1 DEF MemInStep
    <3>4. \A d \in DOMAIN calls' : calls'[d].open /\ calls'[d].by = "renewal" => d = c
      BY <3>2
    <3>5. QED
      BY <2>1, <3>1, <3>3, <3>4 DEF MemInStep
  <2>2. CASE mem.pairing # 0 /\ mem.pairing # p
    <3>1. signIns'[mem.pairing] = signIns[mem.pairing] /\ mem.pairing \in DOMAIN signIns
      BY <2>2 DEF HoldersCalm
    <3>2. ASSUME NEW d \in DOMAIN calls', calls'[d].open, calls'[d].by = "renewal", renewal.pairing = mem.pairing
          PROVE  Serves(d, mem.pairing)'
      <4>1. d # c
        BY <1>5, <2>2, <3>2
      <4>2. Serves(d, mem.pairing) /\ d \in DOMAIN calls
        BY <2>2, <3>2, <4>1 DEF MemInStep
      <4>3. QED
        BY <1>4, <2>2, <3>1, <4>1, <4>2
    <3>3. QED
      BY <2>2, <3>1, <3>2 DEF MemInStep
  <2>3. QED
    BY <2>1, <2>2 DEF MemInStep
<1>8. UnpairingInStep'
  <2> SUFFICES ASSUME unpairing.at # "off", unpairing.alone
               PROVE  UnpairingInStep'
    BY DEF UnpairingInStep
  <2>0. unpairing.pairing \in DOMAIN signIns
    BY DEF HoldersCalm
  <2>1. CASE unpairing.pairing = p
    <3>1. calls[c].by = "unpairing" /\ unpairing.at = "asking"
      BY <1>5, <1>6, <2>1 DEF HoldersCalm
    <3>2. Serves(c, p)'
      BY <2>1, <3>1 DEF UnpairingInStep
    <3>3. \A d \in DOMAIN calls' : calls'[d].open /\ calls'[d].by = "unpairing" => d = c
      BY <3>1 DEF CallsCalm
    <3>4. QED
      BY <2>1, <3>1, <3>2, <3>3 DEF UnpairingInStep
  <2>2. CASE unpairing.pairing # p
    <3>1. signIns'[unpairing.pairing] = signIns[unpairing.pairing]
      BY <2>0, <2>2
    <3>2. ASSUME NEW d \in DOMAIN calls', calls'[d].open, calls'[d].by = "unpairing"
          PROVE  Serves(d, unpairing.pairing)'
      <4>1. d # c
        BY <1>6, <2>2, <3>2
      <4>2. Serves(d, unpairing.pairing) /\ d \in DOMAIN calls
        BY <3>2, <4>1 DEF UnpairingInStep
      <4>3. QED
        BY <1>4, <2>0, <2>2, <4>1, <4>2
    <3>3. QED
      BY <3>1, <3>2 DEF UnpairingInStep
  <2>3. QED
    BY <2>1, <2>2
<1>9. LeftEnded'
  BY DEF LeftEnded, RowsLast
<1>10. expired' \subseteq 1..issued'
  BY PhoneTypes
<1>11. QED
  BY <1>2, <1>3, <1>7, <1>8, <1>9, <1>10

\* The answer to a call the phone waits for.
LEMMA AnswerOpen ==
  ASSUME IInv, NEW c \in DOMAIN calls, calls[c].open, NEW t \in Nat, Answer(c, t)
  PROVE  /\ DOMAIN calls' = DOMAIN calls /\ \A d \in DOMAIN calls : d # c => calls'[d] = calls[d]
         /\ calls'[c].open /\ calls'[c].by = calls[c].by /\ calls'[c].token = calls[c].token
         /\ calls'[c].due = calls[c].due /\ calls'[c].slow = calls[c].slow
         /\ calls'[c].stage = "answered" /\ calls'[c].answer = t
<1>1. calls \in Seq(Calls) /\ calls[c] \in Calls
  BY PhoneTypes
<1>2. calls' = [calls EXCEPT ![c] = Outcome(calls[c], "answered", t)]
  BY DEF Answer
<1>3. Outcome(calls[c], "answered", t) \in Calls
  BY <1>1, OutcomeCall
<1>4. QED
  BY <1>1, <1>2, <1>3 DEF Outcome, Calls

LEMMA ArriveCalm ==
  ASSUME IInv, Calm, NEW c \in DOMAIN calls, Arrive(c)
  PROVE  Calm'
<1> USE DEF Calm
<1> DEFINE t == calls[c].token
           grace == {q \in PreviousOf(t) : signIns[q].until > now}
<1>1. /\ calls[c].open /\ calls[c].stage = "sent" /\ InTime(c)
      /\ UNCHANGED <<now, issued, mem, renewal, unpairing, left, expired>>
  BY DEF Arrive, CallsCalm, phone, people
<1> PICK p : p = Owner(c)
  OBVIOUS
<1>2. /\ Of(t, p) /\ now < calls[c].due /\ calls[c].due <= now + Timeout
      /\ ~calls[c].slow /\ t \in Nat /\ now \in Nat /\ issued \in Nat /\ 0 \in Nat
  BY <1>1, CallTypes, PhoneTypes DEF InTime
<1>3. \A q \in DOMAIN signIns : q \in CurrentOf(t) \cup PreviousOf(t) => q = p
  BY <1>2 DEF Of, CurrentOf, PreviousOf
<1>4. ASSUME NEW q \in DOMAIN signIns, q = p, NEW retry \in BOOLEAN, UNCHANGED signIns, ~signIns[q].revoked,
             retry => q \notin CurrentOf(t),
             calls' = [calls EXCEPT ![c] = [@ EXCEPT !.stage = "read", !.start = now, !.retry = retry,
                                                     !.row = q, !.replaces = signIns[q].current]]
      PROVE  Calm'
  <2>1. calls[c] \in Calls
    BY PhoneTypes
  <2>2. calls' = [calls EXCEPT ![c] = [calls[c] EXCEPT !.stage = "read", !.start = now, !.retry = retry,
                                                       !.row = q, !.replaces = signIns[q].current]]
    BY <1>4
  <2>3. /\ DOMAIN calls' = DOMAIN calls /\ \A d \in DOMAIN calls : d # c => calls'[d] = calls[d]
        /\ calls'[c].open /\ calls'[c].by = calls[c].by /\ calls'[c].token = calls[c].token
        /\ calls'[c].due = calls[c].due /\ calls'[c].slow = calls[c].slow
        /\ calls'[c].stage = "read" /\ calls'[c].row = p /\ calls'[c].start = now
        /\ calls'[c].retry = retry /\ calls'[c].replaces = signIns[q].current
    <3>1. calls' = [calls EXCEPT ![c] = calls'[c]] /\ c \in DOMAIN calls
          /\ calls'[c] = [calls[c] EXCEPT !.stage = "read", !.start = now, !.retry = retry,
                                         !.row = q, !.replaces = signIns[q].current]
      BY <2>2
    <3>2. DOMAIN calls' = DOMAIN calls /\ \A d \in DOMAIN calls : d # c => calls'[d] = calls[d]
      BY <2>2
    <3>3. /\ calls'[c].open = calls[c].open /\ calls'[c].by = calls[c].by
          /\ calls'[c].token = calls[c].token
          /\ calls'[c].due = calls[c].due /\ calls'[c].slow = calls[c].slow
          /\ calls'[c].stage = "read" /\ calls'[c].row = q /\ calls'[c].start = now
          /\ calls'[c].replaces = signIns[q].current
      BY <2>1, <3>1 DEF Calls
    <3>4. calls'[c].retry = retry
      BY <2>1, <3>1, Zenon DEF Calls
    <3>5. QED
      BY <1>1, <1>4, <3>2, <3>3, <3>4
  <2>4. RowsLast
    BY <1>1, <1>4 DEF RowsLast, Of
  <2>5. ASSUME Serves(c, p)
        PROVE  Serves(c, p)'
    <3>1. signIns[p].current = t
      BY <1>1, <2>5 DEF Serves
    <3>2. ~retry
      BY <1>4, <3>1 DEF CurrentOf
    <3>3. QED
      BY <1>4, <2>3, <3>1, <3>2 DEF Serves
  <2>6. QED
    BY <1>1, <1>2, <1>4, <2>3, <2>4, <2>5, HandledCalm
<1>5. ASSUME Refuse(c), RowsLast, \A q \in DOMAIN signIns : q # p => signIns'[q] = signIns[q],
             Serves(c, p) => signIns'[p].revoked
      PROVE  Calm'
  <2>1. /\ DOMAIN calls' = DOMAIN calls /\ \A d \in DOMAIN calls : d # c => calls'[d] = calls[d]
        /\ calls'[c].open /\ calls'[c].by = calls[c].by /\ calls'[c].token = calls[c].token
        /\ calls'[c].due = calls[c].due /\ calls'[c].slow = calls[c].slow
        /\ calls'[c].stage = "answered" /\ calls'[c].answer = 0
    BY <1>1, <1>2, <1>5, AnswerOpen DEF Refuse
  <2>2. Serves(c, p) => Serves(c, p)'
    BY <1>5, <2>1 DEF Serves
  <2>3. QED
    BY <1>1, <1>2, <1>5, <2>1, <2>2, HandledCalm
<1>6. UNCHANGED signIns => RowsLast
  BY <1>1 DEF RowsLast, Of
<1>7. ASSUME NEW q \in DOMAIN signIns, q = p, NEW retry \in BOOLEAN, UNCHANGED signIns,
             retry => q \notin CurrentOf(t),
             IF signIns[q].revoked
               THEN Refuse(c)
               ELSE calls' = [calls EXCEPT ![c] = [@ EXCEPT !.stage = "read", !.start = now, !.retry = retry,
                                                            !.row = q, !.replaces = signIns[q].current]]
      PROVE  Calm'
  BY <1>4, <1>5, <1>6, <1>7
<1>8. CASE \E q \in CurrentOf(t) :
             /\ UNCHANGED signIns
             /\ IF signIns[q].revoked
                  THEN Refuse(c)
                  ELSE calls' = [calls EXCEPT ![c] = [@ EXCEPT !.stage = "read", !.start = now, !.retry = FALSE,
                                                               !.row = q, !.replaces = signIns[q].current]]
  <2>1. \A q \in CurrentOf(t) : q \in DOMAIN signIns /\ q = p
    BY <1>3 DEF CurrentOf
  <2>2. QED
    BY <1>7, <1>8, <2>1
<1>9. CASE /\ CurrentOf(t) = {}
           /\ \E q \in grace :
                /\ UNCHANGED signIns
                /\ IF signIns[q].revoked
                     THEN Refuse(c)
                     ELSE calls' = [calls EXCEPT ![c] = [@ EXCEPT !.stage = "read", !.start = now, !.retry = TRUE,
                                                                  !.row = q, !.replaces = signIns[q].current]]
  <2>1. \A q \in grace : q \in DOMAIN signIns /\ q = p
    BY <1>3 DEF PreviousOf
  <2>2. QED
    BY <1>7, <1>9, <2>1
<1>10. CASE CurrentOf(t) = {} /\ \E q \in PreviousOf(t) : Refuse(c) /\ signIns' = Revoke(q)
  <2>1. PICK q \in PreviousOf(t) : Refuse(c) /\ signIns' = Revoke(q)
    BY <1>10
  <2>2. q \in DOMAIN signIns /\ q = p
    BY <1>3 DEF PreviousOf
  <2>3. RowsLast /\ signIns'[p].revoked /\ \A r \in DOMAIN signIns : r # p => signIns'[r] = signIns[r]
    BY <1>1, <2>1, <2>2, RevokedRows
  <2>4. QED
    BY <1>5, <2>1, <2>3
<1>11. CASE CurrentOf(t) \cup PreviousOf(t) = {} /\ Refuse(c) /\ UNCHANGED signIns
  <2>1. p \in DOMAIN signIns
    <3>1. CASE calls[c].by = "renewal"
      BY <1>1, <3>1 DEF Owner, HoldersCalm, IInv, Flight
    <3>2. CASE calls[c].by # "renewal"
      <4>1. calls[c].by = "unpairing"
        BY <3>2, CallTypes
      <4>2. unpairing.at = "asking" /\ p = unpairing.pairing
        BY <1>1, <4>1 DEF InTime, Owner
      <4>3. QED
        BY <4>2 DEF HoldersCalm
    <3>3. QED
      BY <3>1, <3>2
  <2>2. ~Serves(c, p)
    BY <1>1, <1>11, <2>1 DEF Serves, CurrentOf
  <2>3. QED
    BY <1>5, <1>6, <1>11, <2>2
<1>12. QED
  BY <1>8, <1>9, <1>10, <1>11 DEF Arrive

LEMMA RotateCalm ==
  ASSUME IInv, Calm, NEW c \in DOMAIN calls, Rotate(c)
  PROVE  Calm'
<1> USE DEF Calm
<1> DEFINE t == calls[c].token
           new == issued + 1
           until == calls[c].start + IF calls[c].retry THEN 0 ELSE Grace
           rows == {q \in CurrentOf(calls[c].replaces) : ~signIns[q].revoked}
<1>1. /\ calls[c].open /\ calls[c].stage = "read" /\ InTime(c)
      /\ UNCHANGED <<now, mem, renewal, unpairing, left, expired>>
  BY DEF Rotate, RotateAmong, CallsCalm, phone, people
<1> PICK p : p = Owner(c)
  OBVIOUS
<1>2. /\ Of(t, p) /\ calls[c].row = p /\ calls[c].due <= calls[c].start + Timeout
      /\ ~calls[c].slow /\ t \in Nat /\ issued \in Nat /\ 0 \in Nat /\ new \in Nat
      /\ calls[c].start \in Nat /\ calls[c].due \in Nat /\ Timeout \in Nat /\ Grace \in Nat
  <2>1. calls[c] \in Calls /\ issued \in Nat /\ Timeout \in Nat /\ Grace \in Nat
    BY PhoneTypes, SessionsAssumption
  <2>2. t \in Nat /\ calls[c].start \in Nat /\ calls[c].due \in Nat
    BY <2>1, CallTypes
  <2>3. /\ Of(t, p) /\ calls[c].row = p /\ calls[c].due <= calls[c].start + Timeout
        /\ ~calls[c].slow
    BY <1>1 DEF InTime
  <2>4. QED
    BY <2>1, <2>2, <2>3
<1>3. CASE p \in rows
  <2>1. /\ p \in DOMAIN signIns /\ signIns[p].current = calls[c].replaces /\ signIns[p] \in SignIns
        /\ signIns' = [signIns EXCEPT ![p] =
             [signIns[p] EXCEPT !.current = new, !.previous = t, !.until = until]]
        /\ issued' = new /\ Answer(c, new)
    BY <1>2, <1>3, PhoneTypes DEF Rotate, RotateAmong, CurrentOf
  <2>2. /\ DOMAIN signIns' = DOMAIN signIns
        /\ \A q \in DOMAIN signIns : q # p => signIns'[q] = signIns[q]
        /\ signIns'[p].current = new /\ signIns'[p].previous = t /\ signIns'[p].until = until
        /\ signIns'[p].revoked = signIns[p].revoked
    BY <2>1 DEF SignIns
  <2> HIDE DEF until
  <2>3. t \in {signIns[p].current, signIns[p].previous}
    BY <1>1, <1>2, <2>1 DEF IInv, SInv, Reads, ReadGood
  <2>4. \A q \in DOMAIN signIns : signIns[q].current \in 1..issued /\ signIns[q].previous \in 0..issued
    BY DEF IInv, SInv, Distinct
  <2>5. RowsLast
    <3>1. ASSUME NEW u, NEW q, Of(u, q)
          PROVE  Of(u, q)'
      <4>1. u \in 1..issued' /\ u # new
        BY <1>2, <2>1, <3>1 DEF Of
      <4>2. u = t => q = p
        BY <2>1, <2>3, <3>1 DEF Of
      <4>3. QED
        BY <2>2, <3>1, <4>1, <4>2 DEF Of
    <3>2. QED
      BY <2>2, <3>1 DEF RowsLast
  <2>7. /\ DOMAIN calls' = DOMAIN calls /\ \A d \in DOMAIN calls : d # c => calls'[d] = calls[d]
        /\ calls'[c].open /\ calls'[c].by = calls[c].by /\ calls'[c].token = t
        /\ calls'[c].due = calls[c].due /\ ~calls'[c].slow
        /\ calls'[c].stage = "answered" /\ calls'[c].answer = new
    BY <1>1, <1>2, <2>1, AnswerOpen
  <2>8. ASSUME Serves(c, p)
        PROVE  Serves(c, p)'
    <3>1. ~calls[c].retry /\ until = calls[c].start + Grace
      BY <1>1, <2>8 DEF Serves, until
    <3>2. until >= calls[c].due
      BY <1>2, <3>1, TimeoutAssumption
    <3>3. new \notin expired
      BY <1>2
    <3>4. new # 0
      BY <1>2
    <3>5. QED
      BY <1>1, <2>2, <2>7, <3>2, <3>3, <3>4 DEF Serves
  <2>9. ASSUME NEW u, u = calls'[c].answer
        PROVE  Of(u, p)'
    <3>0. u = new
      BY <2>7, <2>9
    <3>1. \A q \in DOMAIN signIns : signIns[q].current # u /\ signIns[q].previous # u
      BY <1>2, <2>4, <3>0
    <3>2. t # u /\ u \in 1..issued'
      BY <1>2, <2>1, <3>0 DEF Of
    <3>3. QED
      BY <2>2, <3>1, <3>2 DEF Of
  <2>10. QED
    BY <1>1, <1>2, <2>1, <2>2, <2>5, <2>7, <2>8, <2>9, HandledCalm
<1>4. CASE p \notin rows
  <2>1. Refuse(c) /\ UNCHANGED <<signIns, issued>>
    BY <1>2, <1>4 DEF Rotate, RotateAmong, server
  <2>2. /\ DOMAIN calls' = DOMAIN calls /\ \A d \in DOMAIN calls : d # c => calls'[d] = calls[d]
        /\ calls'[c].open /\ calls'[c].by = calls[c].by /\ calls'[c].token = t
        /\ calls'[c].due = calls[c].due /\ calls'[c].slow = calls[c].slow
        /\ calls'[c].stage = "answered" /\ calls'[c].answer = 0
    BY <1>1, <1>2, <2>1, AnswerOpen DEF Refuse
  <2>3. RowsLast
    BY <2>1 DEF RowsLast, Of
  <2>4. ASSUME Serves(c, p)
        PROVE  Serves(c, p)'
    <3>1. p \in DOMAIN signIns
      BY <1>1, <1>2 DEF IInv, SInv, Reads, ReadGood
    <3>2. signIns[p].current = calls[c].replaces
      BY <1>1, <2>4 DEF Serves
    <3>3. signIns[p].revoked
      BY <1>4, <3>1, <3>2 DEF CurrentOf
    <3>4. QED
      BY <2>1, <2>2, <3>3 DEF Serves
  <2>5. QED
    BY <1>1, <1>2, <2>1, <2>2, <2>3, <2>4, HandledCalm
<1>5. QED
  BY <1>3, <1>4

LEMMA StepCalm ==
  ASSUME IInv, CalmInv, [Next]_vars
  PROVE  CalmInv'
<1> SUFFICES ASSUME faults' = 0
             PROVE  Calm'
  BY DEF CalmInv
<1>0. faults \in Nat /\ faults' = 0 /\ ~Fault
  BY DEF IInv, TypeOK, Fault
<1>1. faults = 0 /\ UNCHANGED faults
  <2>1. CASE Household
    BY <1>0, <2>1 DEF Household, Arrive, Rotate, RotateAmong
  <2>2. CASE Phone
    <3>1. CASE \E r \in Requests : Ask(r) \/ Finish(r) \/ Refused(r)
      BY <1>0, <3>1 DEF Ask, Finish, Refused
    <3>2. CASE \E d \in DOMAIN calls : Renewed(d) \/ RenewalUnanswered(d)
                                       \/ UnpairingAnswered(d) \/ UnpairingUnanswered(d)
      BY <1>0, <3>2 DEF Renewed, RenewalUnanswered, UnpairingAnswered, UnpairingUnanswered
    <3>3. CASE \E d \in DOMAIN calls : RenewalRefused(d)
      BY <1>0, <3>3 DEF RenewalRefused, RenewalRefusedIf, Forget, Fault
    <3>4. CASE Save
      BY <1>0, <3>4 DEF Save, Fault
    <3>5. CASE RevokeOnServer
      BY <1>0, <3>5 DEF RevokeOnServer, RevokeOnServerRenewing, Forget, Fault
    <3>6. CASE Delete
      BY <1>0, <3>6 DEF Delete, Fault
    <3>7. QED
      BY <2>2, <3>1, <3>2, <3>3, <3>4, <3>5, <3>6 DEF Phone
  <2>3. CASE Person
    BY <1>0, <2>3 DEF Person, Pair, Unpair, UnpairTo, EndSignIn
  <2>4. CASE World
    BY <1>0, <2>4 DEF World, Tick, Launch, Lose, Fail, Delay, Expire, Fault
  <2>5. CASE UNCHANGED vars
    BY <1>0, <2>5 DEF vars
  <2>6. QED
    BY <2>1, <2>2, <2>3, <2>4, <2>5 DEF Next
<1>2. Calm
  BY <1>1 DEF CalmInv
<1>3. CASE Household
  BY <1>2, <1>3, ArriveCalm, RotateCalm DEF Household
<1>4. CASE Phone
  BY <1>1, <1>2, <1>4, RequestsCalm, RenewedCalm, RenewalRefusedCalm, NoneUnanswered, UnpairingAnsweredCalm,
     SaveCalm, RevokeOnServerCalm, DeleteCalm DEF Phone, RenewalUnanswered, UnpairingUnanswered
<1>5. CASE Person
  BY <1>1, <1>2, <1>5, PairCalm, UnpairCalm, EndSignInCalm DEF Person
<1>6. CASE World
  BY <1>0, <1>2, <1>6, TickCalm, ExpireCalm DEF World, Launch, Lose, Fail, Delay
<1>7. CASE UNCHANGED vars
  BY <1>2, <1>7, NothingCalm DEF vars, server, phone, people
<1>8. QED
  BY <1>3, <1>4, <1>5, <1>6, <1>7 DEF Next

\* "Unpair this phone" (companion-session.ts, unpair and revokeOnServer), when
\* every call got through and no renewal was in flight, ends the pairing at the
\* household: the background's call, whose bearer is renewed first when it ran
\* out, carries one the household takes.
THEOREM UnpairingEndsIt == Spec => []UnpairEndsAlone
<1>1. Init => IInv /\ CalmInv
  <2>1. ASSUME Init
        PROVE  Calm
    <3>1. CallsCalm /\ LeftEnded /\ expired = {}
      BY <2>1 DEF Init, CallsCalm, LeftEnded
    <3>2. HoldersCalm /\ MemInStep /\ UnpairingInStep
      BY <2>1 DEF Init, HoldersCalm, MemInStep, UnpairingInStep, Nobody, NoRenewal, NoUnpairing
    <3>3. QED
      BY <3>1, <3>2 DEF Calm
  <2>2. QED
    BY <2>1, InitGood DEF CalmInv
<1>2. IInv /\ CalmInv /\ [Next]_vars => IInv' /\ CalmInv'
  BY StepGood, StepCalm
<1>3. IInv /\ CalmInv => UnpairEndsAlone
  BY DEF CalmInv, Calm, LeftEnded, UnpairEndsAlone
<1>4. QED
  BY <1>1, <1>2, <1>3, PTL DEF Spec

=============================================================================
