-------------------------- MODULE Outbound_proofs --------------------------
(* The safety properties of RedditClient and of CircuitBreaker, for any    *)
(* number of workers and callers, any credentials, lives of a token and    *)
(* thresholds.                                                             *)
EXTENDS OutboundMC, TLAPS

USE RedditClientAssumption, CircuitBreakerAssumption

-----------------------------------------------------------------------------
(* RedditClient.                                                           *)

\* The longest life is one of the lives.
LEMMA SpanFact == \E n \in Nat : Span = 0 .. n /\ Lives \subseteq 2 .. n
<1>1. \E n : n \in Lives /\ \A m \in Lives : m <= n
  OBVIOUS
<1> DEFINE longest == CHOOSE n \in Lives : \A m \in Lives : m <= n
<1>2. longest \in Lives /\ \A m \in Lives : m <= longest
  BY <1>1
<1>3. Span = 0 .. longest
  BY DEF Span
<1> HIDE DEF longest
<1>4. Lives \subseteq 2 .. longest
  BY <1>2
<1>5. QED
  BY <1>2, <1>3, <1>4

LEMMA DownFact == \A n \in Span : Down(n) \in Span /\ n \in Nat /\ (n > 0 => Down(n) = n - 1)
BY SpanFact DEF Down

WorkerType == [pc : {"idle", "locking", "refreshing", "requesting"},
               lives : AtMostOne(Span), late : BOOLEAN]

\* What time does to the lives of a token or of a timer.
LEMMA DownSet ==
  ASSUME NEW S \in AtMostOne(Span)
  PROVE  {Down(n) : n \in S} \in AtMostOne(Span)
<1>1. CASE S = {}
  BY <1>1 DEF AtMostOne
<1>2. ASSUME NEW x \in Span, S = {x} PROVE {Down(n) : n \in S} \in AtMostOne(Span)
  <2>1. {Down(n) : n \in S} = {Down(x)}
    BY <1>2
  <2>2. QED
    BY <2>1, DownFact DEF AtMostOne
<1>3. QED
  BY <1>1, <1>2 DEF AtMostOne

LEMMA OlderToken ==
  ASSUME NEW S \in AtMostOne(Tokens)
  PROVE  /\ Older(S) \in AtMostOne(Tokens)
         /\ \A t \in Older(S) : \E u \in S :
              u \in Tokens /\ t.cred = u.cred /\ t.live = Down(u.live) /\ t.due = Down(u.due)
<1>1. CASE S = {}
  BY <1>1 DEF AtMostOne, Older
<1>2. ASSUME NEW x \in Tokens, S = {x}
      PROVE  /\ Older(S) \in AtMostOne(Tokens)
             /\ \A t \in Older(S) : \E u \in S :
                  u \in Tokens /\ t.cred = u.cred /\ t.live = Down(u.live) /\ t.due = Down(u.due)
  <2> DEFINE y == [x EXCEPT !.live = Down(@), !.due = Down(@)]
  <2>1. Older(S) = {y}
    BY <1>2 DEF Older
  <2>2. y \in Tokens /\ y.cred = x.cred /\ y.live = Down(x.live) /\ y.due = Down(x.due)
    BY DownFact DEF Tokens
  <2> HIDE DEF y
  <2>3. QED
    BY <1>2, <2>1, <2>2 DEF AtMostOne
<1>3. QED
  BY <1>1, <1>2 DEF AtMostOne

\* What a worker is given with a token.
LEMMA StartFact ==
  ASSUME NEW S \in AtMostOne(Tokens)
  PROVE  /\ StartRequest(S) \in WorkerType
         /\ StartRequest(S).pc = "requesting" /\ ~StartRequest(S).late
         /\ \A n \in StartRequest(S).lives : \E t \in S : n = t.live
<1>1. {t.live : t \in S} \in AtMostOne(Span)
  <2>1. CASE S = {}
    BY <2>1 DEF AtMostOne
  <2>2. ASSUME NEW x \in Tokens, S = {x} PROVE {t.live : t \in S} \in AtMostOne(Span)
    <3>1. {t.live : t \in S} = {x.live} /\ x.live \in Span
      BY <2>2 DEF Tokens
    <3>2. QED
      BY <3>1 DEF AtMostOne
  <2>3. QED
    BY <2>1, <2>2 DEF AtMostOne
<1>2. QED
  BY <1>1 DEF StartRequest, WorkerType

\* Only the rotation has credentials that are not yet accepted: the token is of
\* the saved ones.
TokenOfSaved ==
  /\ \A t \in token : t.cred = saved
  /\ mu # "rotator" => saved = creds

\* A worker that holds the lock found no fresh token and waits for its own.
HolderRefreshes ==
  \A w \in Workers : mu = w => worker[w].pc = "refreshing" /\ ~Fresh

\* A token is replaced before its end, and a request that has not yet seen the
\* time pass left with more than one unit.
InTime ==
  /\ \A t \in token : t.due <= t.live
  /\ \A w \in Workers : worker[w].pc = "requesting" /\ attempt[w] = 1 =>
       \A n \in worker[w].lives : n > IF worker[w].late THEN 0 ELSE 1

ClientIInv ==
  ClientTypeOK /\ TokenOfSaved /\ RefreshScheduled /\ HolderRefreshes /\ InTime

LEMMA InitClient == ClientInit => ClientIInv
BY SpanFact DEF ClientInit, ClientIInv, ClientTypeOK, TokenOfSaved, RefreshScheduled,
     HolderRefreshes, InTime, NoWorker, AtMostOne, Holders

\* refreshTokenLocked gets a token of the credentials in use, with its timer.
LEMMA GrantedFact ==
  ASSUME creds \in Creds, NEW p, NEW life \in Lives, Granted(p, life)
  PROVE  /\ token' \in AtMostOne(Tokens) /\ timer' \in AtMostOne(Span)
         /\ \A t \in token' : /\ t.cred = creds /\ timer' = {t.due}
                              /\ t.due <= t.live /\ t.live > 1
<1>1. RenewIn(life) \in Span /\ RenewIn(life) <= life /\ life \in Span /\ life > 1
  BY SpanFact DEF RenewIn
<1> DEFINE t == [cred |-> creds, live |-> life, due |-> RenewIn(life)]
<1>2. t \in Tokens
  BY <1>1 DEF Tokens
<1>3. token' = {t} /\ timer' = {RenewIn(life)}
  BY DEF Granted, Restarted
<1>4. token' \in AtMostOne(Tokens) /\ timer' \in AtMostOne(Span)
  BY <1>1, <1>2, <1>3 DEF AtMostOne
<1>5. QED
  BY <1>1, <1>3, <1>4

\* Every step keeps the types.
LEMMA StepClientType == ClientIInv /\ [ClientNext]_clientVars => ClientTypeOK'
<1> SUFFICES ASSUME ClientIInv, [ClientNext]_clientVars PROVE ClientTypeOK'
  OBVIOUS
<1>a. /\ creds \in Creds /\ saved \in Creds /\ accepted \subseteq Creds
      /\ token \in AtMostOne(Tokens) /\ timer \in AtMostOne(Span) /\ fired \in 0..MaxFired
      /\ mu \in Holders \cup {"free"} /\ attempt \in [Holders -> 1..MaxAttempts]
      /\ worker \in [Workers -> WorkerType]
      /\ Workers \subseteq Holders /\ "timer" \in Holders /\ "rotator" \in Holders
  BY DEF ClientIInv, ClientTypeOK, WorkerType, Holders
<1>b. NoWorker \in WorkerType
  BY DEF NoWorker, WorkerType, AtMostOne
<1> SUFFICES /\ creds' \in Creds /\ saved' \in Creds /\ accepted' \subseteq Creds
             /\ token' \in AtMostOne(Tokens) /\ timer' \in AtMostOne(Span)
             /\ fired' \in 0..MaxFired
             /\ mu' \in Holders \cup {"free"} /\ attempt' \in [Holders -> 1..MaxAttempts]
             /\ worker' \in [Workers -> WorkerType]
  BY DEF ClientTypeOK, WorkerType
<1>1. ASSUME NEW w \in Workers, GetCached(w) PROVE worker' \in [Workers -> WorkerType]
  BY <1>a, <1>1, StartFact DEF GetCached
<1>2. ASSUME NEW w \in Workers, NEW pc \in {"locking", "refreshing"},
             worker' = [worker EXCEPT ![w].pc = pc]
      PROVE  worker' \in [Workers -> WorkerType]
  <2>1. PICK r \in WorkerType : r = worker[w]
    BY <1>a
  <2>2. [r EXCEPT !.pc = pc] \in WorkerType
    BY DEF WorkerType
  <2>3. QED
    BY <1>a, <1>2, <2>1, <2>2
<1>3. ASSUME NEW p \in Holders, Retry(p) \/ Send(p)
      PROVE  attempt' \in [Holders -> 1..MaxAttempts]
  BY <1>a, <1>3 DEF Retry, Send
<1>4. ASSUME NEW w \in Workers, WorkerNext(w)
      PROVE  worker' \in [Workers -> WorkerType]
  <2>1. CASE GetCached(w)
    BY <2>1, <1>1
  <2>2. CASE GetMiss(w)
    BY <2>2, <1>2 DEF GetMiss
  <2>3. CASE Lock(w)
    BY <2>3, <1>a, <1>2, StartFact DEF Lock
  <2>4. CASE Refresh(w)
    <3>1. ASSUME NEW life \in Lives, Granted(w, life), worker' = [worker EXCEPT ![w] = StartRequest(token')]
          PROVE  worker' \in [Workers -> WorkerType]
      <4>1. token' \in AtMostOne(Tokens)
        BY <1>a, <3>1, GrantedFact
      <4>2. PICK given : given = token'
        OBVIOUS
      <4>3. StartRequest(given) \in WorkerType
        BY <4>1, <4>2, StartFact
      <4>4. QED
        BY <1>a, <3>1, <4>2, <4>3
    <3>2. QED
      BY <2>4, <1>a, <1>b, <3>1 DEF Refresh
  <2>5. CASE Request(w)
    BY <2>5, <1>a, <1>b DEF Request
  <2>6. QED
    BY <1>4, <2>1, <2>2, <2>3, <2>4, <2>5 DEF WorkerNext
<1>5. ASSUME NEW w \in Workers, WorkerNext(w)
      PROVE  /\ creds' \in Creds /\ saved' \in Creds /\ accepted' \subseteq Creds
             /\ token' \in AtMostOne(Tokens) /\ timer' \in AtMostOne(Span)
             /\ fired' \in 0..MaxFired
             /\ mu' \in Holders \cup {"free"} /\ attempt' \in [Holders -> 1..MaxAttempts]
  <2>1. CASE Refresh(w)
    <3>1. ASSUME NEW life \in Lives, Granted(w, life)
          PROVE  token' \in AtMostOne(Tokens) /\ timer' \in AtMostOne(Span)
      BY <1>a, <3>1, GrantedFact
    <3>2. QED
      BY <2>1, <3>1, <1>a, <1>3 DEF Refresh, Refused, Rollback
  <2>2. CASE ~Refresh(w)
    BY <2>2, <1>a, <1>3, <1>5 DEF WorkerNext, GetCached, GetMiss, Lock, Request
  <2>3. QED
    BY <2>1, <2>2
<1>6. ASSUME NEW p \in {"timer", "rotator"}, RefreshFor(p) PROVE ClientTypeOK'
  <2>1. ASSUME NEW life \in Lives, Granted(p, life)
        PROVE  token' \in AtMostOne(Tokens) /\ timer' \in AtMostOne(Span)
    BY <1>a, <2>1, GrantedFact
  <2>2. attempt' \in [Holders -> 1..MaxAttempts]
    BY <1>a, <1>3, <1>6 DEF RefreshFor
  <2>3. QED
    BY <1>6, <2>1, <2>2, <1>a DEF RefreshFor, Refused, Rollback, ClientTypeOK, WorkerType
<1>7. CASE Fire
  BY <1>7, <1>a DEF Fire, AtMostOne
<1>8. CASE TimerLock
  BY <1>8, <1>a, <1>3 DEF TimerLock
<1>9. ASSUME NEW c \in Creds, RotateLock(c) PROVE ClientTypeOK'
  BY <1>9, <1>a, <1>3 DEF RotateLock, ClientTypeOK, WorkerType
<1>10. ASSUME NEW S \in SUBSET Creds, Accept(S) PROVE ClientTypeOK'
  BY <1>10, <1>a DEF Accept, ClientTypeOK, WorkerType
<1>11. CASE ClientTick
  <2>1. ASSUME NEW w \in Workers
        PROVE  [worker[w] EXCEPT !.lives = {Down(n) : n \in @}, !.late = worker[w].pc = "requesting"]
                 \in WorkerType
    <3>1. PICK r \in WorkerType : r = worker[w]
      BY <1>a
    <3>2. PICK late \in BOOLEAN : late = (r.pc = "requesting")
      BY Zenon
    <3>3. {Down(n) : n \in r.lives} \in AtMostOne(Span)
      BY DownSet DEF WorkerType
    <3>4. [r EXCEPT !.lives = {Down(n) : n \in r.lives}, !.late = late] \in WorkerType
      BY <3>3 DEF WorkerType
    <3>5. QED
      BY <3>1, <3>2, <3>4
  <2>2. worker' \in [Workers -> WorkerType]
    BY <1>11, <2>1 DEF ClientTick
  <2>3. QED
    BY <1>11, <2>2, <1>a, OlderToken, DownSet DEF ClientTick
<1>12. CASE UNCHANGED clientVars
  BY <1>12, <1>a DEF clientVars
<1>13. QED
  BY <1>a, <1>4, <1>5, <1>6, <1>7, <1>8, <1>9, <1>10, <1>11, <1>12
  DEF ClientNext, ClientTypeOK, WorkerType

\* Every step keeps the token that of the saved credentials, and the saved
\* ones those in use but for the rotation.
LEMMA StepTokenOfSaved == ClientIInv /\ [ClientNext]_clientVars => TokenOfSaved'
<1> SUFFICES ASSUME ClientIInv, [ClientNext]_clientVars PROVE TokenOfSaved'
  OBVIOUS
<1>a. /\ token \in AtMostOne(Tokens) /\ creds \in Creds
      /\ \A t \in token : t.cred = saved
      /\ mu # "rotator" => saved = creds
  BY DEF ClientIInv, ClientTypeOK, TokenOfSaved
<1>b. ASSUME NEW p, NEW life \in Lives, Granted(p, life) PROVE \A t \in token' : t.cred = creds
  BY <1>a, <1>b, GrantedFact
<1>1. ASSUME NEW w \in Workers, Refresh(w) PROVE TokenOfSaved'
  <2>1. w # "rotator" /\ mu # "rotator" /\ creds' = creds /\ saved' = saved
    BY <1>1 DEF Refresh, Refused, Rollback
  <2>2. QED
    BY <1>1, <1>a, <1>b, <2>1 DEF Refresh, Refused, TokenOfSaved
<1>2. ASSUME NEW w \in Workers, GetCached(w) \/ GetMiss(w) \/ Lock(w) \/ Request(w)
      PROVE  TokenOfSaved'
  BY <1>2, <1>a DEF GetCached, GetMiss, Lock, Request, TokenOfSaved
<1>3. ASSUME NEW p \in {"timer", "rotator"}, RefreshFor(p) PROVE TokenOfSaved'
  <2>1. CASE UNCHANGED <<creds, saved, token, mu>>
    BY <2>1, <1>a DEF TokenOfSaved
  <2>2. CASE mu' = "free" /\ saved' = creds'
    <3>1. ASSUME NEW life \in Lives, Granted(p, life), creds' = creds PROVE TokenOfSaved'
      BY <2>2, <3>1, <1>b DEF TokenOfSaved
    <3>2. ASSUME Refused(p) PROVE TokenOfSaved'
      BY <1>3, <2>2, <3>2, <1>a DEF RefreshFor, Refused, Rollback, TokenOfSaved
    <3>3. QED
      BY <1>3, <2>1, <3>1, <3>2 DEF RefreshFor
  <2>3. QED
    BY <1>3, <2>1, <2>2 DEF RefreshFor
<1>4. CASE ClientTick
  <2>1. token' = Older(token) /\ creds' = creds /\ saved' = saved /\ mu' = mu
    BY <1>4 DEF ClientTick
  <2>2. \A t \in token' : t.cred = saved
    BY <2>1, <1>a, OlderToken
  <2>3. QED
    BY <2>1, <2>2, <1>a DEF TokenOfSaved
<1>5. QED
  BY <1>1, <1>2, <1>3, <1>4, <1>a
  DEF ClientNext, WorkerNext, Fire, TimerLock, RotateLock, Accept, clientVars, TokenOfSaved

\* Every step keeps the timer at the moment the token is due.
LEMMA StepScheduled == ClientIInv /\ [ClientNext]_clientVars => RefreshScheduled'
<1> SUFFICES ASSUME ClientIInv, [ClientNext]_clientVars PROVE RefreshScheduled'
  OBVIOUS
<1>a. /\ token \in AtMostOne(Tokens) /\ creds \in Creds
      /\ \A t \in token : t.due \in Nat /\ (t.due > 0 => timer = {t.due})
  <2>1. token \in AtMostOne(Tokens) /\ creds \in Creds
    BY DEF ClientIInv, ClientTypeOK
  <2>2. \A t \in token : t.due \in Nat
    BY <2>1, SpanFact DEF AtMostOne, Tokens
  <2>3. QED
    BY <2>1, <2>2 DEF ClientIInv, RefreshScheduled
<1>b. ASSUME NEW p, NEW life \in Lives, Granted(p, life) PROVE RefreshScheduled'
  BY <1>a, <1>b, GrantedFact DEF RefreshScheduled
<1>1. CASE Fire
  BY <1>1, <1>a DEF Fire, RefreshScheduled
<1>2. CASE ClientTick
  <2>1. ASSUME NEW t \in token', t.due > 0 PROVE timer' = {t.due}
    <3>0. token' = Older(token)
      BY <1>2 DEF ClientTick
    <3>1. PICK u \in token : u \in Tokens /\ t.due = Down(u.due)
      BY <3>0, <1>a, OlderToken
    <3>2. u.due \in Nat /\ t.due = u.due - 1 /\ timer = {u.due}
      BY <1>a, <2>1, <3>1 DEF Down
    <3>3. timer' = {Down(u.due)}
      BY <1>2, <3>2 DEF ClientTick
    <3>4. QED
      BY <3>1, <3>3
  <2>2. QED
    BY <2>1 DEF RefreshScheduled
<1>3. CASE UNCHANGED <<token, timer>>
  BY <1>3 DEF ClientIInv, RefreshScheduled
<1>4. QED
  BY <1>b, <1>1, <1>2, <1>3
  DEF ClientNext, WorkerNext, GetCached, GetMiss, Lock, Refresh, Request, Refused,
      RefreshFor, TimerLock, RotateLock, Accept, clientVars

\* Only a token of its own ends the refresh of a worker.
LEMMA StepHolder == ClientIInv /\ [ClientNext]_clientVars => HolderRefreshes'
<1> SUFFICES ASSUME ClientIInv, [ClientNext]_clientVars PROVE HolderRefreshes'
  OBVIOUS
<1>a. /\ token \in AtMostOne(Tokens) /\ worker \in [Workers -> WorkerType]
      /\ \A w \in Workers : mu = w => worker[w].pc = "refreshing" /\ ~Fresh
      /\ "free" \notin Workers /\ "timer" \notin Workers /\ "rotator" \notin Workers
  BY DEF ClientIInv, ClientTypeOK, HolderRefreshes, WorkerType
<1>1. ASSUME NEW w \in Workers, Lock(w) PROVE HolderRefreshes'
  <2>1. CASE mu' = mu
    BY <1>1, <1>a, <2>1 DEF Lock, HolderRefreshes, Fresh
  <2>2. CASE mu' = w /\ worker' = [worker EXCEPT ![w].pc = "refreshing"] /\ ~Renewed
    BY <1>1, <1>a, <2>2 DEF Lock, HolderRefreshes, Fresh, Renewed, WorkerType
  <2>3. QED
    BY <1>1, <2>1, <2>2 DEF Lock
<1>2. ASSUME NEW w \in Workers, Refresh(w) PROVE HolderRefreshes'
  BY <1>2, <1>a DEF Refresh, HolderRefreshes, Fresh
<1>3. ASSUME NEW w \in Workers, GetCached(w) \/ GetMiss(w) PROVE HolderRefreshes'
  BY <1>3, <1>a DEF GetCached, GetMiss, HolderRefreshes
<1>4. ASSUME NEW w \in Workers, Request(w) PROVE HolderRefreshes'
  <2>1. mu # w
    BY <1>4, <1>a DEF Request
  <2>2. QED
    BY <1>4, <1>a, <2>1 DEF Request, HolderRefreshes, Fresh
<1>5. ASSUME NEW p \in {"timer", "rotator"}, RefreshFor(p) PROVE HolderRefreshes'
  BY <1>5, <1>a DEF RefreshFor, HolderRefreshes
<1>6. CASE ClientTick
  <2>1. ASSUME ~Fresh PROVE ~Fresh'
    <3>1. SUFFICES ASSUME NEW t \in token', t.due > 1 PROVE FALSE
      BY DEF Fresh
    <3>0. token' = Older(token)
      BY <1>6 DEF ClientTick
    <3>2. PICK u \in token : u \in Tokens /\ t.due = Down(u.due)
      BY <3>0, <1>a, <3>1, OlderToken
    <3>3. u.due \in Nat
      BY <3>2, SpanFact DEF Tokens
    <3>4. QED
      BY <2>1, <3>1, <3>2, <3>3 DEF Fresh, Down
  <2>2. ASSUME NEW w \in Workers PROVE worker'[w].pc = worker[w].pc
    BY <1>6, <1>a DEF ClientTick, WorkerType
  <2>3. QED
    BY <1>6, <1>a, <2>1, <2>2 DEF ClientTick, HolderRefreshes
<1>7. QED
  BY <1>1, <1>2, <1>3, <1>4, <1>5, <1>6, <1>a
  DEF ClientNext, WorkerNext, Fire, TimerLock, RotateLock, Accept, clientVars,
      HolderRefreshes, Fresh

\* Every step keeps the requests at their first attempt in time.
LEMMA StepInTime == ClientIInv /\ [ClientNext]_clientVars => InTime'
<1> SUFFICES ASSUME ClientIInv, [ClientNext]_clientVars PROVE InTime'
  OBVIOUS
<1> DEFINE Early(w) == \A n \in worker[w].lives : n > IF worker[w].late THEN 0 ELSE 1
<1>a. /\ token \in AtMostOne(Tokens) /\ worker \in [Workers -> WorkerType]
      /\ attempt \in [Holders -> 1..MaxAttempts] /\ creds \in Creds
      /\ Workers \subseteq Holders /\ MaxAttempts \in Nat
      /\ "timer" \notin Workers /\ "rotator" \notin Workers
      /\ \A t \in token : t \in Tokens /\ t.due <= t.live /\ t.due \in Nat /\ t.live \in Nat
      /\ \A w \in Workers : worker[w].pc = "requesting" /\ attempt[w] = 1 => Early(w)
  <2>1. token \in AtMostOne(Tokens) /\ worker \in [Workers -> WorkerType]
    BY DEF ClientIInv, ClientTypeOK, WorkerType
  <2>2. \A t \in token : t \in Tokens /\ t.due \in Nat /\ t.live \in Nat
    BY <2>1, SpanFact DEF AtMostOne, Tokens
  <2>3. QED
    BY <2>1, <2>2 DEF ClientIInv, ClientTypeOK, InTime, Holders
<1>b. ASSUME Fresh PROVE \A n \in StartRequest(token).lives : n > 1
  BY <1>a, <1>b, StartFact DEF Fresh, AtMostOne
<1> DEFINE TokenPart  == \A t \in token : t.due <= t.live
           WorkerPart == \A w \in Workers :
             worker[w].pc = "requesting" /\ attempt[w] = 1 => Early(w)
<1> SUFFICES TokenPart' /\ WorkerPart'
  BY DEF InTime
<1>1. ASSUME NEW w \in Workers, worker' = [worker EXCEPT ![w] = StartRequest(token)], Fresh,
             attempt' = [attempt EXCEPT ![w] = 1]
      PROVE  WorkerPart'
  <2>1. StartRequest(token).pc = "requesting" /\ ~StartRequest(token).late
    BY <1>a, StartFact
  <2>2. QED
    BY <1>a, <1>b, <1>1, <2>1
<1>2. ASSUME NEW w \in Workers, GetCached(w) PROVE TokenPart' /\ WorkerPart'
  BY <1>1, <1>2, <1>a DEF GetCached, Send
<1>3. ASSUME NEW w \in Workers, GetMiss(w) PROVE TokenPart' /\ WorkerPart'
  BY <1>3, <1>a DEF GetMiss, WorkerType
<1>4. ASSUME NEW w \in Workers, Lock(w) PROVE TokenPart' /\ WorkerPart'
  <2>1. CASE worker' = [worker EXCEPT ![w] = StartRequest(token)] /\ Renewed
    BY <1>1, <1>4, <2>1, <1>a DEF Lock, Send, Renewed
  <2>2. CASE worker' = [worker EXCEPT ![w].pc = "refreshing"]
    BY <1>4, <2>2, <1>a DEF Lock, Send, WorkerType
  <2>3. QED
    BY <1>4, <2>1, <2>2 DEF Lock
<1>5. ASSUME NEW w \in Workers, Refresh(w) PROVE TokenPart' /\ WorkerPart'
  <2>1. CASE Retry(w) /\ UNCHANGED <<token, worker>>
    BY <2>1, <1>a DEF Retry
  <2>2. CASE Send(w) /\ UNCHANGED token /\ worker' = [worker EXCEPT ![w] = NoWorker]
    BY <2>2, <1>a DEF Send, NoWorker
  <2>3. ASSUME NEW life \in Lives, Granted(w, life), Send(w),
               worker' = [worker EXCEPT ![w] = StartRequest(token')]
        PROVE  TokenPart' /\ WorkerPart'
    <3>1. /\ token' \in AtMostOne(Tokens)
          /\ \A t \in token' : t.due <= t.live /\ t.live > 1
      BY <1>a, <2>3, GrantedFact
    <3>2. PICK given : given = token'
      OBVIOUS
    <3>3. ~StartRequest(given).late /\ \A n \in StartRequest(given).lives : n > 1
      BY <3>1, <3>2, StartFact
    <3>4. QED
      BY <1>a, <2>3, <3>1, <3>2, <3>3 DEF Send
  <2>4. QED
    BY <1>5, <2>1, <2>2, <2>3 DEF Refresh, Refused
<1>6. ASSUME NEW w \in Workers, Request(w) PROVE TokenPart' /\ WorkerPart'
  <2>1. CASE Retry(w) /\ UNCHANGED worker
    BY <1>6, <2>1, <1>a DEF Request, Retry
  <2>2. CASE Send(w) /\ worker' = [worker EXCEPT ![w] = NoWorker]
    BY <1>6, <2>2, <1>a DEF Request, Send, NoWorker
  <2>3. QED
    BY <1>6, <2>1, <2>2 DEF Request
<1>7. ASSUME NEW p \in {"timer", "rotator"}, RefreshFor(p) PROVE TokenPart' /\ WorkerPart'
  <2>1. WorkerPart'
    BY <1>7, <1>a DEF RefreshFor, Retry, Send
  <2>2. ASSUME NEW life \in Lives, Granted(p, life) PROVE TokenPart'
    BY <1>a, <2>2, GrantedFact
  <2>3. QED
    BY <1>7, <1>a, <2>1, <2>2 DEF RefreshFor, Refused
<1>8. CASE TimerLock
  BY <1>8, <1>a DEF TimerLock, Send
<1>9. ASSUME NEW c \in Creds, RotateLock(c) PROVE TokenPart' /\ WorkerPart'
  BY <1>9, <1>a DEF RotateLock, Send
<1>10. CASE ClientTick
  <2>1. token' = Older(token)
    BY <1>10 DEF ClientTick
  <2>2. ASSUME NEW t \in token' PROVE t.due <= t.live
    <3>1. PICK u \in token : t.due = Down(u.due) /\ t.live = Down(u.live)
      BY <2>1, <1>a, OlderToken
    <3>2. QED
      BY <1>a, <3>1 DEF Down
  <2>3. ASSUME NEW w \in Workers, worker'[w].pc = "requesting", attempt'[w] = 1
        PROVE  \A n \in worker'[w].lives : n > 0
    <3>1. worker'[w].pc = worker[w].pc /\ worker'[w].lives = {Down(n) : n \in worker[w].lives}
      BY <1>10, <1>a DEF ClientTick, WorkerType
    <3>2. ~worker[w].late /\ Early(w)
      BY <1>10, <2>3, <3>1, <1>a DEF ClientTick
    <3>3. \A n \in worker[w].lives : n \in Nat
      BY <1>a, SpanFact DEF WorkerType, AtMostOne
    <3>4. \A n \in worker[w].lives : n > 1
      BY <3>2
    <3>5. \A n \in worker[w].lives : Down(n) > 0
      BY <3>3, <3>4 DEF Down
    <3>6. QED
      BY <3>1, <3>5
  <2>4. ASSUME NEW w \in Workers, worker'[w].pc = "requesting" PROVE worker'[w].late
    <3>1. worker[w].pc = "requesting"
      BY <1>10, <2>4, <1>a DEF ClientTick, WorkerType
    <3>2. worker'[w] = [worker[w] EXCEPT !.lives = {Down(n) : n \in @}, !.late = TRUE]
      BY <1>10, <3>1, Zenon DEF ClientTick
    <3>3. QED
      BY <1>a, <3>2 DEF WorkerType
  <2>5. QED
    BY <2>2, <2>3, <2>4
<1>11. QED
  BY <1>2, <1>3, <1>4, <1>5, <1>6, <1>7, <1>8, <1>9, <1>10, <1>a
  DEF ClientNext, WorkerNext, Fire, Accept, clientVars

LEMMA StepClient == ClientIInv /\ [ClientNext]_clientVars => ClientIInv'
BY StepClientType, StepTokenOfSaved, StepScheduled, StepHolder, StepInTime DEF ClientIInv

\* The credentials, the token, the timer, the lock and the workers keep their
\* types.
THEOREM ClientTypeCorrect == ClientSpec => []ClientTypeOK
<1>1. ClientIInv => ClientTypeOK
  BY DEF ClientIInv
<1>2. QED
  BY InitClient, StepClient, <1>1, PTL DEF ClientSpec

\* Whatever refreshes, expiries, rotations and revocations interleave: with the
\* lock free the token is of the credentials in use, its renewal is scheduled,
\* and a worker's first attempt is made with a token that has not expired.
THEOREM ClientTokenIsGood == ClientSpec => []TokenIsGood
<1>1. ClientIInv => TokenIsGood
  <2>1. ASSUME ClientIInv PROVE TokenOfCredentials
    BY <2>1 DEF ClientIInv, TokenOfSaved, TokenOfCredentials
  <2>2. ASSUME ClientIInv,
               NEW w \in Workers, worker[w].pc = "requesting", attempt[w] = 1,
               NEW n \in worker[w].lives
        PROVE  n > 0
    <3>1. n \in Nat /\ worker[w].late \in BOOLEAN
      BY <2>2, SpanFact DEF ClientIInv, ClientTypeOK, AtMostOne
    <3>2. n > IF worker[w].late THEN 0 ELSE 1
      BY <2>2 DEF ClientIInv, InTime
    <3>3. QED
      BY <3>1, <3>2
  <2>3. QED
    BY <2>1, <2>2 DEF ClientIInv, TokenIsGood, FirstAttemptIsLive
<1>2. QED
  BY InitClient, StepClient, <1>1, PTL DEF ClientSpec

\* getAccessToken's second look under the write lock: workers that find a token
\* stale together replace it once.
THEOREM ClientOneFetchPerExpiry == ClientSpec => OneFetchPerExpiry
<1> DEFINE A == \A w \in Workers : Fetched(w) => ~Fresh
<1>1. ClientIInv => A
  BY DEF ClientIInv, HolderRefreshes, Fetched
<1>2. ClientIInv => [A]_clientVars
  BY <1>1
<1>3. QED
  BY InitClient, StepClient, <1>2, PTL DEF ClientSpec, OneFetchPerExpiry

-----------------------------------------------------------------------------
(* CircuitBreaker.                                                         *)

\* The counts of a half-open breaker are backed by successes in a row.
Backed == state = "HalfOpen" => successCount <= streak

BreakerIInv == BreakerTypeOK /\ BelowThresholds /\ Backed

LEMMA InitBreaker == BreakerInit => BreakerIInv
BY DEF BreakerInit, BreakerIInv, BreakerTypeOK, BelowThresholds, Backed, States

\* Every step keeps the strengthened invariant.
LEMMA StepBreaker == BreakerIInv /\ [BreakerNext]_breakerVars => BreakerIInv'
<1> SUFFICES ASSUME BreakerIInv, [BreakerNext]_breakerVars PROVE BreakerIInv'
  OBVIOUS
<1> USE DEF BreakerIInv, BreakerTypeOK, BelowThresholds, Backed, States
<1>1. CASE BreakerTick
  BY <1>1 DEF BreakerTick
<1>2. ASSUME NEW c \in Callers, Admit(c) PROVE BreakerIInv'
  BY <1>2 DEF Admit
<1>3. ASSUME NEW c \in Callers, Release(c) PROVE BreakerIInv'
  BY <1>3 DEF Release
<1>4. ASSUME NEW c \in Callers, ToHalfOpen(c) PROVE BreakerIInv'
  BY <1>4 DEF ToHalfOpen, TrialState, TrialsAtStart
<1>5. ASSUME NEW c \in Callers, RecordFailure(c) PROVE BreakerIInv'
  <2>1. CASE state = "Closed"
    BY <1>5, <2>1 DEF RecordFailure, AfterFailure
  <2>2. CASE state = "HalfOpen"
    BY <1>5, <2>2 DEF RecordFailure, AfterFailure
  <2>3. CASE state = "Open"
    BY <1>5, <2>3 DEF RecordFailure, AfterFailure
  <2>4. QED
    BY <2>1, <2>2, <2>3
<1>6. ASSUME NEW c \in Callers, RecordSuccess(c) PROVE BreakerIInv'
  <2>1. CASE state \in {"Closed", "Open"}
    BY <1>6, <2>1 DEF RecordSuccess
  <2>2. CASE state = "HalfOpen"
    BY <1>6, <2>2 DEF RecordSuccess
  <2>3. QED
    BY <2>1, <2>2
<1>7. CASE UNCHANGED breakerVars
  BY <1>7 DEF breakerVars
<1>8. QED
  BY <1>1, <1>2, <1>3, <1>4, <1>5, <1>6, <1>7 DEF BreakerNext, CallerNext

\* The state, the counts and the callers keep their types.
THEOREM BreakerTypeCorrect == BreakerSpec => []BreakerTypeOK
<1>1. BreakerIInv => BreakerTypeOK
  BY DEF BreakerIInv
<1>2. QED
  BY InitBreaker, StepBreaker, <1>1, PTL DEF BreakerSpec

\* A count that has reached its threshold has changed the state, whatever the
\* interleaving of canAttempt's lock upgrade with the recorders.
THEOREM BreakerBelowThresholds == BreakerSpec => []BelowThresholds
<1>1. BreakerIInv => BelowThresholds
  BY DEF BreakerIInv
<1>2. QED
  BY InitBreaker, StepBreaker, <1>1, PTL DEF BreakerSpec

\* recordSuccess closes the breaker only on SuccessThreshold successes since
\* it became half-open and since the last failure.
THEOREM BreakerClosesOnSuccesses == BreakerSpec => ClosesOnSuccesses
<1> DEFINE A == state # "Closed" /\ state' = "Closed" => streak + 1 >= SuccessThreshold
<1>1. ASSUME BreakerIInv, [BreakerNext]_breakerVars PROVE [A]_breakerVars
  <2> USE DEF BreakerIInv, BreakerTypeOK, Backed, States
  <2>1. ASSUME NEW c \in Callers, ToHalfOpen(c) PROVE A
    BY <2>1 DEF ToHalfOpen, TrialState
  <2>2. ASSUME NEW c \in Callers, RecordFailure(c) PROVE A
    BY <2>2 DEF RecordFailure, AfterFailure
  <2>3. ASSUME NEW c \in Callers, RecordSuccess(c) PROVE A
    BY <1>1, <2>3 DEF RecordSuccess
  <2>4. QED
    BY <1>1, <2>1, <2>2, <2>3 DEF BreakerNext, CallerNext, BreakerTick, Admit, Release
<1>2. QED
  BY InitBreaker, StepBreaker, <1>1, PTL DEF BreakerSpec, ClosesOnSuccesses

-----------------------------------------------------------------------------
(* Side by side.                                                           *)

\* The variables of both keep their types, and a count below its threshold.
THEOREM OutboundTypeCorrect == OutboundSpec => []OutboundTypeOK
<1>1. OutboundInit => ClientIInv /\ BreakerIInv
  BY InitClient, InitBreaker DEF OutboundInit, OutboundStart
<1>2. ClientIInv /\ BreakerIInv /\ [OutboundNext]_<<active, clientVars, breakerVars>>
        => ClientIInv' /\ BreakerIInv'
  <2>1. [OutboundNext]_<<active, clientVars, breakerVars>>
          => [ClientNext]_clientVars /\ [BreakerNext]_breakerVars
    BY DEF OutboundNext
  <2>2. QED
    BY <2>1, StepClient, StepBreaker
<1>3. ClientIInv /\ BreakerIInv => OutboundTypeOK
  BY DEF ClientIInv, BreakerIInv, OutboundTypeOK
<1>4. QED
  BY <1>1, <1>2, <1>3, PTL DEF OutboundSpec

\* The composition keeps what each of the two promises on its own: good tokens,
\* one fetch per expiry, and a breaker that closes only on successes.
THEOREM OutboundKeepAll ==
  OutboundSpec => []TokenIsGood /\ OneFetchPerExpiry /\ ClosesOnSuccesses
<1>1. OutboundSpec => ClientSpec /\ BreakerSpec
  <2>1. OutboundInit => ClientInit /\ BreakerInit
    BY DEF OutboundInit, OutboundStart
  <2>2. [OutboundNext]_<<active, clientVars, breakerVars>>
          => [ClientNext]_clientVars /\ [BreakerNext]_breakerVars
    BY DEF OutboundNext
  <2>3. QED
    BY <2>1, <2>2, PTL DEF OutboundSpec, ClientSpec, BreakerSpec
<1>2. QED
  BY <1>1, ClientTokenIsGood, ClientOneFetchPerExpiry, BreakerClosesOnSuccesses, PTL
=============================================================================
