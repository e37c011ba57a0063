---------------------------- MODULE RedditClient ----------------------------
(***************************************************************************)
(* The authenticated client of the crawler: the token manager              *)
(* (crawler/token_manager.go), the retries of httpx, and authenticatedGet, *)
(* with the timer that renews the token and the rotation of credentials.   *)
(*                                                                         *)
(* Time is relative and its unit is the 60 seconds of the code: a token    *)
(* holds what is left of its life at Reddit and what is left to            *)
(* tokenExpiry, both 0 when past.                                          *)
(*                                                                         *)
(* Abstractions: the waits between attempts take any time, as does an      *)
(* attempt; the rate limiter delays a first attempt by less than one unit  *)
(* (a handful of workers at CRAWLER_RPS).  Answers carry only whether the  *)
(* exchange ends.  Reddit grants a token to the credentials it accepts.    *)
(***************************************************************************)
EXTENDS Integers, FiniteSets

CONSTANTS
  Workers,
  Creds,          \* client id and secret pairs
  Lives,          \* the expires_in Reddit may answer
  MaxAttempts,    \* HTTP_MAX_RETRIES
  MaxFired        \* bound of the model on timer functions waiting for the lock

ASSUME RedditClientAssumption ==
  /\ Creds # {}
  /\ Lives \subseteq Nat \ {0, 1} /\ \E n \in Lives : \A m \in Lives : m <= n
  /\ MaxAttempts \in Nat \ {0}
  /\ MaxFired \in Nat \ {0}
  /\ {"timer", "rotator", "free"} \cap Workers = {}

VARIABLES
  creds, saved,   \* clientID and clientSecret; the old ones during a rotation,
                  \* the same else
  accepted,       \* the credentials Reddit accepts
  token,          \* accessToken and its expiry: a set of at most one
  timer, fired,   \* time to the refresh timer, a set of at most one; its
                  \* functions that run and wait for the lock
  mu,             \* who holds the write lock
  attempt,        \* attempts made in the exchange under way
  worker          \* authenticatedGet of each worker, with the life left to the
                  \* token it was given

clientVars == <<creds, saved, accepted, token, timer, fired, mu, attempt, worker>>

Holders    == Workers \cup {"timer", "rotator"}
Span     == 0..CHOOSE n \in Lives : \A m \in Lives : m <= n
Tokens   == [cred : Creds, live : Span, due : Span]
NoWorker == [pc |-> "idle", lives |-> {}, late |-> FALSE]

AtMostOne(S) == {{}} \cup {{x} : x \in S}

ClientTypeOK ==
  /\ creds \in Creds /\ saved \in Creds
  /\ accepted \subseteq Creds
  /\ token \in AtMostOne(Tokens)
  /\ timer \in AtMostOne(Span) /\ fired \in 0..MaxFired
  /\ mu \in Holders \cup {"free"}
  /\ attempt \in [Holders -> 1..MaxAttempts]
  /\ worker \in [Workers -> [pc : {"idle", "locking", "refreshing", "requesting"},
                             lives : AtMostOne(Span), late : BOOLEAN]]

\* The credentials were validated at the start: they are not empty.
ClientInit ==
  /\ creds \in Creds /\ saved = creds
  /\ accepted \in SUBSET Creds
  /\ token = {} /\ timer = {} /\ fired = 0
  /\ mu = "free"
  /\ attempt = [p \in Holders |-> 1]
  /\ worker = [w \in Workers |-> NoWorker]

-----------------------------------------------------------------------------
(* The token.                                                              *)

\* time.Now() + 60 s before tokenExpiry.
Fresh == \E t \in token : t.due > 1

\* tokenExpiry: 60 s early, or at half-life when that is at most 120 s.
RenewIn(life) == IF life > 2 THEN life - 1 ELSE life \div 2

\* The old timer is stopped and one is started for the new token.
Restarted(d) == {d}

\* refreshTokenLocked gets its token.
Granted(p, life) ==
  /\ creds \in accepted
  /\ token' = {[cred |-> creds, live |-> life, due |-> RenewIn(life)]}
  /\ timer' = Restarted(RenewIn(life))

\* rotateCredentials takes back the credentials that were not accepted.
\* Mutant: it does not.
NoRollback(p) == creds
Rollback(p)   == IF p = "rotator" THEN saved ELSE creds

\* It gets none: refused, a malformed answer, or the last attempt failed.
Refused(p) ==
  /\ creds' = Rollback(p)
  /\ UNCHANGED <<token, timer>>

\* httpx: a transport error, 429 or 5xx before the last attempt.
\* Mutant: the count starts again.
RetryForever(p) ==
  attempt' = [attempt EXCEPT ![p] = IF @ < MaxAttempts THEN @ + 1 ELSE 1]
Retry(p) ==
  /\ attempt[p] < MaxAttempts
  /\ attempt' = [attempt EXCEPT ![p] = @ + 1]

Send(p) == attempt' = [attempt EXCEPT ![p] = 1]

-----------------------------------------------------------------------------
(* authenticatedGet.                                                       *)

StartRequest(given) == [pc |-> "requesting", lives |-> {t.live : t \in given}, late |-> FALSE]

\* getAccessToken under the read lock.
GetCached(w) ==
  /\ worker[w].pc = "idle"
  /\ mu = "free"
  /\ Fresh
  /\ worker' = [worker EXCEPT ![w] = StartRequest(token)]
  /\ Send(w)
  /\ UNCHANGED <<creds, saved, accepted, token, timer, fired, mu>>

GetMiss(w) ==
  /\ worker[w].pc = "idle"
  /\ mu = "free"
  /\ ~Fresh
  /\ worker' = [worker EXCEPT ![w].pc = "locking"]
  /\ UNCHANGED <<creds, saved, accepted, token, timer, fired, mu, attempt>>

\* The write lock, and the second look.
\* Mutant: no second look.
RenewedNever == FALSE
Renewed      == Fresh

Lock(w) ==
  /\ worker[w].pc = "locking"
  /\ mu = "free"
  /\ \/ /\ Renewed
        /\ worker' = [worker EXCEPT ![w] = StartRequest(token)]
        /\ UNCHANGED mu
     \/ /\ ~Renewed
        /\ worker' = [worker EXCEPT ![w].pc = "refreshing"]
        /\ mu' = w
  /\ Send(w)
  /\ UNCHANGED <<creds, saved, accepted, token, timer, fired>>

Refresh(w) ==
  /\ mu = w
  /\ \/ /\ Retry(w)
        /\ UNCHANGED <<creds, token, timer, mu, worker>>
     \/ /\ mu' = "free" /\ Send(w)
        /\ \/ /\ \E life \in Lives : Granted(w, life)
              /\ worker' = [worker EXCEPT ![w] = StartRequest(token')]
              /\ UNCHANGED creds
           \/ /\ Refused(w)
              /\ worker' = [worker EXCEPT ![w] = NoWorker]
  /\ UNCHANGED <<saved, accepted, fired>>

\* The request with the token it was built with, whatever becomes of it.
Request(w) ==
  /\ worker[w].pc = "requesting"
  /\ \/ Retry(w) /\ UNCHANGED worker
     \/ worker' = [worker EXCEPT ![w] = NoWorker] /\ Send(w)
  /\ UNCHANGED <<creds, saved, accepted, token, timer, fired, mu>>

-----------------------------------------------------------------------------
(* The timer and the rotation of credentials.                              *)

Fire ==
  /\ timer = {0} /\ fired < MaxFired
  /\ timer' = {} /\ fired' = fired + 1
  /\ UNCHANGED <<creds, saved, accepted, token, mu, attempt, worker>>

\* The function of the timer takes the lock and does not look again.
TimerLock ==
  /\ fired > 0
  /\ mu = "free"
  /\ fired' = fired - 1 /\ mu' = "timer" /\ Send("timer")
  /\ UNCHANGED <<creds, saved, accepted, token, timer, worker>>

RotateLock(c) ==
  /\ mu = "free"
  /\ saved' = creds /\ creds' = c
  /\ mu' = "rotator" /\ Send("rotator")
  /\ UNCHANGED <<accepted, token, timer, fired, worker>>

\* refreshTokenLocked for either of them; a failed refresh starts no timer.
RefreshFor(p) ==
  /\ mu = p
  /\ \/ /\ Retry(p)
        /\ UNCHANGED <<creds, saved, token, timer, mu>>
     \/ /\ mu' = "free" /\ Send(p)
        /\ \/ \E life \in Lives : Granted(p, life) /\ UNCHANGED creds
           \/ Refused(p)
        /\ saved' = creds'
  /\ UNCHANGED <<accepted, fired, worker>>

-----------------------------------------------------------------------------
(* The world.                                                              *)

\* Reddit: credentials are issued and revoked.
Accept(S) ==
  /\ accepted' = S
  /\ UNCHANGED <<creds, saved, token, timer, fired, mu, attempt, worker>>

Down(n) == IF n = 0 THEN 0 ELSE n - 1
Older(S) == {[t EXCEPT !.live = Down(@), !.due = Down(@)] : t \in S}

\* A timer that is due has fired; a first attempt does not wait for long.
ClientTick ==
  /\ timer # {0} \/ fired = MaxFired
  /\ \A w \in Workers : worker[w].pc = "requesting" /\ attempt[w] = 1 => ~worker[w].late
  /\ token' = Older(token)
  /\ timer' = {Down(n) : n \in timer}
  /\ worker' = [w \in Workers |->
       [worker[w] EXCEPT !.lives = {Down(n) : n \in @}, !.late = worker[w].pc = "requesting"]]
  /\ UNCHANGED <<creds, saved, accepted, fired, mu, attempt>>

WorkerNext(w) ==
  \/ GetCached(w) \/ GetMiss(w) \/ Lock(w) \/ Refresh(w) \/ Request(w)

ClientNext ==
  \/ \E w \in Workers : WorkerNext(w)
  \/ Fire \/ TimerLock \/ RefreshFor("timer") \/ RefreshFor("rotator")
  \/ \E c \in Creds : RotateLock(c)
  \/ \E S \in SUBSET Creds : Accept(S)
  \/ ClientTick

ClientSpec == ClientInit /\ [][ClientNext]_clientVars

\* Attempts end (HTTP_TIMEOUT), and the mutex is fair to those who wait.
ClientFairness ==
  /\ \A w \in Workers :
       SF_clientVars(Lock(w)) /\ WF_clientVars(Refresh(w)) /\ WF_clientVars(Request(w))
  /\ WF_clientVars(RefreshFor("timer")) /\ WF_clientVars(RefreshFor("rotator"))
ClientFairSpec == ClientSpec /\ ClientFairness

-----------------------------------------------------------------------------
(* Properties.                                                             *)

\* docs/oauth-token-management.md:211 "the old credentials are retained on
\* failure": whenever the lock is free the token is one of the credentials in
\* use, whoever refreshed it and however a rotation ended.
TokenOfCredentials == mu = "free" => \A t \in token : t.cred = creds

\* docs/oauth-token-management.md:98: as long as a token is not due its
\* refresh is scheduled, at the moment it is due.
RefreshScheduled == \A t \in token : t.due > 0 => timer = {t.due}

\* getAccessToken "returns a valid access token": at the first attempt the
\* token has not expired at Reddit.
FirstAttemptIsLive ==
  \A w \in Workers : worker[w].pc = "requesting" /\ attempt[w] = 1 =>
    \A n \in worker[w].lives : n > 0

\* A worker that asks for a token gets one of the credentials in use that is
\* good at Reddit and will be replaced before it is not.
TokenIsGood == TokenOfCredentials /\ RefreshScheduled /\ FirstAttemptIsLive

\* The refresh of worker w gets its token in this step.
Fetched(w) == mu = w /\ worker'[w].pc = "requesting"

\* Workers that find the same token stale together fetch one new token: no
\* worker replaces a token that is still fresh.
OneFetchPerExpiry ==
  [][\A w \in Workers : Fetched(w) => ~Fresh]_clientVars

\* A call ends with an answer or an error, whatever Reddit and the others do.
CallsEnd == \A w \in Workers : []<>(worker[w].pc = "idle")
=============================================================================
