---------------------------- MODULE RateLimiter ----------------------------
(***************************************************************************)
(* The rate limits of the API: middleware/ratelimit.go.  A request takes a *)
(* token of the bucket all share and then one of the bucket of its own     *)
(* address.  The buckets of the addresses are made when they are first     *)
(* needed and removed when they have long been idle, while requests that   *)
(* have looked theirs up may still be holding them.                        *)
(***************************************************************************)
EXTENDS Integers, FiniteSets

CONSTANTS Callers,      \* requests under way at once
          Addresses,
          Rate, Burst,  \* RATE_LIMIT_PER_IP and its burst, per unit of time
          GlobalRate, GlobalBurst,
          Stale         \* 3 minutes

\* A bucket that is removed as stale was full again, and so is what the
\* requests took that were holding it.
ASSUME LimiterAssumption ==
  /\ IsFiniteSet(Callers) /\ IsFiniteSet(Addresses)
  /\ Rate \in Nat /\ Burst \in Nat \ {0}
  /\ GlobalRate \in Nat /\ GlobalBurst \in Nat
  /\ Stale \in Nat /\ Burst + Cardinality(Callers) <= Rate * Stale

\* One for each entry and one for each request that holds a removed one.
Limiters == 1 .. Cardinality(Addresses) + Cardinality(Callers)
Absent   == 0

(***************************************************************************)
(* global, tokens: what the buckets hold.  perIP: the map.  idle: the time *)
(* since lastSeen.  calling: the requests, limiter being what getLimiter   *)
(* has found.                                                              *)
(* owed (of the model): the bucket of an ideal limiter of the address that *)
(* is never removed, below zero by what was admitted beyond it.            *)
(***************************************************************************)
VARIABLES global, tokens, perIP, idle, calling, owed

limiterVars == <<global, tokens, perIP, idle, calling, owed>>

Waiting == [pc |-> "idle"]

Lesser(a, b) == IF a < b THEN a ELSE b

Goes(c, pc, limiter) ==
  calling' = [calling EXCEPT ![c] = [@ EXCEPT !.pc = pc, !.limiter = limiter]]

Ends(c) == calling' = [calling EXCEPT ![c] = Waiting]

\* Limit: the shared bucket comes first and keeps the token, whatever the
\* address's own bucket says.
Limit(c, ip) ==
  /\ calling[c] = Waiting
  /\ IF global > 0
     THEN /\ global' = global - 1
          /\ calling' = [calling EXCEPT ![c] = [pc |-> "lookup", ip |-> ip, limiter |-> Absent]]
     ELSE UNCHANGED <<global, calling>>
  /\ UNCHANGED <<tokens, perIP, idle, owed>>

\* getLimiter under the read lock.
Lookup(c) ==
  /\ calling[c].pc = "lookup"
  /\ LET found == perIP[calling[c].ip]
     IN  Goes(c, IF found = Absent THEN "create" ELSE "touch", found)
  /\ UNCHANGED <<global, tokens, perIP, idle, owed>>

\* Under the write lock: the limiter found, even one removed since.
Touch(c) ==
  /\ calling[c].pc = "touch"
  /\ idle' = [idle EXCEPT ![calling[c].limiter] = 0]
  /\ Goes(c, "allow", calling[c].limiter)
  /\ UNCHANGED <<global, tokens, perIP, owed>>

Unused(l) ==
  /\ \A ip \in Addresses : perIP[ip] # l
  /\ \A c \in Callers : calling[c] # Waiting => calling[c].limiter # l

\* Under the write lock, where another request may have been quicker.
Create(c) ==
  /\ calling[c].pc = "create"
  /\ LET ip == calling[c].ip
         l  == IF perIP[ip] # Absent THEN perIP[ip]
               ELSE CHOOSE n \in Limiters : Unused(n)
     IN  /\ idle' = [idle EXCEPT ![l] = 0]
         /\ tokens' = IF perIP[ip] # Absent THEN tokens ELSE [tokens EXCEPT ![l] = Burst]
         /\ perIP' = [perIP EXCEPT ![ip] = l]
         /\ Goes(c, "allow", l)
  /\ UNCHANGED <<global, owed>>

\* Allow: admitted with a token, and otherwise refused.
Allow(c) ==
  /\ calling[c].pc = "allow"
  /\ LET l == calling[c].limiter
     IN  IF tokens[l] > 0
         THEN /\ tokens' = [tokens EXCEPT ![l] = @ - 1]
              /\ owed' = [owed EXCEPT ![calling[c].ip] = @ - 1]
         ELSE UNCHANGED <<tokens, owed>>
  /\ Ends(c)
  /\ UNCHANGED <<global, perIP, idle>>

\* Mutant of the next: every bucket is removed.
CleanUpAll ==
  /\ perIP' = [ip \in Addresses |-> Absent]
  /\ UNCHANGED <<global, tokens, idle, calling, owed>>

\* cleanupStaleEntries, at some moment of every minute.
CleanUp ==
  /\ \E ip \in Addresses : perIP[ip] # Absent /\ idle[perIP[ip]] > Stale
  /\ perIP' = [ip \in Addresses |->
       IF perIP[ip] # Absent /\ idle[perIP[ip]] > Stale THEN Absent ELSE perIP[ip]]
  /\ UNCHANGED <<global, tokens, idle, calling, owed>>

\* Time passes, between requests: what one does here takes none to speak of.
LimiterTick ==
  /\ \A c \in Callers : calling[c] = Waiting
  /\ global' = Lesser(GlobalBurst, global + GlobalRate)
  /\ tokens' = [l \in Limiters |-> Lesser(Burst, tokens[l] + Rate)]
  /\ idle' = [l \in Limiters |-> Lesser(Stale + 1, idle[l] + 1)]
  /\ owed' = [ip \in Addresses |-> Lesser(Burst, owed[ip] + Rate)]
  /\ UNCHANGED <<perIP, calling>>

LimiterInit ==
  /\ global = GlobalBurst
  /\ tokens = [l \in Limiters |-> Burst]
  /\ perIP = [ip \in Addresses |-> Absent]
  /\ idle = [l \in Limiters |-> 0]
  /\ calling = [c \in Callers |-> Waiting]
  /\ owed = [ip \in Addresses |-> Burst]

LimiterNext ==
  \/ \E c \in Callers :
       \/ \E ip \in Addresses : Limit(c, ip)
       \/ Lookup(c) \/ Touch(c) \/ Create(c) \/ Allow(c)
  \/ CleanUp \/ LimiterTick

LimiterSpec == LimiterInit /\ [][LimiterNext]_limiterVars

-----------------------------------------------------------------------------
LimiterTypeOK ==
  /\ global \in 0 .. GlobalBurst
  /\ tokens \in [Limiters -> 0 .. Burst]
  /\ perIP \in [Addresses -> Limiters \cup {Absent}]
  /\ idle \in [Limiters -> 0 .. Stale + 1]
  /\ \A c \in Callers :
       \/ calling[c] = Waiting
       \/ /\ calling[c].pc \in {"lookup", "touch", "create", "allow"}
          /\ calling[c].limiter \in Limiters \cup {Absent}
  /\ \A ip \in Addresses : owed[ip] \in Int /\ owed[ip] <= Burst

\* An address is admitted as a single bucket would admit it, but for the
\* requests that were holding its limiter when that was removed, in whatever
\* order lookups, creations and removals happen.
WithinTheRate == \A ip \in Addresses : owed[ip] >= -Cardinality(Callers)
=============================================================================
