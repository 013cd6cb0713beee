----------------------------- MODULE RateLimit -----------------------------
(***************************************************************************)
(* The rate limiter (internal/ratelimit/limiter.go): one token bucket per   *)
(* key, made at the first request and forgotten by the cleanup when the key *)
(* has been idle for five minutes.                                          *)
(*                                                                         *)
(* The unit of time is what it takes to earn a token.  A bucket is the      *)
(* rate.Limiter of golang.org/x/time: it holds at most Burst tokens and     *)
(* starts full.  getLimiter and Limiter.Allow are one step: between them    *)
(* nothing touches the entry, since a cleanup spares a key that was just    *)
(* seen.                                                                    *)
(***************************************************************************)
EXTENDS Integers

CONSTANTS
  LimitKeys,   \* client addresses or SDK keys
  Burst,       \* the tokens of a full bucket
  IdleLimit,   \* five minutes
  NoEntry

\* A bucket fills up before its key is forgotten: with 5 tokens a minute in a
\* bucket of 5 (logins), 1000 a second in 2000 (addresses) and 500 a second in
\* 1000 (SDK keys), it takes one minute at the most.
ASSUME RateLimitAssumption ==
  /\ Burst \in Nat \ {0} /\ IdleLimit \in Nat
  /\ Burst <= IdleLimit
  /\ NoEntry \notin [tokens : 0 .. Burst, idle : Nat]

VARIABLES
  entries,   \* key -> [tokens, idle: time since lastSeen], or NoEntry
  granted,   \* key -> whether the last request was let through
  ideal      \* history: key -> the tokens of a bucket that is never forgotten

limitVars == <<entries, granted, ideal>>

RateLimitInit ==
  /\ entries = [k \in LimitKeys |-> NoEntry]
  /\ granted = [k \in LimitKeys |-> TRUE]
  /\ ideal = [k \in LimitKeys |-> Burst]

Earn(tokens) == IF tokens < Burst THEN tokens + 1 ELSE Burst
Spend(tokens) == IF tokens > 0 THEN tokens - 1 ELSE 0

\* Time passes.  Beyond IdleLimit + 1 the exact idle time does not matter.
Tick ==
  /\ entries' = [k \in LimitKeys |->
       IF entries[k] = NoEntry THEN NoEntry
       ELSE [tokens |-> Earn(entries[k].tokens),
             idle   |-> IF entries[k].idle <= IdleLimit THEN entries[k].idle + 1
                        ELSE entries[k].idle]]
  /\ ideal' = [k \in LimitKeys |-> Earn(ideal[k])]
  /\ UNCHANGED granted

\* Mutant: lastSeen is set when the entry is made, and not after.
Allow_SeenOnce(k) ==
  LET e == IF entries[k] = NoEntry THEN [tokens |-> Burst, idle |-> 0] ELSE entries[k]
  IN  /\ entries' = [entries EXCEPT ![k] = [tokens |-> Spend(e.tokens), idle |-> e.idle]]
      /\ granted' = [granted EXCEPT ![k] = e.tokens > 0]
      /\ ideal' = [ideal EXCEPT ![k] = Spend(@)]

\* A request by key k: lastSeen is set also when it is refused.
Allow(k) ==
  LET e == IF entries[k] = NoEntry THEN [tokens |-> Burst, idle |-> 0] ELSE entries[k]
  IN  /\ entries' = [entries EXCEPT ![k] = [tokens |-> Spend(e.tokens), idle |-> 0]]
      /\ granted' = [granted EXCEPT ![k] = e.tokens > 0]
      /\ ideal' = [ideal EXCEPT ![k] = Spend(@)]

\* The tick of the cleanup, every minute.
Cleanup ==
  /\ entries' = [k \in LimitKeys |->
       IF entries[k] # NoEntry /\ entries[k].idle > IdleLimit THEN NoEntry ELSE entries[k]]
  /\ UNCHANGED <<granted, ideal>>

RateLimitNext == Tick \/ Cleanup \/ \E k \in LimitKeys : Allow(k)

RateLimitSpec == RateLimitInit /\ [][RateLimitNext]_limitVars

-----------------------------------------------------------------------------
(***************************************************************************)
(* Properties.                                                              *)
(***************************************************************************)
\* Type invariant of the limiter.
RateLimitTypeOK ==
  /\ entries \in [LimitKeys -> [tokens : 0 .. Burst, idle : 0 .. IdleLimit + 1] \cup {NoEntry}]
  /\ granted \in [LimitKeys -> BOOLEAN]
  /\ ideal \in [LimitKeys -> 0 .. Burst]

\* Forgetting a key never shows: it has exactly the tokens that it would have
\* if buckets were kept for ever, so that the cleanup gives nobody a second
\* burst (internal/ratelimit/limiter.go:42-77).
ForgettingIsInvisible ==
  \A k \in LimitKeys :
    ideal[k] = (IF entries[k] = NoEntry THEN Burst ELSE entries[k].tokens)
=============================================================================
