---------------------------- MODULE RateLimiter ----------------------------
(***************************************************************************)
(* The limit on logins, by key: a window that starts with the first        *)
(* attempt, a count in it, and the goroutine that throws old windows away. *)
(* Every call is one section under the mutex, at a time of its own or at   *)
(* the time of another.                                                    *)
(***************************************************************************)
EXTENDS Naturals, FiniteSets, Sequences

CONSTANTS
  LimitKeys,
  Limit,        \* attempts in a window
  Window,       \* its length
  Horizon       \* bound: the last moment

ASSUME LimiterAssumption ==
  /\ Limit \in Nat \ {0} /\ Window \in Nat \ {0} /\ Horizon \in Nat

VARIABLES
  now,
  entries,   \* by key: count and reset; a key without an entry has count 0
  allowed    \* history: when attempts were let through, by key

limiterVars == <<now, entries, allowed>>

-----------------------------------------------------------------------------
NoEntry == [count |-> 0, reset |-> 0]

LimiterInit ==
  /\ now = 0
  /\ entries = [k \in LimitKeys |-> NoEntry]
  /\ allowed = [k \in LimitKeys |-> <<>>]

Tick ==
  /\ now < Horizon
  /\ now' = now + 1
  /\ UNCHANGED <<entries, allowed>>

LetThrough(k, entry) ==
  /\ entries' = [entries EXCEPT ![k] = entry]
  /\ allowed' = [allowed EXCEPT ![k] = Append(@, now)]
  /\ UNCHANGED now

\* allow, when the key has no entry or an old one: now.After(e.reset).
AllowFirst(k) ==
  /\ entries[k].count = 0 \/ now > entries[k].reset
  /\ LetThrough(k, [count |-> 1, reset |-> now + Window])

\* Variant with a bug: the limit is tested after it was reached.
AllowOneMore(k) ==
  /\ entries[k].count # 0 /\ now <= entries[k].reset
  /\ entries[k].count <= Limit
  /\ LetThrough(k, [entries[k] EXCEPT !.count = @ + 1])

\* allow within a window; beyond the limit nothing changes.
AllowNext(k) ==
  /\ entries[k].count # 0 /\ now <= entries[k].reset
  /\ entries[k].count < Limit
  /\ LetThrough(k, [entries[k] EXCEPT !.count = @ + 1])

\* The goroutine, once in a window's time, whenever that is.
CleanUp ==
  /\ entries' = [k \in LimitKeys |-> IF now > entries[k].reset THEN NoEntry ELSE entries[k]]
  /\ UNCHANGED <<now, allowed>>

LimiterNext == Tick \/ (\E k \in LimitKeys : AllowFirst(k) \/ AllowNext(k)) \/ CleanUp

LimiterSpec == LimiterInit /\ [][LimiterNext]_limiterVars

-----------------------------------------------------------------------------
(* Properties.                                                             *)

\* Counts and moments are numbers; an entry never counts beyond the limit.
LimiterTypeOK ==
  /\ now \in 0..Horizon
  /\ entries \in [LimitKeys -> [count : 0..Limit, reset : 0..(Horizon + Window)]]
  /\ allowed \in [LimitKeys -> Seq(0..Horizon)]

\* In any stretch of time as long as a window a key gets through at most twice
\* as often as the limit says: two windows can meet, three cannot, however the
\* goroutine that cleans up is timed.
AtMostTwiceTheLimit ==
  \A k \in LimitKeys : \A start \in 0..now :
    Cardinality({n \in 1..Len(allowed[k]) : allowed[k][n] \in start..(start + Window)})
      <= 2 * Limit
=============================================================================
