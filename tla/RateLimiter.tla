----------------------------- MODULE RateLimiter -----------------------------
(***************************************************************************)
(* agents/base.py, RateLimiter: a sliding window of calls behind a fair    *)
(* lock, whose holder sleeps until the oldest call leaves the window.      *)
(* Times are ages, capped where they no longer matter.                     *)
(***************************************************************************)
EXTENDS Naturals, FiniteSets, SequencesExt

CONSTANTS MaxCalls, Period

ASSUME WindowAssumption == MaxCalls \in Nat \ {0} /\ Period \in Nat \ {0}

VARIABLES
  window,  \* RateLimiter._calls: ages of admitted calls, oldest first
  waiting, \* callers that hold (first) or await the lock
  sleep,   \* what is left of the holder's sleep (0: it does not sleep)
  recent   \* ages below Period of all calls admitted (history)

limitVars == <<window, waiting, sleep, recent>>

LimitInit == window = <<>> /\ waiting = <<>> /\ sleep = 0 /\ recent = <<>>

\* (mutant) ages are not capped: expired calls are kept.
MutOlder(a) == a + 1
Older(a) == IF a < Period THEN a + 1 ELSE Period

\* Calls are removed from the left of the deque while the first is as old as limit.
LeftOf(s, limit) ==
  SubSeq(s, (CHOOSE k \in 1..Len(s) + 1 :
               /\ \A i \in 1..k - 1 : s[i] >= limit
               /\ k <= Len(s) => s[k] < limit), Len(s))
Young(s) == LeftOf(s, Period)

\* A unit of time passes.
Pass ==
  /\ window' = [i \in DOMAIN window |-> Older(window[i])]
  /\ recent' = Young([i \in DOMAIN recent |-> recent[i] + 1])
  /\ sleep' = IF sleep > 0 THEN sleep - 1 ELSE 0
  /\ UNCHANGED waiting

\* acquire() up to the lock, of callers in the order they come.
Enqueue(xs) == waiting' = waiting \o xs /\ UNCHANGED <<window, sleep, recent>>

\* The holder, awake, has removed the calls that left the window.
\* (mutant) calls are removed one unit early.
MutKept == LeftOf(window, Period - 1)
Kept == Young(window)
Holds(x) == waiting # <<>> /\ Head(waiting) = x /\ sleep = 0

\* There is room: the call is admitted and the lock released.
\* (mutant) the lock is acquired without "async with".
MutAdmit(x) ==
  /\ Holds(x) /\ Len(Kept) < MaxCalls
  /\ window' = Append(Kept, 0)
  /\ recent' = Append(recent, 0)
  /\ UNCHANGED <<waiting, sleep>>
Admit(x) ==
  /\ Holds(x) /\ Len(Kept) < MaxCalls
  /\ window' = Append(Kept, 0)
  /\ recent' = Append(recent, 0)
  /\ waiting' = Tail(waiting)
  /\ UNCHANGED sleep

\* There is none: sleep until the oldest call is a period old.
Sleep(x) ==
  /\ Holds(x) /\ Len(Kept) >= MaxCalls
  /\ window' = Kept
  /\ sleep' = Period - Head(Kept)
  /\ UNCHANGED <<waiting, recent>>

LimitTypeOK ==
  /\ window \in Seq(0..Period) /\ recent \in Seq(0..Period - 1)
  /\ sleep \in 0..Period

\* In any period at most MaxCalls calls are admitted, and the lock's holder
\* sleeps only while the window is full.
WindowRespected ==
  /\ Len(recent) <= MaxCalls
  /\ sleep > 0 => waiting # <<>> /\ Len(window) = MaxCalls
=============================================================================
