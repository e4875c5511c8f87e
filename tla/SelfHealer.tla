----------------------------- MODULE SelfHealer -----------------------------
(***************************************************************************)
(* verification/self_healer.py: concurrent handle_failure() calls, the     *)
(* lock and the cooldown of each component, and the JSONL recovery log.    *)
(* Backoff sleeps are short against cooldowns: they take any time.         *)
(***************************************************************************)
EXTENDS Clock, FiniteSets, SequencesExt

CONSTANTS
  Failures,    \* calls of handle_failure, numbered in the order they are made
  Components,
  Policies,    \* failure type -> [retries, cooldown]
  MaxRestarts,
  HealFaults,  \* subset of {"crash", "log", "other"}
  Never,       \* no recovery yet
  Torn, Spoilt \* a line half written; one that can not be read

ASSUME PolicyAssumption ==
  /\ Failures \subseteq Nat /\ MaxRestarts \in Nat
  /\ Never \notin Nat \cup Components
  /\ Torn \notin Failures /\ Spoilt \notin Failures /\ Torn # Spoilt
  /\ "unknown" \notin DOMAIN Policies
  /\ \A t \in DOMAIN Policies : Policies[t].retries \in Nat /\ Policies[t].cooldown \in Nat

VARIABLES
  call,         \* failure -> its handle_failure call
  lock,         \* component -> calls that hold (first) or await its lock
  lastRecovery, \* component -> when its last recovery ended
  log,          \* lines of the recovery log: calls, Torn or Spoilt ones
  restarts

healVars == <<call, lock, lastRecovery, log, restarts>>

FailureTypes == DOMAIN Policies \cup {"unknown"}
Ended == {"done", "raised"}
NoCall == [pc |-> "none", type |-> "unknown", comp |-> Never, action |-> "none",
           tries |-> 0, started |-> 0, ended |-> 0, success |-> FALSE,
           escalated |-> FALSE, old |-> FALSE]

HealInit ==
  /\ call = [f \in Failures |-> NoCall]
  /\ lock = [c \in Components |-> <<>>]
  /\ lastRecovery = [c \in Components |-> Never]
  /\ log = <<>> /\ restarts = 0

-----------------------------------------------------------------------------
\* _append writes a line; after an interrupted write it lands on the same line.
\* (mutant) the log is opened with "w".
MutAppendLine(f) == <<f>>
AppendLine(f) ==
  IF log # <<>> /\ Last(log) = Torn
  THEN [log EXCEPT ![Len(log)] = Spoilt]
  ELSE Append(log, f)

\* Leaving the "async with" block hands the lock to the call that waits longest.
\* (mutant) the lock is not released when an exception leaves the block.
MutRelease(f) == lock' = IF call'[f].pc = "raised" THEN lock
                         ELSE [lock EXCEPT ![call[f].comp] = Tail(@)]
Release(f) == lock' = [lock EXCEPT ![call[f].comp] = Tail(@)]

\* handle_failure returns the event it has recorded, or raises because the log
\* can not be written.
End(f, c, action, success, escalated) ==
  \/ /\ call' = [call EXCEPT ![f] = [c EXCEPT !.pc = "done", !.action = action, !.ended = now,
                                       !.success = success, !.escalated = escalated]]
     /\ log' = AppendLine(f)
     /\ Release(f)
  \/ /\ "log" \in HealFaults
     /\ call' = [call EXCEPT ![f] = [c EXCEPT !.pc = "raised", !.action = action, !.ended = now]]
     /\ Release(f)
     /\ UNCHANGED log

\* A call of handle_failure(t, c), up to the lock.
Report(f, t, c) ==
  /\ call[f].pc = "none" /\ \A g \in Failures : g < f => call[g].pc # "none"
  /\ call' = [call EXCEPT ![f] = [NoCall EXCEPT !.pc = "waiting", !.type = t, !.comp = c]]
  /\ lock' = [lock EXCEPT ![c] = Append(@, f)]
  /\ UNCHANGED <<now, lastRecovery, log, restarts>>

-----------------------------------------------------------------------------
\* The call holds the lock and nothing has been done for it yet.
Entering(f) ==
  /\ call[f].pc = "waiting"
  /\ Head(lock[call[f].comp]) = f

Entered(f) == [call[f] EXCEPT !.started = now]

\* (mutant) the cooldown ends a unit early.
MutCooling(f) ==
  LET last == lastRecovery[call[f].comp] IN
  last # Never /\ now - last + 1 < Policies[call[f].type].cooldown
Cooling(f) ==
  LET last == lastRecovery[call[f].comp] IN
  last # Never /\ now - last < Policies[call[f].type].cooldown

\* No policy: escalate at once.
Escalate(f) ==
  /\ Entering(f) /\ call[f].type = "unknown"
  /\ End(f, Entered(f), "escalate", FALSE, TRUE)
  /\ UNCHANGED <<now, lastRecovery, restarts>>

CooldownActive(f) ==
  /\ Entering(f) /\ call[f].type # "unknown" /\ Cooling(f)
  /\ End(f, Entered(f), "cooldown_active", FALSE, FALSE)
  /\ UNCHANGED <<now, lastRecovery, restarts>>

\* The first backoff sleep (or the archival, which starts at once).
BeginRecovery(f) ==
  /\ Entering(f) /\ call[f].type # "unknown" /\ ~Cooling(f)
  /\ call' = [call EXCEPT ![f] = [Entered(f) EXCEPT !.pc = "recovering"]]
  /\ UNCHANGED <<now, lock, lastRecovery, log, restarts>>

\* The end of the recovery: the cooldown begins and the event is recorded,
\* escalated to a human if it did not succeed.
\* (mutant) a recovery that did not succeed is not escalated.
MutRecovered(f, success) ==
  /\ lastRecovery' = [lastRecovery EXCEPT ![call[f].comp] = now]
  /\ End(f, call[f], "recover", success, FALSE)
  /\ UNCHANGED <<now, restarts>>
Recovered(f, success) ==
  /\ lastRecovery' = [lastRecovery EXCEPT ![call[f].comp] = now]
  /\ End(f, call[f], "recover", success, ~success)
  /\ UNCHANGED <<now, restarts>>

Archive(f) ==
  /\ call[f].pc = "recovering" /\ call[f].type = "disk_space"
  /\ \E success \in BOOLEAN : Recovered(f, success)

Retrying(f) == call[f].pc = "recovering" /\ call[f].type # "disk_space"

\* A retry that returns True ends the loop ...
RetrySucceeds(f) ==
  /\ Retrying(f) /\ call[f].tries < Policies[call[f].type].retries
  /\ Recovered(f, TRUE)

\* ... one that returns False, or can not connect, counts, and ...
RetryFails(f) ==
  /\ Retrying(f) /\ call[f].tries < Policies[call[f].type].retries
  /\ call' = [call EXCEPT ![f].tries = @ + 1]
  /\ UNCHANGED <<now, lock, lastRecovery, log, restarts>>

\* ... the loop may have no (more) attempts.
OutOfRetries(f) ==
  /\ Retrying(f) /\ call[f].tries = Policies[call[f].type].retries
  /\ Recovered(f, FALSE)

\* Any other exception of the retry, or a cancellation, leaves handle_failure.
Escapes(f) ==
  /\ Retrying(f) /\ "other" \in HealFaults
  /\ call[f].tries < Policies[call[f].type].retries
  /\ call' = [call EXCEPT ![f].pc = "raised", ![f].ended = now]
  /\ Release(f)
  /\ UNCHANGED <<now, lastRecovery, log, restarts>>

\* The process ends and starts again; a line may be half written.
Restart ==
  /\ "crash" \in HealFaults /\ restarts < MaxRestarts
  /\ restarts' = restarts + 1
  /\ call' = [f \in Failures |->
       CASE call[f].pc = "none" -> call[f]
         [] call[f].pc \in Ended -> [call[f] EXCEPT !.old = TRUE]
         [] OTHER -> [call[f] EXCEPT !.old = TRUE, !.pc = "raised"]]
  /\ lock' = [c \in Components |-> <<>>]
  /\ lastRecovery' = [c \in Components |-> Never]
  /\ \/ UNCHANGED log
     \/ \E c \in Components : lock[c] # <<>> /\ log' = Append(log, Torn)
  /\ UNCHANGED now

-----------------------------------------------------------------------------
CallStep(f) ==
  \/ Escalate(f) \/ CooldownActive(f) \/ BeginRecovery(f) \/ Archive(f)
  \/ RetrySucceeds(f) \/ RetryFails(f) \/ OutOfRetries(f) \/ Escapes(f)

HealNext ==
  \/ \E f \in Failures : CallStep(f)
  \/ \E f \in Failures, t \in FailureTypes, c \in Components : Report(f, t, c)
  \/ Restart
  \/ Tick /\ UNCHANGED healVars

HealTypeOK ==
  /\ now \in 0..MaxTime
  /\ call \in [Failures ->
       [pc : {"none", "waiting", "recovering"} \cup Ended, type : FailureTypes,
        comp : Components \cup {Never}, tries : Nat, started : 0..MaxTime,
        ended : 0..MaxTime, success : BOOLEAN, escalated : BOOLEAN, old : BOOLEAN,
        action : {"none", "escalate", "cooldown_active", "recover"}]]
  /\ lock \in [Components -> Seq(Failures)]
  /\ lastRecovery \in [Components -> 0..MaxTime \cup {Never}]
  /\ log \in Seq(Failures \cup {Torn, Spoilt})
  /\ restarts \in 0..MaxRestarts

-----------------------------------------------------------------------------
\* Calls of this life of the process that tried to repair c.
Recoveries(c) == {f \in Failures : call[f].comp = c /\ call[f].action = "recover" /\ ~call[f].old}

\* One recovery of a component at a time, and between the end of one and the
\* beginning of another the cooldown of the latter, also for a call that waited
\* for the lock meanwhile.
RecoveriesSpaced ==
  \A c \in Components : \A f \in Recoveries(c) : \A g \in Failures \ {f} :
    call[g].comp = c /\ ~call[g].old /\ (call[g].pc = "recovering" \/ g \in Recoveries(c)) =>
      \/ call[g].started >= call[f].ended + Policies[call[g].type].cooldown
      \/ g \in Recoveries(c) /\ call[f].started >= call[g].ended + Policies[call[f].type].cooldown

\* Nobody is told of a failure only while a recovery of the component is recent
\* that succeeded or was escalated, or whose record could not be written.
SilenceIsCovered ==
  \A f \in Failures :
    call[f].pc = "done" /\ ~call[f].success /\ ~call[f].escalated =>
      \E g \in Failures \ {f} :
        /\ call[g].comp = call[f].comp /\ call[g].action = "recover"
        /\ call[g].ended + Policies[call[f].type].cooldown > call[f].ended
        /\ call[g].success \/ call[g].escalated \/ call[g].pc = "raised"

\* No call has two lines in the log, and each call that returned has one, a line
\* lost to an interrupted write excepted.  (What a call that raised leaves:
\* RecoveriesLogged.)
ReturnedIsLogged ==
  LET Lines(x) == {i \in DOMAIN log : log[i] = x} IN
  /\ \A f \in Failures : Cardinality(Lines(f)) <= 1
  /\ Cardinality({f \in Failures : call[f].pc = "done" /\ Lines(f) = {}})
       <= Cardinality(Lines(Spoilt))

\* "All automatic recovery events" are recorded in recovery_log.jsonl (system
\* design): a call that ended has its line, however it ended.
RecoveriesLogged ==
  \A f \in Failures : call[f].pc \in Ended => \E i \in DOMAIN log : log[i] = f

\* Every failure is dealt with or raised, whatever the calls before it met: in
\* the end no call is under way.
FailuresEnd == <>[](\A f \in Failures : call[f].pc \in Ended \cup {"none"})
=============================================================================
