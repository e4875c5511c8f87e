--------------------------- MODULE ServicesProofs ---------------------------
(***************************************************************************)
(* Theorems about Services, for every value of the constants.  The         *)
(* components share the clock only: each has an inductive invariant of its *)
(* own, kept by its steps and by the passing of time.                      *)
(***************************************************************************)
EXTENDS Services, FiniteSetTheorems, SequenceTheorems,
        WellFoundedInduction, TLAPS

-----------------------------------------------------------------------------
\* SelfHealer.  What a call of handle_failure is.
Calls == [pc : {"none", "waiting", "recovering"} \cup Ended, type : FailureTypes,
          comp : Components \cup {Never}, tries : Nat, started : 0..MaxTime,
          ended : 0..MaxTime, success : BOOLEAN, escalated : BOOLEAN, old : BOOLEAN,
          action : {"none", "escalate", "cooldown_active", "recover"}]

UnderWay == {"waiting", "recovering"}

\* The calls that hold or await the lock of a component are its calls under way,
\* each once, and only the holder recovers.
Queues ==
  /\ \A c \in Components : \A i \in 1..Len(lock[c]) :
       /\ call[lock[c][i]].comp = c /\ call[lock[c][i]].pc \in UnderWay
       /\ call[lock[c][i]].pc = "recovering" => i = 1
       /\ \A j \in 1..Len(lock[c]) : lock[c][i] = lock[c][j] => i = j
  /\ \A f \in Failures : call[f].pc \in UnderWay =>
       /\ call[f].comp \in Components
       /\ \E i \in 1..Len(lock[call[f].comp]) : lock[call[f].comp][i] = f

\* What a call's record says at each stage.
Stages ==
  \A f \in Failures :
    /\ call[f].action # "none" => call[f].pc \in Ended
    /\ call[f].action \in {"cooldown_active", "recover"} \/ call[f].pc = "recovering" =>
         call[f].type # "unknown" /\ call[f].comp \in Components
    /\ call[f].started <= now /\ call[f].ended <= now
    /\ call[f].old \/ call[f].success \/ call[f].escalated => call[f].pc \in Ended

HealBase == HealTypeOK /\ Queues /\ Stages

\* A step that ends the call f with the record r.
Leaves(f, r) ==
  /\ call[f].pc \in UnderWay /\ call[f].comp \in Components
  /\ lock[call[f].comp] # <<>> /\ Head(lock[call[f].comp]) = f
  /\ r \in Calls /\ r.pc \in Ended /\ r.ended = now /\ r.started <= now
  /\ r.comp = call[f].comp /\ r.type = call[f].type /\ ~r.old
  /\ r.action \in {"cooldown_active", "recover"} => call[f].type # "unknown"
  /\ r.action = "recover" =>
       /\ call[f].pc = "recovering" /\ r.started = call[f].started
       /\ r.pc = "done" => r.success \/ r.escalated
  /\ r.pc = "done" /\ ~r.success /\ ~r.escalated => r.action = "cooldown_active"
  /\ r.action = "cooldown_active" => Cooling(f)
  /\ call' = [call EXCEPT ![f] = r]
  /\ lock' = [lock EXCEPT ![call[f].comp] = Tail(@)]
  /\ log' = IF r.pc = "done" THEN AppendLine(f) ELSE log
  /\ lastRecovery' = IF r.action = "recover"
                     THEN [lastRecovery EXCEPT ![call[f].comp] = now] ELSE lastRecovery
  /\ UNCHANGED <<now, restarts>>

\* A call under way is in the lock's queue, and at its head if it recovers.
LEMMA HeadOfQueue ==
  ASSUME HealBase, NEW f \in Failures, call[f].pc \in UnderWay
  PROVE  /\ call[f].comp \in Components
         /\ lock[call[f].comp] \in Seq(Failures) /\ lock[call[f].comp] # <<>>
         /\ call[f].pc = "recovering" => Head(lock[call[f].comp]) = f
         /\ ~call[f].old /\ ~call[f].success /\ ~call[f].escalated /\ call[f].action = "none"
<1>1. call[f].comp \in Components
  BY DEF HealBase, Queues
<1>2. lock[call[f].comp] \in Seq(Failures)
  BY <1>1 DEF HealBase, HealTypeOK
<1>3. PICK i \in 1..Len(lock[call[f].comp]) : lock[call[f].comp][i] = f
  BY DEF HealBase, Queues
<1>4. lock[call[f].comp] # <<>>
  BY <1>2, <1>3
<1>5. call[f].pc = "recovering" => i = 1
  BY <1>1, <1>3 DEF HealBase, Queues
<1>6. ~call[f].old /\ ~call[f].success /\ ~call[f].escalated /\ call[f].action = "none"
  BY DEF HealBase, Stages, HealTypeOK, UnderWay, Ended
<1> QED
  BY <1>1, <1>2, <1>3, <1>4, <1>5, <1>6

\* End is the end of the call with the record that it is given, completed.
LEMMA EndLeaves ==
  ASSUME HealBase, NEW f \in Failures, NEW c \in Calls,
         NEW action \in {"escalate", "cooldown_active", "recover"},
         NEW success \in BOOLEAN, NEW escalated \in BOOLEAN,
         End(f, c, action, success, escalated), UNCHANGED <<now, restarts>>,
         call[f].pc \in UnderWay, Head(lock[call[f].comp]) = f,
         c.comp = call[f].comp, c.type = call[f].type, ~c.old, c.started <= now,
         ~c.success, ~c.escalated,
         action \in {"cooldown_active", "recover"} => call[f].type # "unknown",
         action = "recover" =>
           call[f].pc = "recovering" /\ c.started = call[f].started /\ escalated = ~success,
         ~success /\ ~escalated => action = "cooldown_active",
         action = "cooldown_active" => Cooling(f),
         lastRecovery' = IF action = "recover"
                         THEN [lastRecovery EXCEPT ![call[f].comp] = now] ELSE lastRecovery
  PROVE  \E r \in Calls : Leaves(f, r)
<1>1. now \in 0..MaxTime
  BY DEF HealBase, HealTypeOK
<1>2. call[f].comp \in Components /\ lock[call[f].comp] # <<>>
  BY HeadOfQueue
<1>3. CASE call' = [call EXCEPT ![f] = [c EXCEPT !.pc = "done", !.action = action, !.ended = now,
                                       !.success = success, !.escalated = escalated]]
            /\ log' = AppendLine(f) /\ Release(f)
  <2> DEFINE r == [c EXCEPT !.pc = "done", !.action = action, !.ended = now,
                            !.success = success, !.escalated = escalated]
  <2>1. r \in Calls
    BY <1>1 DEF Calls, Ended
  <2>2. Leaves(f, r)
    BY <1>1, <1>2, <1>3, <2>1 DEF Leaves, Calls, Ended, Release
  <2> QED
    BY <2>1, <2>2
<1>4. CASE call' = [call EXCEPT ![f] = [c EXCEPT !.pc = "raised", !.action = action, !.ended = now]]
            /\ Release(f) /\ UNCHANGED log
  <2> DEFINE r == [c EXCEPT !.pc = "raised", !.action = action, !.ended = now]
  <2>1. r \in Calls
    BY <1>1 DEF Calls, Ended
  <2>2. Leaves(f, r)
    BY <1>1, <1>2, <1>4, <2>1 DEF Leaves, Calls, Ended, Release
  <2> QED
    BY <2>1, <2>2
<1> QED
  BY <1>3, <1>4 DEF End

\* The beginning of a recovery, and an attempt that fails.
Begins(f) ==
  /\ call[f].pc = "waiting" /\ call[f].type # "unknown" /\ ~Cooling(f)
  /\ Head(lock[call[f].comp]) = f
  /\ call' = [call EXCEPT ![f] = [call[f] EXCEPT !.started = now, !.pc = "recovering"]]

Tries(f) ==
  /\ call[f].pc = "recovering"
  /\ call' = [call EXCEPT ![f] = [call[f] EXCEPT !.tries = @ + 1]]

\* Every step of a call begins a recovery, counts an attempt or ends the call.
LEMMA StepKinds ==
  ASSUME HealBase, NEW f \in Failures, CallStep(f)
  PROVE  \/ \E r \in Calls : Leaves(f, r)
         \/ (Begins(f) \/ Tries(f)) /\ UNCHANGED <<now, lock, lastRecovery, log, restarts>>
<1>1. call \in [Failures -> Calls] /\ now \in 0..MaxTime
  BY DEF HealBase, HealTypeOK, Calls
<1>2. call[f].started <= now
  BY DEF HealBase, Stages
<1>3. call[f].pc \in UnderWay =>
        /\ call[f].comp \in Components
        /\ ~call[f].old /\ ~call[f].success /\ ~call[f].escalated /\ call[f].action = "none"
  BY HeadOfQueue
<1>4. ASSUME call[f].pc = "recovering", NEW success \in BOOLEAN, Recovered(f, success)
      PROVE  \E r \in Calls : Leaves(f, r)
  <2>1. Head(lock[call[f].comp]) = f /\ call[f].type # "unknown" /\ call[f].pc \in UnderWay
    BY <1>4, HeadOfQueue DEF UnderWay, HealBase, Stages
  <2>2. End(f, call[f], "recover", success, ~success) /\ UNCHANGED <<now, restarts>>
        /\ lastRecovery' = [lastRecovery EXCEPT ![call[f].comp] = now]
    BY <1>4 DEF Recovered
  <2> QED
    BY <1>1, <1>2, <1>3, <1>4, <2>1, <2>2, EndLeaves
<1>5. ASSUME Entering(f)
      PROVE  /\ call[f].pc \in UnderWay /\ Head(lock[call[f].comp]) = f
             /\ Entered(f) \in Calls /\ Entered(f).comp = call[f].comp
             /\ Entered(f).type = call[f].type /\ ~Entered(f).old
             /\ Entered(f).started = now /\ ~Entered(f).success /\ ~Entered(f).escalated
  BY <1>1, <1>3, <1>5 DEF Entering, Entered, Calls, UnderWay
<1>6. CASE Escalate(f)
  <2>1. Entering(f) /\ UNCHANGED <<now, lastRecovery, restarts>>
        /\ End(f, Entered(f), "escalate", FALSE, TRUE)
    BY <1>6 DEF Escalate
  <2>2. /\ Entered(f).started <= now
        /\ lastRecovery' = IF "escalate" = "recover"
                           THEN [lastRecovery EXCEPT ![call[f].comp] = now] ELSE lastRecovery
    BY <1>1, <1>5, <2>1, ClockAssumption
  <2> QED
    BY <1>1, <1>5, <2>1, <2>2, EndLeaves
<1>7. CASE CooldownActive(f)
  <2>1. Entering(f) /\ UNCHANGED <<now, lastRecovery, restarts>>
        /\ End(f, Entered(f), "cooldown_active", FALSE, FALSE)
        /\ call[f].type # "unknown" /\ Cooling(f)
    BY <1>7 DEF CooldownActive
  <2>2. /\ Entered(f).started <= now
        /\ lastRecovery' = IF "cooldown_active" = "recover"
                           THEN [lastRecovery EXCEPT ![call[f].comp] = now] ELSE lastRecovery
    BY <1>1, <1>5, <2>1, ClockAssumption
  <2> QED
    BY <1>1, <1>5, <2>1, <2>2, EndLeaves
<1>8. CASE BeginRecovery(f)
  <2>1. Begins(f)
    BY <1>1, <1>5, <1>8 DEF BeginRecovery, Begins, Entered, Entering, Calls
  <2> QED
    BY <1>8, <2>1 DEF BeginRecovery
<1>9. CASE Archive(f)
  BY <1>4, <1>9 DEF Archive
<1>10. CASE RetrySucceeds(f)
  BY <1>4, <1>10 DEF RetrySucceeds, Retrying
<1>11. CASE RetryFails(f)
  BY <1>1, <1>11 DEF RetryFails, Retrying, Tries, Calls
<1>12. CASE OutOfRetries(f)
  BY <1>4, <1>12 DEF OutOfRetries, Retrying
<1>13. CASE Escapes(f)
  <2> DEFINE r == [call[f] EXCEPT !.pc = "raised", !.ended = now]
  <2>1. call[f].pc = "recovering" /\ call[f].pc \in UnderWay
    BY <1>13 DEF Escapes, Retrying, UnderWay
  <2>2. call[f].comp \in Components /\ lock[call[f].comp] # <<>> /\ Head(lock[call[f].comp]) = f
    BY <2>1, HeadOfQueue
  <2>3. r \in Calls /\ call' = [call EXCEPT ![f] = r]
    BY <1>1, <1>13 DEF Escapes, Calls, Ended
  <2>4. Leaves(f, r)
    BY <1>1, <1>2, <1>3, <1>13, <2>1, <2>2, <2>3 DEF Escapes, Leaves, Release, Calls, Ended
  <2> QED
    BY <2>3, <2>4
<1> QED
  BY <1>6, <1>7, <1>8, <1>9, <1>10, <1>11, <1>12, <1>13 DEF CallStep

\* A line more in the log.
LEMMA AppendLineType ==
  ASSUME HealTypeOK, NEW f \in Failures
  PROVE  AppendLine(f) \in Seq(Failures \cup {Torn, Spoilt})
<1>1. log \in Seq(Failures \cup {Torn, Spoilt})
  BY DEF HealTypeOK
<1>2. log # <<>> => Len(log) \in 1..Len(log)
  BY <1>1
<1>3. log # <<>> => [log EXCEPT ![Len(log)] = Spoilt] \in Seq(Failures \cup {Torn, Spoilt})
  BY <1>1, <1>2, ExceptSeq
<1> QED
  BY <1>1, <1>3 DEF AppendLine

LEMMA LeavesKeepsBase ==
  ASSUME HealBase, NEW f \in Failures, NEW r \in Calls, Leaves(f, r)
  PROVE  HealBase'
<1> DEFINE c == call[f].comp
<1>1. /\ call \in [Failures -> Calls] /\ now \in 0..MaxTime /\ restarts \in 0..MaxRestarts
      /\ lock \in [Components -> Seq(Failures)]
      /\ lastRecovery \in [Components -> 0..MaxTime \cup {Never}]
      /\ log \in Seq(Failures \cup {Torn, Spoilt})
  BY DEF HealBase, HealTypeOK, Calls
<1>2. /\ call[f].pc \in UnderWay /\ c \in Components
      /\ lock[c] # <<>> /\ Head(lock[c]) = f
      /\ r.pc \in Ended /\ r.ended = now /\ r.started <= now
      /\ r.comp = c /\ r.type = call[f].type /\ ~r.old
      /\ r.action \in {"cooldown_active", "recover"} => call[f].type # "unknown"
      /\ call' = [call EXCEPT ![f] = r]
      /\ lock' = [lock EXCEPT ![c] = Tail(@)]
      /\ log' = IF r.pc = "done" THEN AppendLine(f) ELSE log
      /\ lastRecovery' = IF r.action = "recover"
                         THEN [lastRecovery EXCEPT ![c] = now] ELSE lastRecovery
      /\ UNCHANGED <<now, restarts>>
  BY DEF Leaves
<1>3. lock[c] \in Seq(Failures) /\ Tail(lock[c]) \in Seq(Failures)
      /\ Len(Tail(lock[c])) = Len(lock[c]) - 1 /\ lock[c][1] = f
      /\ \A i \in 1..Len(Tail(lock[c])) : Tail(lock[c])[i] = lock[c][i + 1]
  BY <1>1, <1>2
<1>4. HealTypeOK'
  <2>1. call' \in [Failures -> Calls]
    BY <1>1, <1>2
  <2>2. lock' \in [Components -> Seq(Failures)]
    BY <1>1, <1>2, <1>3
  <2>3. lastRecovery' \in [Components -> 0..MaxTime \cup {Never}]
    BY <1>1, <1>2
  <2>4. log' \in Seq(Failures \cup {Torn, Spoilt})
    BY <1>1, <1>2, AppendLineType DEF HealBase
  <2> QED
    BY <1>1, <1>2, <2>1, <2>2, <2>3, <2>4 DEF HealTypeOK, Calls
<1>5. Queues'
  <2>1. ASSUME NEW d \in Components, NEW i \in 1..Len(lock'[d])
        PROVE  /\ call'[lock'[d][i]].comp = d /\ call'[lock'[d][i]].pc \in UnderWay
               /\ call'[lock'[d][i]].pc = "recovering" => i = 1
               /\ \A j \in 1..Len(lock'[d]) : lock'[d][i] = lock'[d][j] => i = j
    <3>1. CASE d = c
      <4>1. lock'[d] = Tail(lock[c])
        BY <1>1, <1>2, <3>1
      <4>2. i + 1 \in 1..Len(lock[c]) /\ i + 1 # 1 /\ 1 \in 1..Len(lock[c])
        BY <1>3, <4>1, <2>1
      <4>3. lock'[d][i] = lock[c][i + 1]
        BY <1>3, <4>1, <2>1
      <4>4. lock[c][i + 1] # f /\ lock[c][i + 1] \in Failures
        BY <1>2, <1>3, <4>2 DEF HealBase, Queues
      <4>5. call'[lock'[d][i]] = call[lock[c][i + 1]]
        BY <1>1, <1>2, <4>3, <4>4
      <4>6. /\ call[lock[c][i + 1]].comp = c /\ call[lock[c][i + 1]].pc \in UnderWay
            /\ call[lock[c][i + 1]].pc # "recovering"
        BY <1>2, <4>2 DEF HealBase, Queues
      <4>7. ASSUME NEW j \in 1..Len(lock'[d]), lock'[d][i] = lock'[d][j]
            PROVE  i = j
        <5>1. j + 1 \in 1..Len(lock[c]) /\ lock'[d][j] = lock[c][j + 1]
          BY <1>3, <4>1, <4>7
        <5>2. i + 1 = j + 1
          BY <1>2, <4>2, <4>3, <4>7, <5>1 DEF HealBase, Queues
        <5> QED
          BY <5>2, <2>1, <4>7, <1>3, <4>1
      <4>8. /\ call'[lock'[d][i]].comp = d /\ call'[lock'[d][i]].pc \in UnderWay
            /\ call'[lock'[d][i]].pc # "recovering"
        BY <3>1, <4>5, <4>6
      <4> QED
        BY <4>7, <4>8, Zenon
    <3>2. CASE d # c
      <4>1. lock'[d] = lock[d]
        BY <1>1, <1>2, <3>2
      <4>2. lock[d] \in Seq(Failures) /\ lock[d][i] \in Failures
        BY <1>1, <4>1, <2>1
      <4>3. lock[d][i] # f
        BY <1>2, <3>2, <4>1, <2>1 DEF HealBase, Queues
      <4>4. call'[lock'[d][i]] = call[lock[d][i]]
        BY <1>1, <1>2, <4>1, <4>2, <4>3
      <4> QED
        BY <2>1, <4>1, <4>4 DEF HealBase, Queues
    <3> QED
      BY <3>1, <3>2
  <2>2. ASSUME NEW g \in Failures, call'[g].pc \in UnderWay
        PROVE  /\ call'[g].comp \in Components
               /\ \E i \in 1..Len(lock'[call'[g].comp]) : lock'[call'[g].comp][i] = g
    <3>1. g # f /\ call'[g] = call[g]
      BY <1>1, <1>2, <2>2 DEF UnderWay, Ended
    <3> DEFINE d == call[g].comp
    <3>2. PICK i \in 1..Len(lock[d]) : lock[d][i] = g
      BY <2>2, <3>1 DEF HealBase, Queues
    <3>3. d \in Components
      BY <2>2, <3>1 DEF HealBase, Queues
    <3>4. CASE d = c
      <4>1. i # 1
        BY <1>3, <3>1, <3>2, <3>4
      <4>2. lock'[d] = Tail(lock[c])
        BY <1>1, <1>2, <3>4
      <4>3. i - 1 \in 1..Len(Tail(lock[c]))
        BY <1>3, <3>2, <3>4, <4>1
      <4>4. Tail(lock[c])[i - 1] = lock[c][i]
        BY <1>3, <4>3, <3>2
      <4> QED
        BY <3>1, <3>2, <3>3, <3>4, <4>2, <4>3, <4>4
    <3>5. CASE d # c
      <4>1. lock'[d] = lock[d]
        BY <1>1, <1>2, <3>3, <3>5
      <4> QED
        BY <3>1, <3>2, <3>3, <4>1
    <3> QED
      BY <3>4, <3>5
  <2> QED
    BY <2>1, <2>2 DEF Queues
<1>6. Stages'
  <2> SUFFICES ASSUME NEW g \in Failures
               PROVE  /\ call'[g].action # "none" => call'[g].pc \in Ended
                      /\ call'[g].action \in {"cooldown_active", "recover"} \/ call'[g].pc = "recovering" =>
                           call'[g].type # "unknown" /\ call'[g].comp \in Components
                      /\ call'[g].started <= now' /\ call'[g].ended <= now'
                      /\ call'[g].old \/ call'[g].success \/ call'[g].escalated => call'[g].pc \in Ended
    BY DEF Stages
  <2>1. CASE g = f
    BY <1>1, <1>2, <2>1, ClockAssumption DEF Ended
  <2>2. CASE g # f
    BY <1>1, <1>2, <2>2 DEF HealBase, Stages
  <2> QED
    BY <2>1, <2>2
<1> QED
  BY <1>4, <1>5, <1>6 DEF HealBase

LEMMA GoesOnKeepsBase ==
  ASSUME HealBase, NEW f \in Failures, Begins(f) \/ Tries(f),
         UNCHANGED <<now, lock, lastRecovery, log, restarts>>
  PROVE  HealBase'
<1>1. /\ call \in [Failures -> Calls] /\ now \in 0..MaxTime
      /\ lock \in [Components -> Seq(Failures)]
  BY DEF HealBase, HealTypeOK, Calls
<1>2. call[f].pc \in UnderWay
  BY DEF Begins, Tries, UnderWay
<1>3. call[f].comp \in Components /\ lock[call[f].comp] # <<>>
      /\ Head(lock[call[f].comp]) = f
      /\ ~call[f].old /\ ~call[f].success /\ ~call[f].escalated /\ call[f].action = "none"
  BY <1>2, HeadOfQueue DEF Begins, Tries
<1>4. call[f].type # "unknown"
  BY DEF Begins, Tries, HealBase, Stages
<1>5. PICK r \in Calls :
        /\ call' = [call EXCEPT ![f] = r]
        /\ r.pc = "recovering" /\ r.comp = call[f].comp /\ r.type = call[f].type /\ ~r.old
        /\ ~r.success /\ ~r.escalated /\ r.action = "none" /\ r.ended = call[f].ended
        /\ r.started = now \/ r.started = call[f].started
  <2>1. CASE Begins(f)
    <3> DEFINE r == [call[f] EXCEPT !.started = now, !.pc = "recovering"]
    <3>1. r \in Calls
      BY <1>1 DEF Calls
    <3> QED
      BY <1>1, <1>3, <2>1, <3>1 DEF Begins, Calls
  <2>2. CASE Tries(f)
    <3> DEFINE r == [call[f] EXCEPT !.tries = @ + 1]
    <3>0. call[f] \in Calls /\ call[f].tries + 1 \in Nat
      BY <1>1 DEF Calls
    <3>1. r \in Calls
      BY <3>0 DEF Calls
    <3> QED
      BY <1>1, <1>3, <2>2, <3>1 DEF Tries, Calls
  <2> QED
    BY <2>1, <2>2
<1>6. HealTypeOK'
  <2>1. call' \in [Failures -> Calls]
    BY <1>1, <1>5
  <2> QED
    BY <2>1 DEF HealBase, HealTypeOK, Calls
<1>7. Queues'
  <2>1. ASSUME NEW d \in Components, NEW i \in 1..Len(lock[d])
        PROVE  /\ call'[lock[d][i]].comp = d /\ call'[lock[d][i]].pc \in UnderWay
               /\ call'[lock[d][i]].pc = "recovering" => i = 1
    <3>1. CASE lock[d][i] = f
      <4>1. call[f].comp = d
        BY <2>1, <3>1 DEF HealBase, Queues
      <4>2. lock[d][1] = f /\ 1 \in 1..Len(lock[d])
        BY <1>1, <1>3, <4>1
      <4>3. i = 1
        BY <2>1, <3>1, <4>2 DEF HealBase, Queues
      <4> QED
        BY <1>1, <1>5, <3>1, <4>1, <4>3 DEF UnderWay
    <3>2. CASE lock[d][i] # f
      <4>1. lock[d][i] \in Failures
        BY <1>1, <2>1
      <4> QED
        BY <1>1, <1>5, <2>1, <3>2, <4>1 DEF HealBase, Queues
    <3> QED
      BY <3>1, <3>2
  <2>2. ASSUME NEW g \in Failures, call'[g].pc \in UnderWay
        PROVE  call[g].pc \in UnderWay /\ call'[g].comp = call[g].comp
    BY <1>1, <1>2, <1>5, <2>2
  <2> QED
    BY <2>1, <2>2 DEF HealBase, Queues
<1>8. Stages'
  <2> SUFFICES ASSUME NEW g \in Failures
               PROVE  /\ call'[g].action # "none" => call'[g].pc \in Ended
                      /\ call'[g].action \in {"cooldown_active", "recover"} \/ call'[g].pc = "recovering" =>
                           call'[g].type # "unknown" /\ call'[g].comp \in Components
                      /\ call'[g].started <= now' /\ call'[g].ended <= now'
                      /\ call'[g].old \/ call'[g].success \/ call'[g].escalated => call'[g].pc \in Ended
    BY DEF Stages
  <2>1. CASE g = f
    BY <1>1, <1>3, <1>4, <1>5, <2>1, ClockAssumption DEF HealBase, Stages
  <2>2. CASE g # f
    BY <1>1, <1>5, <2>2 DEF HealBase, Stages
  <2> QED
    BY <2>1, <2>2
<1> QED
  BY <1>6, <1>7, <1>8 DEF HealBase

LEMMA ReportKeepsBase ==
  ASSUME HealBase, NEW f \in Failures, NEW t \in FailureTypes, NEW c \in Components, Report(f, t, c)
  PROVE  HealBase'
<1> DEFINE r == [NoCall EXCEPT !.pc = "waiting", !.type = t, !.comp = c]
<1>1. /\ call \in [Failures -> Calls] /\ now \in 0..MaxTime
      /\ lock \in [Components -> Seq(Failures)]
  BY DEF HealBase, HealTypeOK, Calls
<1>2. /\ call[f].pc = "none" /\ call' = [call EXCEPT ![f] = r]
      /\ lock' = [lock EXCEPT ![c] = Append(@, f)]
      /\ UNCHANGED <<now, lastRecovery, log, restarts>>
  BY DEF Report
<1>3. r \in Calls
  <2>1. NoCall \in Calls
    BY ClockAssumption DEF NoCall, Calls, FailureTypes
  <2> QED
    BY <2>1 DEF Calls
<1>4. /\ Append(lock[c], f) \in Seq(Failures) /\ Len(Append(lock[c], f)) = Len(lock[c]) + 1
      /\ \A i \in 1..Len(lock[c]) : Append(lock[c], f)[i] = lock[c][i]
      /\ Append(lock[c], f)[Len(lock[c]) + 1] = f /\ Len(lock[c]) \in Nat
  BY <1>1
<1>5. ASSUME NEW d \in Components, NEW i \in 1..Len(lock[d])
      PROVE  lock[d][i] \in Failures /\ lock[d][i] # f
  <2>1. lock[d] \in Seq(Failures)
    BY <1>1
  <2>2. call[lock[d][i]].pc \in UnderWay
    BY DEF HealBase, Queues
  <2> QED
    BY <1>2, <2>1, <2>2 DEF UnderWay
<1>6. HealTypeOK'
  <2>1. call' \in [Failures -> Calls]
    BY <1>1, <1>2, <1>3
  <2>2. lock' \in [Components -> Seq(Failures)]
    BY <1>1, <1>2, <1>4
  <2> QED
    BY <1>2, <2>1, <2>2 DEF HealBase, HealTypeOK, Calls
<1>7. Queues'
  <2>1. ASSUME NEW d \in Components, NEW i \in 1..Len(lock'[d])
        PROVE  /\ call'[lock'[d][i]].comp = d /\ call'[lock'[d][i]].pc \in UnderWay
               /\ call'[lock'[d][i]].pc = "recovering" => i = 1
               /\ \A j \in 1..Len(lock'[d]) : lock'[d][i] = lock'[d][j] => i = j
    <3>1. lock'[d] = IF d = c THEN Append(lock[c], f) ELSE lock[d]
      BY <1>1, <1>2
    <3>2. CASE d = c /\ i = Len(lock[c]) + 1
      <4>1. lock'[d][i] = f /\ call'[f].comp = d /\ call'[f].pc = "waiting"
        BY <1>1, <1>2, <1>3, <1>4, <3>1, <3>2 DEF NoCall
      <4>2. \A j \in 1..Len(lock'[d]) : lock'[d][j] = f => j = i
        BY <1>4, <1>5, <3>1, <3>2
      <4> QED
        BY <4>1, <4>2 DEF UnderWay
    <3>3. CASE i \in 1..Len(lock[d])
      <4>1. lock'[d][i] = lock[d][i] /\ lock[d][i] \in Failures /\ lock[d][i] # f
        BY <1>4, <1>5, <3>1, <3>3
      <4>2. call'[lock[d][i]] = call[lock[d][i]]
        BY <1>1, <1>2, <4>1
      <4>3. \A j \in 1..Len(lock'[d]) : lock'[d][j] = lock[d][i] => j = i
        BY <1>4, <1>5, <3>1, <3>3, <4>1 DEF HealBase, Queues
      <4> QED
        BY <3>3, <4>1, <4>2, <4>3 DEF HealBase, Queues
    <3> QED
      BY <1>4, <2>1, <3>1, <3>2, <3>3
  <2>2. ASSUME NEW g \in Failures, call'[g].pc \in UnderWay
        PROVE  /\ call'[g].comp \in Components
               /\ \E i \in 1..Len(lock'[call'[g].comp]) : lock'[call'[g].comp][i] = g
    <3>1. CASE g = f
      <4>1. call'[g].comp = c /\ lock'[c] = Append(lock[c], f)
        BY <1>1, <1>2, <1>3, <3>1 DEF NoCall
      <4>2. Len(lock[c]) + 1 \in 1..Len(Append(lock[c], f))
        BY <1>4
      <4> QED
        BY <1>4, <3>1, <4>1, <4>2
    <3>2. CASE g # f
      <4>1. call'[g] = call[g]
        BY <1>1, <1>2, <3>2
      <4>2. call[g].comp \in Components
        BY <2>2, <4>1 DEF HealBase, Queues
      <4>3. PICK i \in 1..Len(lock[call[g].comp]) : lock[call[g].comp][i] = g
        BY <2>2, <4>1 DEF HealBase, Queues
      <4>4. i \in 1..Len(lock'[call[g].comp]) /\ lock'[call[g].comp][i] = g
        BY <1>1, <1>2, <1>4, <4>2, <4>3
      <4> QED
        BY <4>1, <4>2, <4>4
    <3> QED
      BY <3>1, <3>2
  <2> QED
    BY <2>1, <2>2 DEF Queues
<1>8. Stages'
  <2> SUFFICES ASSUME NEW g \in Failures
               PROVE  /\ call'[g].action # "none" => call'[g].pc \in Ended
                      /\ call'[g].action \in {"cooldown_active", "recover"} \/ call'[g].pc = "recovering" =>
                           call'[g].type # "unknown" /\ call'[g].comp \in Components
                      /\ call'[g].started <= now' /\ call'[g].ended <= now'
                      /\ call'[g].old \/ call'[g].success \/ call'[g].escalated => call'[g].pc \in Ended
    BY DEF Stages
  <2>1. CASE g = f
    BY <1>1, <1>2, <2>1, ClockAssumption DEF NoCall
  <2>2. CASE g # f
    BY <1>1, <1>2, <2>2 DEF HealBase, Stages
  <2> QED
    BY <2>1, <2>2
<1> QED
  BY <1>6, <1>7, <1>8 DEF HealBase

\* What a restart does to the record of a call.
LEMMA RestartedCall ==
  ASSUME HealBase, Restart, NEW f \in Failures
  PROVE  /\ call'[f] \in Calls /\ call'[f].pc \notin UnderWay
         /\ call[f].pc \notin UnderWay => call'[f].pc = call[f].pc
         /\ call'[f].pc = "done" => call[f].pc = "done"
         /\ call'[f].pc # "none" => call'[f].old
         /\ call'[f].old => call'[f].pc \in Ended
         /\ call'[f].type = call[f].type /\ call'[f].comp = call[f].comp
         /\ call'[f].action = call[f].action /\ call'[f].started = call[f].started
         /\ call'[f].ended = call[f].ended /\ call'[f].success = call[f].success
         /\ call'[f].escalated = call[f].escalated
<1>1. call[f] \in Calls
  BY DEF HealBase, HealTypeOK, Calls
<1>2. call'[f] = CASE call[f].pc = "none" -> call[f]
                   [] call[f].pc \in Ended -> [call[f] EXCEPT !.old = TRUE]
                   [] OTHER -> [call[f] EXCEPT !.old = TRUE, !.pc = "raised"]
  BY DEF Restart
<1>3. CASE call[f].pc = "none"
  <2>1. call'[f] = call[f] /\ ~call[f].old
    BY <1>2, <1>3 DEF HealBase, Stages, Ended
  <2> QED
    BY <1>1, <1>3, <2>1 DEF UnderWay
<1>4. CASE call[f].pc \in Ended
  <2>1. call'[f] = [call[f] EXCEPT !.old = TRUE]
    BY <1>2, <1>4 DEF Ended
  <2> QED
    BY <1>1, <1>4, <2>1 DEF UnderWay, Ended, Calls
<1>5. CASE call[f].pc \in UnderWay
  <2>1. call'[f] = [call[f] EXCEPT !.old = TRUE, !.pc = "raised"]
    BY <1>2, <1>5 DEF UnderWay, Ended
  <2> QED
    BY <1>1, <1>5, <2>1 DEF UnderWay, Ended, Calls
<1> QED
  BY <1>1, <1>3, <1>4, <1>5 DEF Calls, UnderWay

LEMMA RestartKeepsBase ==
  ASSUME HealBase, Restart
  PROVE  HealBase'
<1>1. \A f \in Failures :
        /\ call'[f] \in Calls /\ call'[f].pc \notin UnderWay
        /\ call[f].pc \notin UnderWay => call'[f].pc = call[f].pc
        /\ call'[f].old => call'[f].pc \in Ended
        /\ call'[f].type = call[f].type /\ call'[f].comp = call[f].comp
        /\ call'[f].action = call[f].action /\ call'[f].started = call[f].started
        /\ call'[f].ended = call[f].ended /\ call'[f].success = call[f].success
        /\ call'[f].escalated = call[f].escalated
  BY RestartedCall
<1>2. /\ lock' = [c \in Components |-> <<>>] /\ lastRecovery' = [c \in Components |-> Never]
      /\ log' = log \/ log' = Append(log, Torn)
      /\ restarts < MaxRestarts /\ restarts' = restarts + 1 /\ now' = now
  BY DEF Restart
<1>3. HealTypeOK'
  <2>1. call' \in [Failures -> Calls]
    BY <1>1 DEF Restart
  <2>2. lock' \in [Components -> Seq(Failures)]
    BY <1>2
  <2>3. log' \in Seq(Failures \cup {Torn, Spoilt})
    <3>1. log \in Seq(Failures \cup {Torn, Spoilt})
      BY DEF HealBase, HealTypeOK
    <3>2. Append(log, Torn) \in Seq(Failures \cup {Torn, Spoilt})
      BY <3>1
    <3> QED
      BY <1>2, <3>1, <3>2
  <2>4. restarts' \in 0..MaxRestarts
    BY <1>2, PolicyAssumption DEF HealBase, HealTypeOK
  <2> QED
    BY <1>2, <2>1, <2>2, <2>3, <2>4 DEF HealBase, HealTypeOK, Calls
<1>4. Queues'
  <2>1. \A c \in Components : Len(lock'[c]) = 0
    BY <1>2
  <2> QED
    BY <1>1, <2>1 DEF Queues
<1>5. Stages'
  <2> SUFFICES ASSUME NEW g \in Failures
               PROVE  /\ call'[g].action # "none" => call'[g].pc \in Ended
                      /\ call'[g].action \in {"cooldown_active", "recover"} \/ call'[g].pc = "recovering" =>
                           call'[g].type # "unknown" /\ call'[g].comp \in Components
                      /\ call'[g].started <= now' /\ call'[g].ended <= now'
                      /\ call'[g].old \/ call'[g].success \/ call'[g].escalated => call'[g].pc \in Ended
    BY DEF Stages
  <2>1. call[g].pc \in Ended => call'[g].pc \in Ended
    BY <1>1 DEF UnderWay, Ended
  <2>2. call'[g].pc # "recovering"
    BY <1>1 DEF UnderWay
  <2> QED
    BY <1>1, <1>2, <2>1, <2>2 DEF HealBase, Stages
<1> QED
  BY <1>3, <1>4, <1>5 DEF HealBase

\* The clock runs on, or another component takes a step.
LEMMA TimeKeepsBase ==
  ASSUME HealBase, UNCHANGED healVars, now' \in 0..MaxTime, now <= now'
  PROVE  HealBase'
<1>1. HealTypeOK'
  BY DEF HealBase, HealTypeOK, healVars
<1>2. Queues'
  BY DEF HealBase, Queues, healVars
<1>3. now \in Nat /\ now' \in Nat
        /\ \A f \in Failures : call[f].started \in Nat /\ call[f].ended \in Nat
  BY ClockAssumption DEF HealBase, HealTypeOK
<1>4. Stages'
  BY <1>3 DEF HealBase, Stages, healVars
<1> QED
  BY <1>1, <1>2, <1>4 DEF HealBase

-----------------------------------------------------------------------------
\* The cooldown of a component runs from its last recovery of this life of the
\* process, and that recovery was told to somebody.
Latest ==
  \A c \in Components : \A f \in Recoveries(c) :
    lastRecovery[c] # Never /\ call[f].ended <= lastRecovery[c]

Covered ==
  \A c \in Components : lastRecovery[c] # Never =>
    \E g \in Failures :
      /\ call[g].comp = c /\ call[g].action = "recover" /\ call[g].ended = lastRecovery[c]
      /\ call[g].success \/ call[g].escalated \/ call[g].pc = "raised"

HealInv == HealBase /\ Latest /\ RecoveriesSpaced /\ Covered /\ SilenceIsCovered

\* One call at a time recovers a component.
LEMMA OneRecovers ==
  ASSUME HealBase, NEW f \in Failures, NEW g \in Failures,
         call[f].pc = "recovering", call[g].pc = "recovering", call[f].comp = call[g].comp
  PROVE  f = g
BY HeadOfQueue DEF UnderWay

LEMMA Cooldowns ==
  ASSUME HealBase, NEW f \in Failures,
         call[f].action \in {"cooldown_active", "recover"} \/ call[f].pc = "recovering"
  PROVE  /\ call[f].comp \in Components
         /\ call[f].type # "unknown" /\ Policies[call[f].type].cooldown \in Nat
         /\ call[f].started \in Nat /\ call[f].ended \in Nat
<1>1. call[f].type # "unknown" /\ call[f].comp \in Components
  BY DEF HealBase, Stages
<1>2. call[f] \in Calls
  BY DEF HealBase, HealTypeOK, Calls
<1>3. call[f].type \in DOMAIN Policies
  BY <1>1, <1>2 DEF Calls, FailureTypes
<1>4. call[f].started \in 0..MaxTime /\ call[f].ended \in 0..MaxTime
  BY <1>2 DEF Calls
<1> QED
  BY <1>1, <1>3, <1>4, PolicyAssumption, ClockAssumption

\* The end of a call: a recovery ends after all others of its component, which
\* it was spaced from since it began; a call told that the cooldown is active
\* finds the recovery that the cooldown runs from.
LEMMA LeavesKeepsInv ==
  ASSUME HealInv, NEW f \in Failures, NEW r \in Calls, Leaves(f, r)
  PROVE  HealInv'
<1> DEFINE c == call[f].comp
<1> USE DEF HealInv
<1>1. HealBase'
  BY LeavesKeepsBase
<1>2. /\ call \in [Failures -> Calls]
      /\ lastRecovery \in [Components -> 0..MaxTime \cup {Never}]
      /\ now \in Nat /\ Never \notin Nat
  BY ClockAssumption, PolicyAssumption DEF HealBase, HealTypeOK, Calls
<1>3. /\ call[f].pc \in UnderWay /\ c \in Components
      /\ r.pc \in Ended /\ r.ended = now /\ r.comp = c /\ r.type = call[f].type
      /\ r.action = "recover" =>
           /\ call[f].pc = "recovering" /\ r.started = call[f].started
           /\ r.pc = "done" => r.success \/ r.escalated
      /\ r.pc = "done" /\ ~r.success /\ ~r.escalated => r.action = "cooldown_active"
      /\ r.action = "cooldown_active" => Cooling(f)
      /\ call' = [call EXCEPT ![f] = r] /\ now' = now
      /\ lastRecovery' = IF r.action = "recover"
                         THEN [lastRecovery EXCEPT ![c] = now] ELSE lastRecovery
  BY DEF Leaves
<1>4. call'[f] = r /\ \A g \in Failures \ {f} : call'[g] = call[g]
  BY <1>2, <1>3
<1>5. call[f].action = "none" /\ ~call[f].success /\ ~call[f].escalated /\ call[f].pc # "raised"
  BY <1>3, HeadOfQueue DEF UnderWay
<1>6. \A d \in Components :
        lastRecovery'[d] = IF r.action = "recover" /\ d = c THEN now ELSE lastRecovery[d]
  BY <1>2, <1>3
<1>7. ASSUME NEW d \in Components, NEW g \in Recoveries(d)'
      PROVE  IF g = f THEN d = c /\ r.action = "recover" ELSE g \in Recoveries(d)
  BY <1>3, <1>4, <1>7 DEF Recoveries
<1>8. Latest'
  <2> SUFFICES ASSUME NEW d \in Components, NEW g \in Recoveries(d)'
               PROVE  lastRecovery'[d] # Never /\ call'[g].ended <= lastRecovery'[d]
    BY DEF Latest
  <2>1. CASE g = f
    BY <1>2, <1>3, <1>4, <1>6, <1>7, <2>1
  <2>2. CASE g # f
    <3>1. g \in Failures /\ g \in Recoveries(d) /\ call'[g] = call[g]
      BY <1>4, <1>7, <2>2 DEF Recoveries
    <3>2. lastRecovery[d] # Never /\ call[g].ended <= lastRecovery[d]
      BY <3>1 DEF Latest
    <3>3. call[g].ended <= now
      BY <3>1 DEF HealBase, Stages
    <3> QED
      BY <1>2, <1>6, <3>1, <3>2, <3>3
  <2> QED
    BY <2>1, <2>2
<1>9. RecoveriesSpaced'
  <2> SUFFICES ASSUME NEW d \in Components, NEW p \in Recoveries(d)', NEW q \in Failures \ {p},
                      call'[q].comp = d, ~call'[q].old,
                      call'[q].pc = "recovering" \/ q \in Recoveries(d)'
               PROVE  \/ call'[q].started >= call'[p].ended + Policies[call'[q].type].cooldown
                      \/ /\ q \in Recoveries(d)'
                         /\ call'[p].started >= call'[q].ended + Policies[call'[p].type].cooldown
    BY DEF RecoveriesSpaced
  <2>1. p \in Failures
    BY DEF Recoveries
  <2>2. CASE p # f /\ q # f
    <3>1. p \in Recoveries(d) /\ call'[p] = call[p] /\ call'[q] = call[q]
      BY <1>4, <1>7, <2>1, <2>2
    <3>2. q \in Recoveries(d)' <=> q \in Recoveries(d)
      BY <3>1 DEF Recoveries
    <3> QED
      BY <3>1, <3>2 DEF RecoveriesSpaced
  <2>3. CASE p = f
    <3>1. d = c /\ r.action = "recover" /\ call[f].pc = "recovering"
      BY <1>3, <1>7, <2>3
    <3>2. q \in Failures /\ q # f /\ call'[q] = call[q]
      BY <1>4, <2>3
    <3>3. call[q].pc # "recovering"
      BY <3>1, <3>2, OneRecovers
    <3>4. q \in Recoveries(d)' /\ q \in Recoveries(d)
      BY <1>7, <3>2, <3>3
    <3>5. /\ f \in Failures \ {q} /\ call[f].comp = d /\ ~call[f].old /\ f \notin Recoveries(d)
      BY <1>5, <3>1, <3>2, HeadOfQueue DEF Recoveries, UnderWay
    <3>6. call[f].started >= call[q].ended + Policies[call[f].type].cooldown
      BY <3>1, <3>4, <3>5 DEF RecoveriesSpaced
    <3> QED
      BY <1>3, <1>4, <2>3, <3>1, <3>2, <3>4, <3>6
  <2>4. CASE q = f
    <3>1. f \in Recoveries(d)'
      BY <1>3, <1>4, <2>4 DEF Ended
    <3>2. d = c /\ r.action = "recover" /\ call[f].pc = "recovering"
      BY <1>3, <1>7, <3>1
    <3>3. p \in Recoveries(d) /\ p # f /\ call'[p] = call[p]
      BY <1>4, <1>7, <2>1, <2>4
    <3>4. call[f].comp = d /\ ~call[f].old /\ f \notin Recoveries(d) /\ f \in Failures \ {p}
      BY <1>5, <3>2, <3>3, HeadOfQueue DEF Recoveries, UnderWay
    <3>5. call[f].started >= call[p].ended + Policies[call[f].type].cooldown
      BY <3>2, <3>3, <3>4 DEF RecoveriesSpaced
    <3> QED
      BY <1>3, <1>4, <2>4, <3>2, <3>3, <3>5
  <2> QED
    BY <2>2, <2>3, <2>4
<1>10. Covered'
  <2> SUFFICES ASSUME NEW d \in Components, lastRecovery'[d] # Never
               PROVE  \E g \in Failures :
                        /\ call'[g].comp = d /\ call'[g].action = "recover"
                        /\ call'[g].ended = lastRecovery'[d]
                        /\ call'[g].success \/ call'[g].escalated \/ call'[g].pc = "raised"
    BY DEF Covered
  <2>1. CASE r.action = "recover" /\ d = c
    BY <1>3, <1>4, <1>6, <2>1 DEF Ended
  <2>2. CASE ~(r.action = "recover" /\ d = c)
    <3>1. lastRecovery'[d] = lastRecovery[d]
      BY <1>6, <2>2
    <3>2. PICK g \in Failures :
            /\ call[g].comp = d /\ call[g].action = "recover" /\ call[g].ended = lastRecovery[d]
            /\ call[g].success \/ call[g].escalated \/ call[g].pc = "raised"
      BY <3>1 DEF Covered
    <3>3. g # f
      BY <1>5, <3>2
    <3> QED
      BY <1>4, <3>1, <3>2, <3>3
  <2> QED
    BY <2>1, <2>2
<1>11. SilenceIsCovered'
  <2> SUFFICES ASSUME NEW p \in Failures, call'[p].pc = "done", ~call'[p].success, ~call'[p].escalated
               PROVE  \E g \in Failures \ {p} :
                        /\ call'[g].comp = call'[p].comp /\ call'[g].action = "recover"
                        /\ call'[g].ended + Policies[call'[p].type].cooldown > call'[p].ended
                        /\ call'[g].success \/ call'[g].escalated \/ call'[g].pc = "raised"
    BY DEF SilenceIsCovered
  <2>1. CASE p = f
    <3>1. Cooling(f)
      BY <1>3, <1>4, <2>1
    <3>2. lastRecovery[c] # Never /\ now - lastRecovery[c] < Policies[call[f].type].cooldown
      BY <3>1 DEF Cooling
    <3>3. PICK g \in Failures :
            /\ call[g].comp = c /\ call[g].action = "recover" /\ call[g].ended = lastRecovery[c]
            /\ call[g].success \/ call[g].escalated \/ call[g].pc = "raised"
      BY <1>3, <3>2 DEF Covered
    <3>4. g # f /\ call'[g] = call[g]
      BY <1>4, <1>5, <3>3
    <3>5. Policies[call[f].type].cooldown \in Nat
      <4>1. call[f].type # "unknown" /\ call[f].type \in FailureTypes
        BY <1>2, <1>3, <1>4, <2>1 DEF Calls, Leaves
      <4> QED
        BY <4>1, PolicyAssumption DEF FailureTypes
    <3>7. call[g].ended \in Nat
      BY <3>3, Cooldowns
    <3>8. call[g].ended + Policies[call[f].type].cooldown > now
      BY <1>2, <1>3, <1>4, <3>2, <3>3, <3>5, <3>7
    <3> QED
      BY <1>3, <1>4, <2>1, <3>3, <3>4, <3>8
  <2>2. CASE p # f
    <3>1. call'[p] = call[p]
      BY <1>4, <2>2
    <3>2. PICK g \in Failures \ {p} :
            /\ call[g].comp = call[p].comp /\ call[g].action = "recover"
            /\ call[g].ended + Policies[call[p].type].cooldown > call[p].ended
            /\ call[g].success \/ call[g].escalated \/ call[g].pc = "raised"
      BY <2>2, <3>1 DEF SilenceIsCovered
    <3>3. g # f
      BY <1>5, <3>2
    <3> QED
      BY <1>4, <3>1, <3>2, <3>3
  <2> QED
    BY <2>1, <2>2
<1> QED
  BY <1>1, <1>8, <1>9, <1>10, <1>11

\* A step that changes nothing these properties speak of, except that a call may
\* begin to recover, spaced from the last recovery of its component.
LEMMA QuietKeepsInv ==
  ASSUME HealInv, HealBase', NEW f \in Failures,
         \A g \in Failures \ {f} : call'[g] = call[g],
         call[f].action = "none", call'[f].action = "none",
         call[f].pc # "done", call'[f].pc # "done",
         UNCHANGED lastRecovery,
         call'[f].pc = "recovering" =>
           \/ call[f].pc = "recovering" /\ call'[f].comp = call[f].comp
              /\ call'[f].type = call[f].type /\ call'[f].started = call[f].started
              /\ call'[f].old = call[f].old
           \/ call'[f].started = now /\ call'[f].comp = call[f].comp /\ call'[f].type = call[f].type
              /\ ~Cooling(f)
  PROVE  HealInv'
<1> USE DEF HealInv
<1>1. ASSUME NEW d \in Components
      PROVE  Recoveries(d)' = Recoveries(d) /\ f \notin Recoveries(d)
             /\ \A g \in Recoveries(d) : call'[g] = call[g]
  BY DEF Recoveries
<1>2. Latest'
  BY <1>1 DEF Latest
<1>3. RecoveriesSpaced'
  <2> SUFFICES ASSUME NEW d \in Components, NEW p \in Recoveries(d)', NEW q \in Failures \ {p},
                      call'[q].comp = d, ~call'[q].old,
                      call'[q].pc = "recovering" \/ q \in Recoveries(d)'
               PROVE  \/ call'[q].started >= call'[p].ended + Policies[call'[q].type].cooldown
                      \/ /\ q \in Recoveries(d)'
                         /\ call'[p].started >= call'[q].ended + Policies[call'[p].type].cooldown
    BY DEF RecoveriesSpaced
  <2>1. p \in Recoveries(d) /\ p \in Failures /\ call'[p] = call[p] /\ call[p].action = "recover"
    BY <1>1 DEF Recoveries
  <2>2. CASE q # f
    BY <1>1, <2>1, <2>2 DEF RecoveriesSpaced
  <2>3. CASE q = f /\ call[f].pc = "recovering" /\ call'[f].comp = call[f].comp
             /\ call'[f].type = call[f].type /\ call'[f].started = call[f].started
             /\ call'[f].old = call[f].old
    BY <1>1, <2>1, <2>3 DEF RecoveriesSpaced
  <2>4. CASE q = f /\ call'[f].started = now /\ call'[f].comp = call[f].comp
             /\ call'[f].type = call[f].type /\ ~Cooling(f) /\ call'[f].pc = "recovering"
    <3>1. lastRecovery[d] # Never /\ call[p].ended <= lastRecovery[d]
      BY <2>1 DEF Latest
    <3>2. lastRecovery[d] \in 0..MaxTime /\ now \in 0..MaxTime
      BY <3>1 DEF HealBase, HealTypeOK
    <3>3. Policies[call'[f].type].cooldown \in Nat
      <4>1. call'[f] \in Calls
        BY DEF HealBase, HealTypeOK, Calls
      <4>2. call'[f].type # "unknown"
        BY <2>4 DEF HealBase, Stages
      <4> QED
        BY <4>1, <4>2, PolicyAssumption DEF Calls, FailureTypes
    <3>4. now - lastRecovery[d] >= Policies[call'[f].type].cooldown
      BY <2>4, <3>1, <3>2, <3>3, ClockAssumption DEF Cooling
    <3>5. call[p].ended \in Nat
      BY <2>1, Cooldowns
    <3> QED
      BY <2>1, <2>4, <3>1, <3>2, <3>3, <3>4, <3>5, ClockAssumption
  <2> QED
    BY <1>1, <2>2, <2>3, <2>4
<1>4. Covered'
  <2> SUFFICES ASSUME NEW d \in Components, lastRecovery[d] # Never
               PROVE  \E g \in Failures :
                        /\ call'[g].comp = d /\ call'[g].action = "recover"
                        /\ call'[g].ended = lastRecovery[d]
                        /\ call'[g].success \/ call'[g].escalated \/ call'[g].pc = "raised"
    BY DEF Covered
  <2>1. PICK g \in Failures :
          /\ call[g].comp = d /\ call[g].action = "recover" /\ call[g].ended = lastRecovery[d]
          /\ call[g].success \/ call[g].escalated \/ call[g].pc = "raised"
    BY DEF Covered
  <2> QED
    BY <2>1
<1>5. SilenceIsCovered'
  <2> SUFFICES ASSUME NEW p \in Failures, call'[p].pc = "done", ~call'[p].success, ~call'[p].escalated
               PROVE  \E g \in Failures \ {p} :
                        /\ call'[g].comp = call'[p].comp /\ call'[g].action = "recover"
                        /\ call'[g].ended + Policies[call'[p].type].cooldown > call'[p].ended
                        /\ call'[g].success \/ call'[g].escalated \/ call'[g].pc = "raised"
    BY DEF SilenceIsCovered
  <2>1. p # f /\ call'[p] = call[p]
    OBVIOUS
  <2>2. PICK g \in Failures \ {p} :
          /\ call[g].comp = call[p].comp /\ call[g].action = "recover"
          /\ call[g].ended + Policies[call[p].type].cooldown > call[p].ended
          /\ call[g].success \/ call[g].escalated \/ call[g].pc = "raised"
    BY <2>1 DEF SilenceIsCovered
  <2> QED
    BY <2>1, <2>2
<1> QED
  BY <1>2, <1>3, <1>4, <1>5

LEMMA RestartKeepsInv ==
  ASSUME HealInv, Restart
  PROVE  HealInv'
<1> USE DEF HealInv
<1>1. HealBase'
  BY RestartKeepsBase
<1>2. \A f \in Failures :
        /\ call'[f].pc \notin UnderWay
        /\ call[f].pc \notin UnderWay => call'[f].pc = call[f].pc
        /\ call'[f].pc = "done" => call[f].pc = "done"
        /\ call'[f].pc # "none" => call'[f].old
        /\ call'[f].type = call[f].type /\ call'[f].comp = call[f].comp
        /\ call'[f].action = call[f].action /\ call'[f].ended = call[f].ended
        /\ call'[f].success = call[f].success /\ call'[f].escalated = call[f].escalated
  BY RestartedCall
<1>3. ASSUME NEW f \in Failures, call'[f].action = "recover"
      PROVE  call'[f].old /\ call'[f].pc = call[f].pc
  BY <1>2, <1>3 DEF HealBase, Stages, Ended, UnderWay
<1>4. \A d \in Components : Recoveries(d)' = {}
  BY <1>3 DEF Recoveries
<1>5. \A d \in Components : lastRecovery'[d] = Never
  BY DEF Restart
<1>6. SilenceIsCovered'
  <2> SUFFICES ASSUME NEW p \in Failures, call'[p].pc = "done", ~call'[p].success, ~call'[p].escalated
               PROVE  \E g \in Failures \ {p} :
                        /\ call'[g].comp = call'[p].comp /\ call'[g].action = "recover"
                        /\ call'[g].ended + Policies[call'[p].type].cooldown > call'[p].ended
                        /\ call'[g].success \/ call'[g].escalated \/ call'[g].pc = "raised"
    BY DEF SilenceIsCovered
  <2>1. PICK g \in Failures \ {p} :
          /\ call[g].comp = call[p].comp /\ call[g].action = "recover"
          /\ call[g].ended + Policies[call[p].type].cooldown > call[p].ended
          /\ call[g].success \/ call[g].escalated \/ call[g].pc = "raised"
    BY <1>2 DEF SilenceIsCovered
  <2> QED
    BY <1>2, <1>3, <2>1
<1> QED
  BY <1>1, <1>4, <1>5, <1>6 DEF Latest, RecoveriesSpaced, Covered

LEMMA TimeKeepsInv ==
  ASSUME HealInv, UNCHANGED healVars, now' \in 0..MaxTime, now <= now'
  PROVE  HealInv'
<1>1. HealBase'
  BY TimeKeepsBase DEF HealInv
<1> QED
  BY <1>1 DEF HealInv, Latest, RecoveriesSpaced, Recoveries, Covered, SilenceIsCovered, healVars

LEMMA HealKeepsInv ==
  ASSUME HealInv, HealNext
  PROVE  HealInv'
<1> USE DEF HealInv
<1>1. now \in 0..MaxTime
  BY DEF HealBase, HealTypeOK
<1>2. ASSUME NEW f \in Failures, CallStep(f)
      PROVE  HealInv'
  <2>1. CASE \E r \in Calls : Leaves(f, r)
    BY <2>1, LeavesKeepsInv
  <2>2. CASE (Begins(f) \/ Tries(f)) /\ UNCHANGED <<now, lock, lastRecovery, log, restarts>>
    <3>1. HealBase'
      BY <2>2, GoesOnKeepsBase
    <3>2. call \in [Failures -> Calls]
      BY DEF HealBase, HealTypeOK, Calls
    <3>3. call[f].action = "none" /\ call[f].pc # "done"
      BY <2>2, HeadOfQueue DEF Begins, Tries, UnderWay
    <3>4. \A g \in Failures \ {f} : call'[g] = call[g]
      BY <2>2, <3>2 DEF Begins, Tries
    <3>5. CASE Begins(f)
      <4>1. call'[f] = [call[f] EXCEPT !.started = now, !.pc = "recovering"]
        BY <3>2, <3>5 DEF Begins
      <4>2. /\ call'[f].pc = "recovering" /\ call'[f].started = now /\ call'[f].action = "none"
            /\ call'[f].comp = call[f].comp /\ call'[f].type = call[f].type
        BY <3>2, <3>3, <4>1 DEF Calls
      <4>3. ~Cooling(f)
        BY <3>5 DEF Begins
      <4> QED
        BY <2>2, <3>1, <3>3, <3>4, <4>2, <4>3, QuietKeepsInv
    <3>6. CASE Tries(f)
      <4>1. call'[f] = [call[f] EXCEPT !.tries = @ + 1]
        BY <3>2, <3>6 DEF Tries
      <4>2. /\ call'[f].pc = "recovering" /\ call[f].pc = "recovering"
            /\ call'[f].started = call[f].started /\ call'[f].action = "none"
            /\ call'[f].comp = call[f].comp /\ call'[f].type = call[f].type
            /\ call'[f].old = call[f].old
        BY <3>2, <3>3, <3>6, <4>1 DEF Calls, Tries
      <4> QED
        BY <2>2, <3>1, <3>3, <3>4, <4>2, QuietKeepsInv
    <3> QED
      BY <2>2, <3>5, <3>6
  <2> QED
    BY <1>2, <2>1, <2>2, StepKinds
<1>3. ASSUME NEW f \in Failures, NEW t \in FailureTypes, NEW c \in Components, Report(f, t, c)
      PROVE  HealInv'
  <2>1. HealBase'
    BY <1>3, ReportKeepsBase
  <2>2. call \in [Failures -> Calls]
    BY DEF HealBase, HealTypeOK, Calls
  <2>3. call[f].pc = "none" /\ call[f].action = "none"
    BY <1>3 DEF Report, HealBase, Stages, Ended
  <2>4. call'[f].pc = "waiting" /\ call'[f].action = "none"
    BY <1>3, <2>2 DEF Report, NoCall
  <2>5. UNCHANGED lastRecovery /\ \A g \in Failures \ {f} : call'[g] = call[g]
    BY <1>3, <2>2 DEF Report
  <2> QED
    BY <2>1, <2>3, <2>4, <2>5, QuietKeepsInv
<1>4. CASE Restart
  BY <1>4, RestartKeepsInv
<1>5. CASE Tick /\ UNCHANGED healVars
  BY <1>1, <1>5, TimeKeepsInv, ClockAssumption DEF Tick
<1> QED
  BY <1>2, <1>3, <1>4, <1>5 DEF HealNext

-----------------------------------------------------------------------------
\* The recovery log.  Calls that returned have their line, or it was lost to the
\* half of a line it was written behind.
LinesOf(x) == {i \in 1..Len(log) : log[i] = x}
Lost == {f \in Failures : call[f].pc = "done" /\ LinesOf(f) = {}}

LogInv ==
  /\ \A f \in Failures : call[f].pc # "done" => LinesOf(f) = {}
  /\ \A f \in Failures : \A i, j \in LinesOf(f) : i = j
  /\ IsFiniteSet(Lost) /\ Cardinality(Lost) <= Cardinality(LinesOf(Spoilt))

LEMMA LinesFinite ==
  ASSUME HealTypeOK, NEW x
  PROVE  IsFiniteSet(LinesOf(x)) /\ Cardinality(LinesOf(x)) \in Nat
<1>1. Len(log) \in Nat
  BY DEF HealTypeOK
<1>2. IsFiniteSet(1..Len(log))
  BY <1>1, FS_Interval
<1>3. LinesOf(x) \in SUBSET (1..Len(log))
  BY DEF LinesOf
<1>4. IsFiniteSet(LinesOf(x))
  BY <1>2, <1>3, FS_Subset
<1> QED
  BY <1>4, FS_CardinalityType

LEMMA LogIsEnough ==
  ASSUME HealTypeOK, LogInv
  PROVE  ReturnedIsLogged
<1>1. DOMAIN log = 1..Len(log)
  BY DEF HealTypeOK
<1>2. ASSUME NEW f \in Failures
      PROVE  Cardinality(LinesOf(f)) <= 1
  <2>1. CASE LinesOf(f) = {}
    BY <2>1, FS_EmptySet
  <2>2. CASE LinesOf(f) # {}
    <3>1. PICK i : LinesOf(f) = {i}
      BY <2>2 DEF LogInv
    <3>2. Cardinality(LinesOf(f)) = 1
      BY <3>1, FS_Singleton
    <3> QED
      BY <3>2
  <2> QED
    BY <2>1, <2>2
<1> QED
  BY <1>1, <1>2 DEF ReturnedIsLogged, LogInv, Lost, LinesOf

\* A call that ends writes its line, or completes a torn one with it.
LEMMA LeavesKeepsLog ==
  ASSUME HealBase, LogInv, NEW f \in Failures, NEW r \in Calls, Leaves(f, r)
  PROVE  LogInv'
<1>1. /\ call[f].pc # "done" /\ LinesOf(f) = {} /\ call' = [call EXCEPT ![f] = r]
      /\ log' = IF r.pc = "done" THEN AppendLine(f) ELSE log
  BY DEF Leaves, LogInv, UnderWay
<1>2. /\ call'[f] = r /\ \A g \in Failures \ {f} : call'[g] = call[g]
  BY <1>1 DEF HealBase, HealTypeOK
<1>3. log \in Seq(Failures \cup {Torn, Spoilt}) /\ Len(log) \in Nat
  BY DEF HealBase, HealTypeOK
<1>4. CASE r.pc # "done"
  <2>1. \A x : LinesOf(x)' = LinesOf(x)
    BY <1>1, <1>4 DEF LinesOf
  <2>2. Lost' = Lost
    BY <1>1, <1>2, <1>4, <2>1 DEF Lost
  <2> QED
    BY <1>1, <1>2, <2>1, <2>2 DEF LogInv
<1>5. CASE r.pc = "done" /\ log # <<>> /\ Last(log) = Torn
  <2>1. /\ Len(log) \in 1..Len(log) /\ log[Len(log)] = Torn
        /\ log' = [log EXCEPT ![Len(log)] = Spoilt]
    BY <1>1, <1>3, <1>5 DEF Last, AppendLine
  <2>2. Len(log') = Len(log)
        /\ \A i \in 1..Len(log) : log'[i] = IF i = Len(log) THEN Spoilt ELSE log[i]
    BY <1>3, <2>1
  <2>3. \A g \in Failures : LinesOf(g)' = LinesOf(g)
    BY <2>1, <2>2, PolicyAssumption DEF LinesOf
  <2>4. LinesOf(Spoilt)' = LinesOf(Spoilt) \cup {Len(log)} /\ Len(log) \notin LinesOf(Spoilt)
    BY <2>1, <2>2, PolicyAssumption DEF LinesOf
  <2>5. Lost' = Lost \cup {f} /\ f \notin Lost
    BY <1>1, <1>2, <1>5, <2>3 DEF Lost
  <2>6. IsFiniteSet(Lost') /\ Cardinality(Lost') = Cardinality(Lost) + 1
    BY <2>5, FS_AddElement DEF LogInv
  <2>7. Cardinality(LinesOf(Spoilt)') = Cardinality(LinesOf(Spoilt)) + 1
    BY <2>4, LinesFinite, FS_AddElement DEF HealBase
  <2>8. Cardinality(Lost) \in Nat /\ Cardinality(LinesOf(Spoilt)) \in Nat
    BY LinesFinite, FS_CardinalityType DEF LogInv, HealBase
  <2>9. Cardinality(Lost') <= Cardinality(LinesOf(Spoilt)')
    BY <2>6, <2>7, <2>8 DEF LogInv
  <2>10. \A g \in Failures : call'[g].pc # "done" => call[g].pc # "done"
    BY <1>2, <1>5
  <2> QED
    BY <2>3, <2>6, <2>9, <2>10 DEF LogInv
<1>6. CASE r.pc = "done" /\ ~(log # <<>> /\ Last(log) = Torn)
  <2>1. log' = Append(log, f)
    BY <1>1, <1>6 DEF AppendLine
  <2>2. /\ Len(log') = Len(log) + 1 /\ log'[Len(log) + 1] = f
        /\ \A i \in 1..Len(log) : log'[i] = log[i]
    BY <1>3, <2>1
  <2>3. \A x : x # f => LinesOf(x)' = LinesOf(x)
    BY <1>3, <2>2 DEF LinesOf
  <2>4. LinesOf(f)' = {Len(log) + 1}
    BY <1>1, <1>3, <2>2 DEF LinesOf
  <2>5. Lost' = Lost
    BY <1>1, <1>2, <2>3, <2>4 DEF Lost
  <2>6. LinesOf(Spoilt)' = LinesOf(Spoilt)
    BY <2>3, PolicyAssumption
  <2> QED
    BY <1>2, <1>6, <2>3, <2>4, <2>5, <2>6 DEF LogInv
<1> QED
  BY <1>4, <1>5, <1>6

\* Other steps end no call, and at most leave a torn line.
LEMMA OthersKeepLog ==
  ASSUME HealBase, LogInv, log' = log \/ log' = Append(log, Torn),
         \A f \in Failures : call'[f].pc = "done" <=> call[f].pc = "done"
  PROVE  LogInv'
<1>1. log \in Seq(Failures \cup {Torn, Spoilt}) /\ Len(log) \in Nat
  BY DEF HealBase, HealTypeOK
<1>2. ASSUME NEW x, x # Torn
      PROVE  LinesOf(x)' = LinesOf(x)
  <2>1. CASE log' = log
    BY <2>1 DEF LinesOf
  <2>2. CASE log' = Append(log, Torn)
    <3>1. /\ Len(log') = Len(log) + 1 /\ log'[Len(log) + 1] = Torn
          /\ \A i \in 1..Len(log) : log'[i] = log[i]
      BY <1>1, <2>2
    <3> QED
      BY <1>1, <1>2, <3>1 DEF LinesOf
  <2> QED
    BY <2>1, <2>2
<1>3. (\A g \in Failures : LinesOf(g)' = LinesOf(g)) /\ LinesOf(Spoilt)' = LinesOf(Spoilt)
  BY <1>2, PolicyAssumption
<1>4. Lost' = Lost
  BY <1>3 DEF Lost
<1> QED
  BY <1>3, <1>4 DEF LogInv

LEMMA HealKeepsLog ==
  ASSUME HealBase, LogInv, HealNext
  PROVE  LogInv'
<1>1. ASSUME NEW f \in Failures, CallStep(f)
      PROVE  LogInv'
  <2>1. CASE \E r \in Calls : Leaves(f, r)
    BY <2>1, LeavesKeepsLog
  <2>2. CASE (Begins(f) \/ Tries(f)) /\ UNCHANGED <<now, lock, lastRecovery, log, restarts>>
    <3>1. call \in [Failures -> Calls]
      BY DEF HealBase, HealTypeOK, Calls
    <3>2. call'[f].pc = "recovering" /\ call[f].pc # "done"
      BY <2>2, <3>1 DEF Begins, Tries, Calls
    <3>3. \A g \in Failures \ {f} : call'[g] = call[g]
      BY <2>2, <3>1 DEF Begins, Tries
    <3> QED
      BY <2>2, <3>2, <3>3, OthersKeepLog
  <2> QED
    BY <1>1, <2>1, <2>2, StepKinds
<1>2. ASSUME NEW f \in Failures, NEW t \in FailureTypes, NEW c \in Components, Report(f, t, c)
      PROVE  LogInv'
  <2>1. call \in [Failures -> Calls]
    BY DEF HealBase, HealTypeOK, Calls
  <2>2. call'[f].pc = "waiting" /\ call[f].pc = "none"
    BY <1>2, <2>1 DEF Report, NoCall
  <2>3. log' = log /\ \A g \in Failures \ {f} : call'[g] = call[g]
    BY <1>2, <2>1 DEF Report
  <2> QED
    BY <2>2, <2>3, OthersKeepLog
<1>3. CASE Restart
  <2>1. \A f \in Failures : call'[f].pc = "done" <=> call[f].pc = "done"
    BY <1>3, RestartedCall DEF UnderWay
  <2> QED
    BY <1>3, <2>1, OthersKeepLog DEF Restart
<1>4. CASE Tick /\ UNCHANGED healVars
  BY <1>4, OthersKeepLog DEF healVars
<1> QED
  BY <1>1, <1>2, <1>3, <1>4 DEF HealNext

LEMMA HealStart ==
  ASSUME Init
  PROVE  HealInv /\ LogInv
<1>1. 0 \in 0..MaxTime /\ 0 \in 0..MaxRestarts
  BY ClockAssumption, PolicyAssumption
<1>2. NoCall \in Calls
  BY <1>1 DEF NoCall, Calls, FailureTypes
<1>3. /\ now = 0 /\ call = [f \in Failures |-> NoCall] /\ lock = [c \in Components |-> <<>>]
      /\ lastRecovery = [c \in Components |-> Never] /\ log = <<>> /\ restarts = 0
  BY DEF Init, ClockInit, HealInit
<1>4. HealTypeOK
  <2>1. lock \in [Components -> Seq(Failures)] /\ log \in Seq(Failures \cup {Torn, Spoilt})
    BY <1>3
  <2> QED
    BY <1>1, <1>2, <1>3, <2>1 DEF HealTypeOK, Calls
<1>5. \A f \in Failures :
        /\ call[f].pc = "none" /\ call[f].action = "none" /\ call[f].started = 0
        /\ call[f].ended = 0 /\ ~call[f].old /\ ~call[f].success /\ ~call[f].escalated
  BY <1>3 DEF NoCall
<1>6. Queues
  <2>1. \A c \in Components : Len(lock[c]) = 0
    BY <1>3
  <2> QED
    BY <1>5, <2>1 DEF Queues, UnderWay
<1>7. Stages
  BY <1>3, <1>5 DEF Stages
<1>8. Latest /\ RecoveriesSpaced /\ Covered /\ SilenceIsCovered
  <2>1. \A c \in Components : Recoveries(c) = {} /\ lastRecovery[c] = Never
    BY <1>3, <1>5 DEF Recoveries
  <2> QED
    BY <1>5, <2>1 DEF Latest, RecoveriesSpaced, Covered, SilenceIsCovered
<1>9. LogInv
  <2>1. \A x : LinesOf(x) = {}
    BY <1>3 DEF LinesOf
  <2>2. Lost = {}
    BY <1>5 DEF Lost
  <2>3. IsFiniteSet(Lost) /\ Cardinality(Lost) <= Cardinality(LinesOf(Spoilt))
    BY <2>1, <2>2, FS_EmptySet
  <2> QED
    BY <2>1, <2>3 DEF LogInv
<1> QED
  BY <1>4, <1>6, <1>7, <1>8, <1>9 DEF HealInv, HealBase

LEMMA HealStep ==
  ASSUME HealInv, LogInv, [Next]_vars
  PROVE  HealInv' /\ LogInv'
<1>1. CASE Heal
  BY <1>1, HealKeepsInv, HealKeepsLog DEF Heal, HealInv
<1>2. CASE UNCHANGED healVars /\ now' \in 0..MaxTime /\ now <= now'
  BY <1>2, TimeKeepsInv, OthersKeepLog DEF healVars, HealInv
<1>3. now \in 0..MaxTime
  BY DEF HealInv, HealBase, HealTypeOK
<1>4. CASE Backup
  <2>1. now' = now \/ Tick
    BY <1>4 DEF Backup, BackupNext, Begin, ToolFails, Finish, MetaFails, Promote, NoPromotion,
                Imported, ImportFails, Interrupt
  <2>2. UNCHANGED healVars
    BY <1>4 DEF Backup
  <2> QED
    BY <1>2, <1>3, <2>1, <2>2, ClockAssumption DEF Tick
<1>5. CASE Argue \/ UNCHANGED vars
  <2>1. UNCHANGED <<healVars, now>>
    BY <1>5 DEF Argue, vars
  <2> QED
    BY <1>2, <1>3, <2>1, ClockAssumption
<1> QED
  BY <1>1, <1>4, <1>5 DEF Next

THEOREM HealInvariant == Spec => [](HealInv /\ LogInv)
<1>1. Init => HealInv /\ LogInv
  BY HealStart
<1>2. (HealInv /\ LogInv) /\ [Next]_vars => (HealInv /\ LogInv)'
  BY HealStep
<1> QED
  BY <1>1, <1>2, PTL DEF Spec

\* Recoveries of a component do not overlap and respect the cooldown of the
\* later one, also after a wait for the component's lock: handle_failure reads
\* the time of the last recovery only under the lock.
THEOREM CooldownsHold == Spec => []RecoveriesSpaced
<1>1. HealInv => RecoveriesSpaced
  BY DEF HealInv
<1> QED
  BY <1>1, HealInvariant, PTL

\* A failure of which nobody is told is covered by a recent recovery that
\* succeeded, was escalated, or could not be recorded.
THEOREM NoSilentFailure == Spec => []SilenceIsCovered
<1>1. HealInv => SilenceIsCovered
  BY DEF HealInv
<1> QED
  BY <1>1, HealInvariant, PTL

\* _append and the crash between two of its writes: no call is logged twice, and
\* of the calls that returned a line is lost only where there is a spoilt one.
THEOREM LogTellsReturned == Spec => []ReturnedIsLogged
<1>1. HealInv /\ LogInv => ReturnedIsLogged
  BY LogIsEnough DEF HealInv, HealBase
<1> QED
  BY <1>1, HealInvariant, PTL

-----------------------------------------------------------------------------
\* Backups.  An export that ended well, and what the two names of a snapshot, in
\* last_export.json and in an import under way, are worth.
Exported(j) == KindOf[j] = "typedb" /\ job[j].pc = "done"

Dated == \A j \in Jobs : job[j].wrote <= now

Naming ==
  meta \in Jobs =>
    Exported(meta) /\ disk[meta] = "complete"

Importing ==
  \A p \in Promotions : promo[p].pc = "importing" =>
    /\ promo[p].from \in Jobs /\ Exported(promo[p].from)
    /\ \/ disk[promo[p].from] = "complete"
       \/ \E j \in Jobs : Exported(j) /\ job[j].wrote > job[promo[p].from].wrote

BackupInv == BackupTypeOK /\ Dated /\ Naming /\ Importing

LEMMA BackupEnough ==
  ASSUME BackupInv
  PROVE  NamedIsImportable
BY DEF BackupInv, Naming, Importing, NamedIsImportable, Snapshots, Exported

JobStates == [pc : {"none", "running", "done", "failed"}, began : 0..MaxTime, wrote : 0..MaxTime]

\* What holds of a state, taken from the types.
LEMMA JobFacts ==
  ASSUME BackupTypeOK, now \in 0..MaxTime
  PROVE  /\ job \in [Jobs -> JobStates] /\ disk \in [Jobs -> {"none", "partial", "complete"}]
         /\ promo \in [Promotions -> [pc : {"none", "importing", "done", "raised"},
                                      from : Jobs \cup {NoSnapshot}]]
         /\ now \in Nat /\ \A j \in Jobs : job[j].wrote \in Nat
<1>1. job \in [Jobs -> JobStates]
  BY DEF BackupTypeOK, JobStates
<1>2. now \in Nat /\ \A j \in Jobs : job[j].wrote \in Nat
  BY <1>1, ClockAssumption DEF JobStates
<1> QED
  BY <1>1, <1>2 DEF BackupTypeOK

\* The steps of a job that do not end it well: nothing that was exported changes,
\* and no file of another job does.
LEMMA JobKeepsInv ==
  ASSUME BackupInv, now \in 0..MaxTime, NEW j \in Jobs,
         Begin(j) \/ ToolFails(j) \/ MetaFails(j)
  PROVE  BackupInv'
<1>1. /\ job \in [Jobs -> JobStates] /\ disk \in [Jobs -> {"none", "partial", "complete"}]
      /\ now \in Nat /\ \A i \in Jobs : job[i].wrote \in Nat
  BY JobFacts DEF BackupInv
<1>2. PICK r \in JobStates : /\ job' = [job EXCEPT ![j] = r] /\ r.pc \in {"running", "failed"}
                             /\ r.wrote \in {job[j].wrote, now}
  <2>1. CASE Begin(j)
    <3> DEFINE r == [job[j] EXCEPT !.pc = "running", !.began = now]
    <3>1. r \in JobStates /\ job' = [job EXCEPT ![j] = r]
      BY <1>1, <2>1 DEF Begin, JobStates
    <3> QED
      BY <1>1, <3>1 DEF JobStates
  <2>2. CASE ToolFails(j) \/ MetaFails(j)
    <3> DEFINE r == [job[j] EXCEPT !.pc = "failed", !.wrote = now]
    <3>1. r \in JobStates /\ job' = [job EXCEPT ![j] = r]
      BY <1>1, <2>2 DEF ToolFails, MetaFails, JobStates
    <3> QED
      BY <1>1, <3>1 DEF JobStates
  <2> QED
    BY <2>1, <2>2
<1>3. /\ job[j].pc # "done" /\ now' = now /\ promo' = promo /\ standby' = standby
      /\ meta' \in {meta, "torn"}
      /\ disk' \in [Jobs -> {"none", "partial", "complete"}]
      /\ \A i \in Jobs \ {j} : disk'[i] = disk[i]
  BY <1>1 DEF Begin, ToolFails, MetaFails
<1>4. \A i \in Jobs \ {j} : job'[i] = job[i]
  BY <1>1, <1>2
<1>5. job'[j] = r
  BY <1>1, <1>2
<1>6. \A i \in Jobs : Exported(i)' <=> Exported(i)
  BY <1>2, <1>3, <1>4, <1>5 DEF Exported
<1>7. \A i \in Jobs : Exported(i) => i # j
  BY <1>3 DEF Exported
<1>8. BackupTypeOK'
  <2>1. job' \in [Jobs -> JobStates]
    BY <1>1, <1>2
  <2> QED
    BY <1>3, <2>1 DEF BackupInv, BackupTypeOK, JobStates
<1>9. Dated'
  BY <1>1, <1>2, <1>3, <1>4, <1>5 DEF BackupInv, Dated
<1>10. Naming'
  BY <1>3, <1>4, <1>6, <1>7, BackupAssumption DEF BackupInv, Naming
<1>11. Importing'
  <2> SUFFICES ASSUME NEW p \in Promotions, promo[p].pc = "importing", NEW s, s = promo[p].from
               PROVE  /\ s \in Jobs /\ Exported(s)'
                      /\ \/ disk'[s] = "complete"
                         \/ \E i \in Jobs : Exported(i)' /\ job'[i].wrote > job'[s].wrote
    BY <1>3 DEF Importing
  <2>1. s \in Jobs /\ Exported(s) /\ s # j
    BY <1>7 DEF BackupInv, Importing
  <2>2. CASE disk[s] = "complete"
    BY <1>3, <1>6, <2>1, <2>2
  <2>3. CASE \E i \in Jobs : Exported(i) /\ job[i].wrote > job[s].wrote
    BY <1>4, <1>6, <1>7, <2>1, <2>3
  <2> QED
    BY <2>1, <2>2, <2>3 DEF BackupInv, Importing
<1> QED
  BY <1>8, <1>9, <1>10, <1>11 DEF BackupInv

\* An export that ends well takes over the name; what its rotation removes is
\* older than it.
LEMMA FinishKeepsInv ==
  ASSUME BackupInv, now \in 0..MaxTime, NEW j \in Jobs, Finish(j)
  PROVE  BackupInv'
<1> DEFINE r == [job[j] EXCEPT !.pc = "done", !.wrote = now]
           k == KindOf[j]
<1>1. /\ job \in [Jobs -> JobStates] /\ disk \in [Jobs -> {"none", "partial", "complete"}]
      /\ now \in Nat /\ \A i \in Jobs : job[i].wrote \in Nat
  BY JobFacts DEF BackupInv
<1>2. /\ job[j].pc = "running" /\ job' = [job EXCEPT ![j] = r]
      /\ meta' = Named(j)
      /\ now' = now /\ promo' = promo /\ standby' = standby
  BY <1>1 DEF Finish, JobStates
<1>0. PICK old \in Expired(k) : disk' = [Rotated(old) EXCEPT ![j] = "complete"]
  BY DEF Finish
<1>3. r \in JobStates /\ r.pc = "done" /\ r.wrote = now
  BY <1>1 DEF JobStates
<1>4. job'[j] = r /\ \A i \in Jobs \ {j} : job'[i] = job[i]
  BY <1>1, <1>2
<1>5. /\ disk' \in [Jobs -> {"none", "partial", "complete"}] /\ disk'[j] = "complete"
      /\ \A i \in Jobs \ {j} : i \notin old => disk'[i] = disk[i]
  BY <1>0, <1>1 DEF Rotated
<1>6. ASSUME NEW i \in old
      PROVE  KindOf[i] = k /\ job[i].wrote < now
  <2>1. k \in {"typedb", "timescale"} /\ Retain[k] \in Nat \ {0}
    BY BackupAssumption
  <2>2. i \in Jobs /\ KindOf[i] = k /\ now >= job[i].wrote + Retain[k]
    BY DEF Expired, Aged
  <2>3. job[i].wrote \in Nat /\ now \in Nat
    BY <1>1, <2>2
  <2>4. ASSUME NEW d \in Nat \ {0}, NEW w \in Nat, now >= w + d
        PROVE  w < now
    BY <2>3, <2>4
  <2> QED
    BY <2>1, <2>2, <2>3, <2>4
<1>7. \A i \in Jobs : Exported(i)' <=> Exported(i) \/ (i = j /\ k = "typedb")
  BY <1>2, <1>3, <1>4 DEF Exported
<1>8. \A i \in Jobs : Exported(i) => i # j
  BY <1>2 DEF Exported
<1>9. BackupTypeOK'
  <2>1. job' \in [Jobs -> JobStates]
    BY <1>1, <1>2, <1>3
  <2> QED
    BY <1>2, <1>5, <2>1 DEF BackupInv, BackupTypeOK, JobStates, Named
<1>10. Dated'
  BY <1>1, <1>2, <1>3, <1>4 DEF BackupInv, Dated
<1>11. Naming'
  <2>1. CASE k = "typedb"
    <3>1. meta' = j
      BY <1>2, <2>1 DEF Named
    <3> QED
      BY <1>5, <1>7, <2>1, <3>1 DEF Naming
  <2>2. CASE k # "typedb"
    <3>1. meta' = meta
      BY <1>2, <2>2 DEF Named
    <3>2. \A i \in Jobs : Exported(i)' <=> Exported(i)
      BY <1>7, <2>2
    <3>3. meta \in Jobs => meta \notin old
      BY <1>6, <2>2 DEF BackupInv, Naming, Exported
    <3>4. meta \in Jobs => meta # j
      BY <1>8 DEF BackupInv, Naming
    <3> QED
      BY <1>4, <1>5, <1>8, <3>1, <3>2, <3>3, <3>4 DEF BackupInv, Naming
  <2> QED
    BY <2>1, <2>2
<1>12. Importing'
  <2> SUFFICES ASSUME NEW p \in Promotions, promo[p].pc = "importing", NEW s, s = promo[p].from
               PROVE  /\ s \in Jobs /\ Exported(s)'
                      /\ \/ disk'[s] = "complete"
                         \/ \E i \in Jobs : Exported(i)' /\ job'[i].wrote > job'[s].wrote
    BY <1>2 DEF Importing
  <2>1. s \in Jobs /\ Exported(s) /\ s # j
    BY <1>8 DEF BackupInv, Importing
  <2>2. CASE s \in old
    <3>1. k = "typedb" /\ job[s].wrote < now
      BY <1>6, <2>1, <2>2 DEF Exported
    <3>2. Exported(j)' /\ job'[j].wrote > job'[s].wrote
      BY <1>1, <1>3, <1>4, <1>7, <2>1, <3>1
    <3> QED
      BY <1>7, <2>1, <3>2
  <2>3. CASE s \notin old /\ disk[s] = "complete"
    BY <1>5, <1>7, <2>1, <2>3
  <2>4. CASE \E i \in Jobs : Exported(i) /\ job[i].wrote > job[s].wrote
    BY <1>4, <1>7, <1>8, <2>1, <2>4
  <2> QED
    BY <2>1, <2>2, <2>3, <2>4 DEF BackupInv, Importing
<1> QED
  BY <1>9, <1>10, <1>11, <1>12 DEF BackupInv

LEMMA InterruptKeepsInv ==
  ASSUME BackupInv, now \in 0..MaxTime, Interrupt
  PROVE  BackupInv'
<1>1. /\ job \in [Jobs -> JobStates] /\ disk \in [Jobs -> {"none", "partial", "complete"}]
      /\ promo \in [Promotions -> [pc : {"none", "importing", "done", "raised"}, from : Jobs \cup {NoSnapshot}]]
      /\ now \in Nat /\ \A i \in Jobs : job[i].wrote \in Nat
  BY JobFacts DEF BackupInv
<1>2. /\ job' = [i \in Jobs |-> IF job[i].pc = "running"
                               THEN [job[i] EXCEPT !.pc = "failed", !.wrote = now] ELSE job[i]]
      /\ \E whole \in SUBSET {i \in Jobs : job[i].pc = "running"} :
           disk' = [i \in Jobs |-> IF i \in whole THEN "complete" ELSE disk[i]]
      /\ promo' = [p \in Promotions |-> IF promo[p].pc = "importing"
                                        THEN [promo[p] EXCEPT !.pc = "raised"] ELSE promo[p]]
      /\ now' = now /\ meta' = meta /\ standby' = standby
  BY DEF Interrupt
<1>3. \A i \in Jobs : /\ job'[i] \in JobStates /\ job'[i].wrote <= now
                      /\ Exported(i) <=> KindOf[i] = "typedb" /\ job'[i].pc = "done"
                      /\ job[i].pc # "running" => job'[i] = job[i] /\ disk'[i] = disk[i]
  <2> TAKE i \in Jobs
  <2>1. CASE job[i].pc = "running"
    <3>1. job'[i] = [job[i] EXCEPT !.pc = "failed", !.wrote = now]
      BY <1>2, <2>1
    <3>2. job[i] \in JobStates
      BY <1>1
    <3>3. job'[i] \in JobStates /\ job'[i].pc = "failed" /\ job'[i].wrote = now
      BY <3>1, <3>2 DEF JobStates
    <3> QED
      BY <1>1, <2>1, <3>3 DEF Exported
  <2>2. CASE job[i].pc # "running"
    <3>1. job'[i] = job[i] /\ disk'[i] = disk[i]
      BY <1>2, <2>2
    <3> QED
      BY <1>1, <2>2, <3>1 DEF Exported, BackupInv, Dated
  <2> QED
    BY <2>1, <2>2
<1>4. BackupTypeOK'
  <2>1. job' \in [Jobs -> JobStates]
    BY <1>2, <1>3
  <2>2. disk' \in [Jobs -> {"none", "partial", "complete"}]
    BY <1>1, <1>2
  <2>3. promo' \in [Promotions -> [pc : {"none", "importing", "done", "raised"}, from : Jobs \cup {NoSnapshot}]]
    BY <1>1, <1>2, ZenonT(30)
  <2> QED
    BY <1>2, <2>1, <2>2, <2>3 DEF BackupInv, BackupTypeOK, JobStates
<1>5. Dated'
  BY <1>2, <1>3 DEF Dated
<1>6. Naming'
  BY <1>2, <1>3 DEF BackupInv, Naming, Exported
<1>7. \A p \in Promotions : promo'[p].pc # "importing"
  <2> TAKE p \in Promotions
  <2>1. promo[p] \in [pc : {"none", "importing", "done", "raised"}, from : Jobs \cup {NoSnapshot}]
    BY <1>1
  <2> QED
    BY <1>2, <2>1
<1> QED
  BY <1>4, <1>5, <1>6, <1>7 DEF BackupInv, Importing

LEMMA PromotionKeepsInv ==
  ASSUME BackupInv, now \in 0..MaxTime, NEW p \in Promotions,
         Promote(p) \/ NoPromotion(p) \/ Imported(p) \/ ImportFails(p)
  PROVE  BackupInv'
<1> DEFINE States == [pc : {"none", "importing", "done", "raised"}, from : Jobs \cup {NoSnapshot}]
<1>1. promo \in [Promotions -> States]
  BY JobFacts DEF BackupInv
<1>2. UNCHANGED <<now, jobVars>>
  BY DEF Promote, NoPromotion, Imported, ImportFails
<1>3. PICK r \in States :
        promo' = [promo EXCEPT ![p] = r] /\ (r.pc = "importing" => r.from \in Jobs /\ r.from = meta)
  <2>1. CASE Promote(p)
    BY <2>1 DEF Promote, Source
  <2>2. CASE NoPromotion(p) \/ ImportFails(p)
    <3> DEFINE r == [promo[p] EXCEPT !.pc = "raised"]
    <3>1. r \in States /\ promo' = [promo EXCEPT ![p] = r]
      BY <1>1, <2>2 DEF NoPromotion, ImportFails
    <3> QED
      BY <1>1, <3>1
  <2>3. CASE Imported(p)
    <3> DEFINE r == [promo[p] EXCEPT !.pc = "done"]
    <3>1. r \in States /\ promo' = [promo EXCEPT ![p] = r]
      BY <1>1, <2>3 DEF Imported
    <3> QED
      BY <1>1, <3>1
  <2> QED
    BY <2>1, <2>2, <2>3
<1>4. standby' \in Jobs \cup {NoSnapshot}
  <2>1. CASE Imported(p)
    <3>1. standby' = promo[p].from
      BY <2>1 DEF Imported
    <3> QED
      BY <1>1, <3>1
  <2>2. CASE ~Imported(p)
    BY <2>2 DEF Promote, NoPromotion, ImportFails, BackupInv, BackupTypeOK
  <2> QED
    BY <2>1, <2>2
<1>5. BackupTypeOK'
  <2>1. promo' \in [Promotions -> States]
    BY <1>1, <1>3
  <2> QED
    BY <1>2, <1>4, <2>1 DEF BackupInv, BackupTypeOK, jobVars
<1>6. Importing'
  <2> SUFFICES ASSUME NEW q \in Promotions, promo'[q].pc = "importing", NEW s, s = promo'[q].from
               PROVE  /\ s \in Jobs /\ Exported(s)
                      /\ \/ disk[s] = "complete"
                         \/ \E i \in Jobs : Exported(i) /\ job[i].wrote > job[s].wrote
    BY <1>2 DEF Importing, Exported, jobVars
  <2>1. CASE q = p
    BY <1>1, <1>3, <2>1 DEF BackupInv, Naming
  <2>2. CASE q # p
    BY <1>1, <1>3, <2>2 DEF BackupInv, Importing
  <2> QED
    BY <2>1, <2>2
<1> QED
  BY <1>2, <1>5, <1>6 DEF BackupInv, Dated, Naming, Exported, jobVars

LEMMA BackupTimePasses ==
  ASSUME BackupInv, now \in 0..MaxTime, UNCHANGED backupVars, now' \in Nat, now <= now'
  PROVE  BackupInv'
<1>1. \A j \in Jobs : job[j].wrote \in Nat /\ now \in Nat
  BY JobFacts DEF BackupInv
<1>2. Dated'
  BY <1>1 DEF BackupInv, Dated, backupVars
<1> QED
  BY <1>2 DEF BackupInv, BackupTypeOK, Naming, Importing, Exported, backupVars

LEMMA BackupStart ==
  ASSUME Init
  PROVE  BackupInv
<1>1. 0 \in 0..MaxTime
  BY ClockAssumption
<1>2. /\ now = 0 /\ job = [j \in Jobs |-> [pc |-> "none", began |-> 0, wrote |-> 0]]
      /\ disk = [j \in Jobs |-> "none"] /\ meta = NoSnapshot /\ standby = NoSnapshot
      /\ promo = [p \in Promotions |-> [pc |-> "none", from |-> NoSnapshot]]
  BY DEF Init, ClockInit, BackupInit
<1>3. BackupTypeOK
  BY <1>1, <1>2 DEF BackupTypeOK
<1> QED
  BY <1>2, <1>3, BackupAssumption DEF BackupInv, Dated, Naming, Importing

LEMMA BackupStep ==
  ASSUME BackupInv, HealTypeOK, [Next]_vars
  PROVE  BackupInv'
<1>1. now \in 0..MaxTime /\ now \in Nat
  BY ClockAssumption DEF HealTypeOK
<1>2. CASE Backup
  <2>1. ASSUME NEW j \in Jobs, Begin(j) \/ ToolFails(j) \/ Finish(j) \/ MetaFails(j)
        PROVE  BackupInv'
    BY <1>1, <2>1, JobKeepsInv, FinishKeepsInv
  <2>2. ASSUME NEW p \in Promotions, Promote(p) \/ NoPromotion(p) \/ Imported(p) \/ ImportFails(p)
        PROVE  BackupInv'
    BY <1>1, <2>2, PromotionKeepsInv
  <2>3. CASE Interrupt
    BY <1>1, <2>3, InterruptKeepsInv
  <2>4. CASE Tick /\ UNCHANGED backupVars
    BY <1>1, <2>4, BackupTimePasses DEF Tick
  <2> QED
    BY <1>2, <2>1, <2>2, <2>3, <2>4 DEF Backup, BackupNext
<1>3. CASE Heal
  <2>1. now' = now \/ Tick
    <3>1. ASSUME NEW f \in Failures, CallStep(f)
          PROVE  now' = now
      BY <3>1 DEF CallStep, Escalate, CooldownActive, BeginRecovery, Archive, RetrySucceeds,
                  RetryFails, OutOfRetries, Escapes, Recovered
    <3> QED
      BY <1>3, <3>1 DEF Heal, HealNext, Report, Restart
  <2>2. UNCHANGED backupVars
    BY <1>3 DEF Heal
  <2> QED
    BY <1>1, <2>1, <2>2, BackupTimePasses DEF Tick
<1>4. CASE Argue \/ UNCHANGED vars
  <2>1. UNCHANGED <<backupVars, now>>
    BY <1>4 DEF Argue, vars
  <2> QED
    BY <1>1, <2>1, BackupTimePasses
<1> QED
  BY <1>2, <1>3, <1>4 DEF Next

THEOREM BackupInvariant == Spec => []BackupInv
<1>1. HealInv => HealTypeOK
  BY DEF HealInv, HealBase
<1>2. Init => BackupInv
  BY BackupStart
<1>3. BackupInv /\ HealTypeOK /\ [Next]_vars => BackupInv'
  BY BackupStep
<1> QED
  BY <1>1, <1>2, <1>3, HealInvariant, PTL DEF Spec

\* The snapshot that last_export.json names can be imported, whatever exports
\* failed or were interrupted since, and one rotated away under an import has a
\* later one in its place: rotation follows the name, in one step with it.
THEOREM PromotionHasSource == Spec => []NamedIsImportable
<1>1. BackupInv => NamedIsImportable
  BY BackupEnough
<1> QED
  BY <1>1, BackupInvariant, PTL
-----------------------------------------------------------------------------
\* RateLimiter.  Where the deque is popped to.
FirstYoung(s, limit, k) ==
  (\A i \in 1..k - 1 : s[i] >= limit) /\ (k <= Len(s) => s[k] < limit)

LEMMA FirstYoungExists ==
  ASSUME NEW s \in Seq(Nat), NEW limit \in Nat
  PROVE  \E k \in 1..Len(s) + 1 : FirstYoung(s, limit, k)
<1> DEFINE Y == {k \in 1..Len(s) + 1 : k <= Len(s) => s[k] < limit}
<1>1. Y \subseteq Nat /\ Len(s) + 1 \in Y
  OBVIOUS
<1>2. PICK k \in Y : \A j \in Y : ~(<<j, k>> \in OpToRel(<, Nat))
  BY <1>1, NatLessThanWellFounded, WFMin, ZenonT(30)
<1>3. ASSUME NEW j \in Y
      PROVE  k <= j
  <2>1. CASE j < k
    <3>1. j \in Nat /\ k \in Nat
      BY <1>1
    <3>2. <<j, k>> \in OpToRel(<, Nat)
      BY <2>1, <3>1, Zenon DEF OpToRel
    <3> QED
      BY <1>2, <3>2, Zenon
  <2> QED
    BY <2>1
<1>4. ASSUME NEW i \in 1..k - 1
      PROVE  s[i] >= limit
  <2>1. i \notin Y
    BY <1>3
  <2> QED
    BY <2>1
<1>5. k \in 1..Len(s) + 1 /\ FirstYoung(s, limit, k)
  BY <1>4 DEF FirstYoung
<1> QED
  BY <1>5

\* There is one such place, so it is the one LeftOf chooses.
LEMMA LeftOfIs ==
  ASSUME NEW s \in Seq(Nat), NEW limit \in Nat,
         NEW k \in 1..Len(s) + 1, FirstYoung(s, limit, k)
  PROVE  LeftOf(s, limit) = SubSeq(s, k, Len(s))
<1>1. ASSUME NEW j \in 1..Len(s) + 1, FirstYoung(s, limit, j)
      PROVE  j = k
  BY <1>1 DEF FirstYoung
<1>2. LeftOf(s, limit) = SubSeq(s, (CHOOSE j \in 1..Len(s) + 1 : FirstYoung(s, limit, j)), Len(s))
  BY DEF LeftOf, FirstYoung
<1> QED
  BY <1>1, <1>2

\* The calls of the last period are the end of the deque, and what stands before
\* them has left the window: popping the old calls leaves just the recent ones.
WindowInv ==
  /\ LimitTypeOK /\ WindowRespected
  /\ Len(recent) <= Len(window) /\ Len(window) <= MaxCalls
  /\ \A i, j \in 1..Len(recent) : i < j => recent[j] <= recent[i]
  /\ \A i \in 1..Len(recent) : window[Len(window) - Len(recent) + i] = recent[i]
  /\ \A i \in 1..Len(window) - Len(recent) : window[i] = Period

\* What the proofs use of it.
LEMMA WindowFacts ==
  ASSUME WindowInv
  PROVE  /\ window \in Seq(Nat) /\ window \in Seq(0..Period) /\ Len(window) \in Nat
         /\ recent \in Seq(0..Period - 1) /\ recent \in Seq(Nat) /\ Len(recent) \in Nat
         /\ Len(recent) <= Len(window)
         /\ Period \in Nat /\ Period > 0 /\ MaxCalls \in Nat /\ MaxCalls > 0
         /\ \A i \in 1..Len(recent) : recent[i] \in Nat /\ recent[i] < Period
<1>1. window \in Seq(0..Period) /\ recent \in Seq(0..Period - 1) /\ Period \in Nat \ {0}
  BY WindowAssumption DEF WindowInv, LimitTypeOK
<1>2. ASSUME NEW i \in 1..Len(recent)
      PROVE  recent[i] \in Nat /\ recent[i] < Period
  <2>1. recent[i] \in 0..Period - 1
    BY <1>1
  <2> QED
    BY <1>1, <2>1
<1>3. window \in Seq(Nat) /\ recent \in Seq(Nat)
  BY <1>1
<1> QED
  BY <1>1, <1>2, <1>3, WindowAssumption DEF WindowInv

LEMMA KeptIsRecent ==
  ASSUME WindowInv
  PROVE  Kept = recent
<1> DEFINE n == Len(window)
           m == Len(recent)
           k == n - m + 1
<1>1. n \in Nat /\ m \in Nat /\ m <= n /\ k \in 1..n + 1
  BY WindowFacts
<1>2. FirstYoung(window, Period, k)
  <2>1. ASSUME NEW i \in 1..k - 1
        PROVE  window[i] >= Period
    <3>1. window[i] = Period
      BY <1>1, <2>1 DEF WindowInv
    <3> QED
      BY <3>1, WindowFacts
  <2>2. ASSUME k <= n
        PROVE  window[k] < Period
    <3>1. 1 \in 1..m
      BY <1>1, <2>2
    <3>2. window[n - m + 1] = recent[1]
      BY <3>1 DEF WindowInv
    <3> QED
      BY <3>1, <3>2, WindowFacts
  <2> QED
    BY <2>1, <2>2 DEF FirstYoung
<1>3. Kept = SubSeq(window, k, n)
  BY <1>1, <1>2, LeftOfIs, WindowFacts DEF Kept, Young
<1>4. ASSUME NEW i \in k..n
      PROVE  window[i] \in Nat
  <2>1. i \in 1..Len(window)
    BY <1>1
  <2> QED
    BY <2>1, ElementOfSeq, WindowFacts, Zenon
<1>5. /\ SubSeq(window, k, n) \in Seq(Nat)
      /\ Len(SubSeq(window, k, n)) = IF k <= n THEN n - k + 1 ELSE 0
      /\ \A i \in 1..n - k + 1 : SubSeq(window, k, n)[i] = window[k + i - 1]
  <2> HIDE DEF n, m, k
  <2> QED
    BY <1>1, <1>4, SubSeqProperties
<1>6. ASSUME NEW i \in 1..m
      PROVE  SubSeq(window, k, n)[i] = recent[i]
  <2>1. window[n - m + i] = recent[i]
    BY <1>6 DEF WindowInv
  <2>2. i \in 1..n - k + 1 /\ k + i - 1 = n - m + i
    BY <1>1, <1>6
  <2> QED
    BY <1>5, <2>1, <2>2
<1>7. Len(SubSeq(window, k, n)) = m
  BY <1>1, <1>5
<1>8. SubSeq(window, k, n) = recent
  <2> DEFINE w == SubSeq(window, k, n)
  <2>1. w \in Seq(Nat) /\ Len(w) = Len(recent) /\ \A i \in 1..Len(recent) : w[i] = recent[i]
    BY <1>5, <1>6, <1>7
  <2> HIDE DEF w
  <2>2. \A i \in 1..Len(w) : w[i] = recent[i]
    BY <2>1
  <2>3. w = recent
    BY <2>1, <2>2, SeqEqual, WindowFacts, Zenon
  <2> QED
    BY <2>3 DEF w
<1> QED
  BY <1>3, <1>8

LEMMA PassKeepsWindow ==
  ASSUME WindowInv, Pass
  PROVE  WindowInv'
<1> DEFINE n == Len(window)
           m == Len(recent)
           aged == [i \in DOMAIN recent |-> recent[i] + 1]
<1>1. /\ n \in Nat /\ m \in Nat /\ m <= n /\ Period \in Nat /\ Period > 0
      /\ \A i \in 1..m : recent[i] \in Nat /\ recent[i] < Period
      /\ \A i \in 1..n : window[i] \in Nat
  BY WindowFacts
<1>2. /\ \A i, j \in 1..m : i < j => recent[j] <= recent[i]
      /\ \A i \in 1..m : window[n - m + i] = recent[i]
      /\ \A i \in 1..n - m : window[i] = Period
  BY DEF WindowInv
<1>3. aged \in Seq(Nat) /\ Len(aged) = m /\ \A i \in 1..m : aged[i] = recent[i] + 1
  <2>1. recent \in Seq(Nat)
    BY WindowFacts
  <2>2. DOMAIN recent = 1..m
    BY <2>1
  <2>3. \A i \in 1..m : recent[i] + 1 \in Nat
    BY <1>1
  <2> HIDE DEF m
  <2> QED
    BY <1>1, <2>2, <2>3
<1>4. PICK k \in 1..m + 1 : FirstYoung(aged, Period, k)
  BY <1>1, <1>3, FirstYoungExists
<1>5. recent' = SubSeq(aged, k, m)
  BY <1>1, <1>3, <1>4, LeftOfIs DEF Pass, Young
<1>6. /\ Len(window') = n /\ \A i \in 1..n : window'[i] = Older(window[i])
      /\ window' \in Seq(0..Period)
  <2>1. window' = [i \in 1..n |-> Older(window[i])]
    BY WindowFacts DEF Pass
  <2>2. \A i \in 1..n : Older(window[i]) \in 0..Period
    BY <1>1 DEF Older
  <2> HIDE DEF n
  <2> QED
    BY <1>1, <2>1, <2>2
<1> HIDE DEF n, m, aged
<1>7. /\ \A i \in 1..k - 1 : recent[i] + 1 = Period
      /\ k <= m => recent[k] + 1 < Period
  BY <1>1, <1>3, <1>4 DEF FirstYoung
<1>8. ASSUME NEW i \in k..m
      PROVE  aged[i] \in 0..Period - 1
  <2>1. k \in 1..m /\ i \in 1..m
    BY <1>1, <1>4, <1>8
  <2>2. recent[i] <= recent[k]
    BY <1>1, <1>2, <1>8, <2>1
  <2> QED
    BY <1>1, <1>3, <1>7, <2>1, <2>2
<1>9. /\ recent' \in Seq(0..Period - 1) /\ Len(recent') = m - k + 1
      /\ \A i \in 1..m - k + 1 : recent'[i] = recent[k + i - 1] + 1
  <2>1. /\ SubSeq(aged, k, m) \in Seq(0..Period - 1)
        /\ Len(SubSeq(aged, k, m)) = IF k <= m THEN m - k + 1 ELSE 0
        /\ \A i \in 1..m - k + 1 : SubSeq(aged, k, m)[i] = aged[k + i - 1]
    BY <1>1, <1>4, <1>8, SubSeqProperties
  <2>2. ASSUME NEW i \in 1..m - k + 1
        PROVE  recent'[i] = recent[k + i - 1] + 1
    <3>1. k + i - 1 \in 1..m
      BY <1>1, <1>4
    <3> QED
      BY <1>3, <1>5, <2>1, <3>1
  <2>3. Len(recent') = m - k + 1
    BY <1>1, <1>4, <1>5, <2>1
  <2> QED
    BY <1>5, <2>1, <2>2, <2>3
<1>10. ASSUME NEW i \in 1..m
       PROVE  n - m + i \in 1..n /\ window'[n - m + i] = recent[i] + 1
  <2>1. n - m + i \in 1..n
    BY <1>1
  <2>2. window[n - m + i] = recent[i] /\ recent[i] \in Nat /\ recent[i] < Period
    BY <1>1, <1>2
  <2> QED
    BY <1>6, <2>1, <2>2 DEF Older
<1>11. ASSUME NEW i \in 1..Len(recent')
       PROVE  window'[Len(window') - Len(recent') + i] = recent'[i]
  <2>1. k + i - 1 \in 1..m
    BY <1>1, <1>4, <1>9
  <2>2. Len(window') - Len(recent') + i = n - m + (k + i - 1)
    BY <1>1, <1>4, <1>6, <1>9
  <2>3. window'[n - m + (k + i - 1)] = recent[k + i - 1] + 1
    BY <1>10, <2>1
  <2>4. recent'[i] = recent[k + i - 1] + 1
    BY <1>9
  <2> QED
    BY <2>2, <2>3, <2>4
<1>12. ASSUME NEW i \in 1..Len(window') - Len(recent')
       PROVE  window'[i] = Period
  <2>1. i \in 1..n /\ i <= n - m + k - 1
    BY <1>1, <1>4, <1>6, <1>9
  <2>2. CASE i <= n - m
    <3>1. window[i] = Period
      BY <1>1, <1>2, <2>1, <2>2
    <3> QED
      BY <1>1, <1>6, <2>1, <3>1 DEF Older
  <2>3. CASE i > n - m
    <3> DEFINE j == i - (n - m)
    <3>1. j \in 1..m /\ j \in 1..k - 1 /\ n - m + j = i
      BY <1>1, <1>4, <2>1, <2>3
    <3> HIDE DEF j
    <3>2. window'[n - m + j] = recent[j] + 1 /\ recent[j] + 1 = Period
      BY <1>7, <1>10, <3>1
    <3> QED
      BY <3>1, <3>2
  <2> QED
    BY <1>1, <2>1, <2>2, <2>3
<1>13. ASSUME NEW i \in 1..Len(recent'), NEW j \in 1..Len(recent'), i < j
       PROVE  recent'[j] <= recent'[i]
  <2>1. k + i - 1 \in 1..m /\ k + j - 1 \in 1..m /\ k + i - 1 < k + j - 1
    BY <1>1, <1>4, <1>9, <1>13
  <2>2. recent[k + j - 1] <= recent[k + i - 1]
    BY <1>2, <2>1
  <2>3. recent[k + i - 1] \in Nat /\ recent[k + j - 1] \in Nat
    BY <1>1, <2>1
  <2>4. recent'[i] = recent[k + i - 1] + 1 /\ recent'[j] = recent[k + j - 1] + 1
    BY <1>9
  <2> QED
    BY <2>2, <2>3, <2>4
<1>14. sleep' \in 0..Period /\ (sleep' > 0 => sleep > 0) /\ waiting' = waiting
  BY <1>1 DEF Pass, WindowInv, LimitTypeOK
<1>15. LimitTypeOK'
  BY <1>6, <1>9, <1>14 DEF LimitTypeOK
<1>16. Len(recent') <= Len(window') /\ Len(recent') <= m
  BY <1>1, <1>4, <1>6, <1>9
<1>17. WindowRespected' /\ Len(window') <= MaxCalls
  <2>1. m <= MaxCalls /\ n <= MaxCalls /\ (sleep > 0 => waiting # <<>> /\ n = MaxCalls)
    BY DEF WindowInv, WindowRespected, n, m
  <2>2. MaxCalls \in Nat /\ Len(recent') \in Nat
    BY <1>1, <1>4, <1>9, WindowAssumption
  <2>3. Len(recent') <= MaxCalls
    BY <1>1, <1>16, <2>1, <2>2
  <2> QED
    BY <1>6, <1>14, <2>1, <2>3 DEF WindowRespected
<1> QED
  BY <1>11, <1>12, <1>13, <1>15, <1>16, <1>17 DEF WindowInv

LEMMA AdmitKeepsWindow ==
  ASSUME WindowInv, NEW x, Admit(x)
  PROVE  WindowInv'
<1> DEFINE m == Len(recent)
<1>1. /\ window' = Append(recent, 0) /\ recent' = Append(recent, 0)
      /\ sleep = 0 /\ sleep' = 0 /\ m < MaxCalls
  BY KeptIsRecent DEF Admit, Holds
<1>2. /\ recent \in Seq(Nat) /\ m \in Nat /\ Period \in Nat /\ Period > 0 /\ MaxCalls \in Nat
      /\ \A i \in 1..m : recent[i] \in Nat /\ recent[i] < Period
  BY WindowFacts
<1>3. Len(recent') = m + 1 /\ recent'[m + 1] = 0 /\ \A i \in 1..m : recent'[i] = recent[i]
  BY <1>1, <1>2, AppendProperties
<1>4. recent' \in Seq(0..Period - 1)
  <2>1. 0 \in 0..Period - 1
    BY <1>2
  <2> QED
    BY <1>1, <2>1, AppendProperties DEF WindowInv, LimitTypeOK
<1>5. window' \in Seq(0..Period)
  <2>1. 0 \in 0..Period /\ 0..Period - 1 \subseteq 0..Period
    BY <1>2
  <2>2. recent \in Seq(0..Period)
    BY <2>1, SMTT(30) DEF WindowInv, LimitTypeOK
  <2> QED
    BY <1>1, <2>1, <2>2, AppendProperties
<1>6. ASSUME NEW i \in 1..m + 1, NEW j \in 1..m + 1, i < j
      PROVE  recent'[j] <= recent'[i]
  <2>1. i \in 1..m /\ recent'[i] = recent[i]
    BY <1>2, <1>3, <1>6
  <2>2. j \in 1..m => recent'[j] = recent[j] /\ recent[j] <= recent[i]
    BY <1>3, <1>6, <2>1 DEF WindowInv
  <2>3. j \notin 1..m => recent'[j] = 0
    BY <1>2, <1>3, <1>6
  <2> QED
    BY <1>2, <2>1, <2>2, <2>3
<1>7. LimitTypeOK'
  <2>1. 0 \in 0..Period
    BY <1>2
  <2> QED
    BY <1>1, <1>4, <1>5, <2>1 DEF LimitTypeOK
<1>8. Len(recent') <= MaxCalls /\ recent' = window'
  BY <1>1, <1>2, <1>3
<1>9. \A i \in 1..Len(window') - Len(recent') : FALSE
  BY <1>2, <1>3, <1>8
<1>10. \A i \in 1..Len(recent') : window'[Len(window') - Len(recent') + i] = recent'[i]
  BY <1>2, <1>3, <1>8
<1>11. WindowRespected'
  BY <1>1, <1>8 DEF WindowRespected
<1>12. Len(recent') <= Len(window')
  BY <1>2, <1>3, <1>8
<1> QED
  BY <1>3, <1>6, <1>7, <1>8, <1>9, <1>10, <1>11, <1>12 DEF WindowInv

LEMMA SleepKeepsWindow ==
  ASSUME WindowInv, NEW x, Sleep(x)
  PROVE  WindowInv'
<1> DEFINE m == Len(recent)
<1>1. /\ recent \in Seq(Nat) /\ m \in Nat /\ Period \in Nat /\ Period > 0
      /\ MaxCalls \in Nat /\ MaxCalls > 0
      /\ \A i \in 1..m : recent[i] \in Nat /\ recent[i] < Period
  BY WindowFacts
<1>2. /\ window' = recent /\ recent' = recent /\ sleep' = Period - Head(recent)
      /\ waiting' = waiting /\ waiting # <<>> /\ m >= MaxCalls
  BY KeptIsRecent DEF Sleep, Holds
<1>3. m = MaxCalls
  BY <1>1, <1>2 DEF WindowInv, WindowRespected
<1>4. sleep' \in 0..Period
  <2>1. Head(recent) = recent[1] /\ 1 \in 1..m
    BY <1>1, <1>3
  <2> QED
    BY <1>1, <1>2, <2>1
<1>5. window' \in Seq(0..Period)
  <2>1. 0..Period - 1 \subseteq 0..Period
    BY <1>1
  <2> QED
    BY <1>2, <2>1 DEF WindowInv, LimitTypeOK
<1> QED
  BY <1>1, <1>2, <1>3, <1>4, <1>5 DEF WindowInv, LimitTypeOK, WindowRespected

LEMMA EnqueueKeepsWindow ==
  ASSUME WindowInv, NEW S, waiting \in Seq(S), NEW xs \in Seq(S), Enqueue(xs)
  PROVE  WindowInv'
<1>1. waiting # <<>> => waiting' # <<>>
  BY DEF Enqueue
<1> QED
  BY <1>1 DEF WindowInv, LimitTypeOK, WindowRespected, Enqueue

-----------------------------------------------------------------------------
\* Debate.  The calls of a round, and that there are finitely many.
LEMMA TasksOfRound ==
  /\ \A t \in AllTasks : t[1] \in 1..4 /\ t \in Tasks(t[1]) /\ t[2][1] \in Agents
  /\ \A r \in 1..4 : Tasks(r) \subseteq AllTasks /\ \A t \in Tasks(r) : t[1] = r
<1>1. ASSUME NEW r \in 1..4, NEW t \in Tasks(r)
      PROVE  t[1] = r /\ t[2][1] \in Agents
  <2>1. CASE r \in {1, 4}
    BY <1>1, <2>1 DEF Tasks
  <2>2. CASE r = 2
    BY <1>1, <2>2 DEF Tasks, Rebuttals, Flags
  <2>3. CASE r = 3
    BY <1>1, <2>3 DEF Tasks
  <2> QED
    BY <2>1, <2>2, <2>3
<1>2. ASSUME NEW t \in AllTasks
      PROVE  t[1] \in 1..4 /\ t \in Tasks(t[1]) /\ t[2][1] \in Agents
  <2>1. PICK r \in 1..4 : t \in Tasks(r)
    BY DEF AllTasks
  <2> QED
    BY <1>1, <2>1
<1> QED
  BY <1>1, <1>2 DEF AllTasks

LEMMA AgentsFinite ==
  IsFiniteSet(Agents) /\ Cardinality(Agents) \in Nat /\ Cardinality(Agents) <= 4
<1> DEFINE names == {"bull", "bear", "beh", "pol"}
<1>1. IsFiniteSet(names) /\ Cardinality(names) = 4
  <2>1. IsFiniteSet({"bull"}) /\ Cardinality({"bull"}) = 1
    BY FS_Singleton
  <2>2. IsFiniteSet({"bull", "bear"}) /\ Cardinality({"bull", "bear"}) = 2
    <3>1. {"bull", "bear"} = {"bull"} \cup {"bear"} /\ "bear" \notin {"bull"}
      OBVIOUS
    <3> QED
      BY <2>1, <3>1, FS_AddElement
  <2>3. IsFiniteSet({"bull", "bear", "beh"}) /\ Cardinality({"bull", "bear", "beh"}) = 3
    <3>1. {"bull", "bear", "beh"} = {"bull", "bear"} \cup {"beh"} /\ "beh" \notin {"bull", "bear"}
      OBVIOUS
    <3> QED
      BY <2>2, <3>1, FS_AddElement
  <2>4. names = {"bull", "bear", "beh"} \cup {"pol"} /\ "pol" \notin {"bull", "bear", "beh"}
    OBVIOUS
  <2> QED
    BY <2>3, <2>4, FS_AddElement
<1>2. Agents \in SUBSET names
  BY AgentsAssumption
<1> HIDE DEF names
<1>3. IsFiniteSet(Agents) /\ Cardinality(Agents) <= Cardinality(names)
  BY <1>1, <1>2, FS_Subset
<1> QED
  BY <1>1, <1>3, FS_CardinalityType

LEMMA TasksFinite ==
  ASSUME NEW r \in 1..4
  PROVE  IsFiniteSet(Tasks(r))
<1> DEFINE pairs == Agents \X Agents
           all == {r} \X pairs
<1>1. IsFiniteSet(all)
  BY AgentsFinite, FS_Product, FS_Singleton
<1>2. Tasks(r) \in SUBSET all
  <2>1. CASE r \in {1, 4}
    BY <2>1 DEF Tasks
  <2>2. CASE r = 2
    BY <2>2 DEF Tasks, Rebuttals, Flags, Targets
  <2>3. CASE r = 3
    BY <2>3 DEF Tasks
  <2> QED
    BY <2>1, <2>2, <2>3
<1> HIDE DEF all
<1> QED
  BY <1>1, <1>2, FS_Subset

\* The gather lists the calls of a round once each.
LEMMA GatherOrder ==
  ASSUME NEW r \in 1..4
  PROVE  LET s == SetToSeq(Tasks(r)) IN
         /\ s \in Seq(Tasks(r))
         /\ \A i, j \in 1..Len(s) : s[i] = s[j] => i = j
<1> DEFINE S == Tasks(r)
           n == Cardinality(S)
<1>1. IsFiniteSet(S)
  BY TasksFinite
<1> HIDE DEF S
<1>2. n \in Nat /\ ExistsBijection(1..n, S)
  BY <1>1, FS_CardinalityType
<1>3. \E f \in [1..n -> S] : IsInjective(f)
  BY <1>2, Zenon DEF ExistsBijection, Bijection, Injection, IsInjective
<1>4. SetToSeq(S) \in [1..n -> S] /\ IsInjective(SetToSeq(S))
  BY <1>3 DEF SetToSeq
<1>5. SetToSeq(S) \in Seq(S) /\ Len(SetToSeq(S)) = n /\ DOMAIN SetToSeq(S) = 1..n
  BY <1>2, <1>4
<1> QED
  BY <1>4, <1>5 DEF IsInjective, S

\* Each caller that waits for the limiter is in it once.
Lined ==
  /\ \A i \in 1..Len(waiting) : task[waiting[i]] = "limiter"
  /\ \A i, j \in 1..Len(waiting) : waiting[i] = waiting[j] => i = j

\* While no call raised, the rounds before have been answered and those after
\* have not begun; the tally was taken of the final verdicts as they are.
Rounds ==
  /\ round <= 5 => \A t \in AllTasks : /\ t[1] < round => task[t] = "ok"
                                       /\ t[1] > round => task[t] = "none"
  /\ result # None => round = 5 /\ \E top \in Directions : result = Tally(top)

DebateInv == DebateTypeOK /\ WindowInv /\ Lined /\ Rounds

LEMMA TallyFaithful ==
  ASSUME DebateInv
  PROVE  DissentPreserved
<1> SUFFICES ASSUME result # None
             PROVE  /\ \A d \in Directions : result.verdict = d =>
                         /\ result.dissent = {a \in Agents : final[a] # d}
                         /\ Cardinality(Agents \ result.dissent) > Cardinality(result.dissent)
                    /\ result.verdict = None /\ Cardinality({final[a] : a \in Agents}) > 1 =>
                         result.dissent # {}
  BY DEF DissentPreserved
<1>1. PICK top \in Directions : result = Tally(top)
  BY DEF DebateInv, Rounds
<1> DEFINE side == Side(top)
<1>2. /\ result.dissent = Agents \ side
      /\ result.verdict = IF Cardinality(side) >= 3 THEN top ELSE None
  BY <1>1 DEF Tally, Dissent, CONSENSUS_THRESHOLD
<1>3. side \in SUBSET Agents /\ side = {a \in Agents : final[a] = top}
  BY DEF Side
<1>4. ASSUME NEW d \in Directions, result.verdict = d
      PROVE  /\ result.dissent = {a \in Agents : final[a] # d}
             /\ Cardinality(Agents \ result.dissent) > Cardinality(result.dissent)
  <2>1. d = top /\ Cardinality(side) >= 3
    BY <1>2, <1>4, AgentsAssumption DEF Directions
  <2>2. result.dissent = {a \in Agents : final[a] # d}
    BY <1>2, <1>3, <2>1
  <2>3. Agents \ result.dissent = side /\ Agents \cap side = side
    BY <1>2, <1>3
  <2> HIDE DEF side
  <2>4. Cardinality(side) \in Nat /\ Cardinality(Agents \ side) = Cardinality(Agents) - Cardinality(side)
    <3>1. IsFiniteSet(side)
      BY <1>3, AgentsFinite, FS_Subset
    <3>2. Cardinality(side) \in Nat
      BY <3>1, FS_CardinalityType
    <3>3. Cardinality(Agents \ side) = Cardinality(Agents) - Cardinality(Agents \cap side)
      BY AgentsFinite, FS_Difference
    <3> QED
      BY <2>3, <3>2, <3>3
  <2>5. Cardinality(side) > Cardinality(Agents \ side)
    BY <2>1, <2>4, AgentsFinite
  <2> QED
    BY <1>2, <2>2, <2>3, <2>5
<1>5. ASSUME Cardinality({final[a] : a \in Agents}) > 1, result.dissent = {}
      PROVE  FALSE
  <2> DEFINE said == {final[a] : a \in Agents}
  <2>1. said \in SUBSET {top}
    BY <1>2, <1>3, <1>5
  <2>2. IsFiniteSet({top}) /\ Cardinality({top}) = 1
    BY FS_Singleton
  <2> HIDE DEF said
  <2>3. Cardinality(said) <= 1 /\ Cardinality(said) \in Nat
    BY <2>1, <2>2, FS_Subset, FS_CardinalityType
  <2> QED
    BY <1>5, <2>3 DEF said
<1> QED
  BY <1>4, <1>5

LEMMA NextRoundKeepsDebate ==
  ASSUME DebateInv, NextRound
  PROVE  DebateInv'
<1>1. /\ round \in 0..3 /\ round' = round + 1 /\ round + 1 \in 1..4 /\ result = None
      /\ waiting \in Seq(AllTasks)
  BY DEF DebateInv, DebateTypeOK, NextRound, Rounds
<1>2. \A t \in AllTasks : /\ t[1] <= round => task[t] = "ok"
                          /\ t[1] > round => task[t] = "none"
  <2>1. ASSUME NEW t \in AllTasks, t[1] = round
        PROVE  task[t] = "ok"
    <3>1. t \in Tasks(round) /\ round > 0
      BY <2>1, TasksOfRound
    <3> QED
      BY <3>1 DEF NextRound, Gathered
  <2> QED
    BY <1>1, <2>1, TasksOfRound DEF DebateInv, Rounds
<1>3. waiting = <<>>
  <2>1. ASSUME NEW i \in 1..Len(waiting)
        PROVE  FALSE
    <3>1. waiting[i] \in AllTasks /\ task[waiting[i]] = "limiter"
      BY <1>1 DEF DebateInv, Lined
    <3>2. waiting[i][1] \in 1..4
      BY <3>1, TasksOfRound
    <3> QED
      BY <1>1, <1>2, <3>1, <3>2
  <2> QED
    BY <1>1, <2>1
<1> DEFINE s == SetToSeq(Tasks(round + 1))
<1>4. s \in Seq(Tasks(round + 1)) /\ \A i, j \in 1..Len(s) : s[i] = s[j] => i = j
  BY <1>1, GatherOrder
<1>5. Tasks(round + 1) \subseteq AllTasks /\ \A t \in Tasks(round + 1) : t[1] = round + 1
  BY <1>1, TasksOfRound
<1>6. s \in Seq(AllTasks) /\ Enqueue(s)
  BY <1>4, <1>5 DEF NextRound
<1> HIDE DEF s
<1>7. waiting' = s
  BY <1>3, <1>6, ConcatEmptySeq DEF Enqueue
<1>8. WindowInv'
  BY <1>1, <1>6, EnqueueKeepsWindow DEF DebateInv
<1>9. \A t \in AllTasks : task'[t] = IF t \in Tasks(round + 1) THEN "limiter" ELSE task[t]
  BY DEF NextRound
<1>10. Lined'
  <2>1. ASSUME NEW i \in 1..Len(s)
        PROVE  task'[s[i]] = "limiter"
    BY <1>4, <1>5, <1>9
  <2> QED
    BY <1>4, <1>7, <2>1 DEF Lined
<1>11. Rounds'
  <2>1. ASSUME NEW t \in AllTasks
        PROVE  /\ t[1] < round + 1 => task'[t] = "ok"
               /\ t[1] > round + 1 => task'[t] = "none"
    <3>1. t[1] \in 1..4
      BY TasksOfRound
    <3>2. t[1] # round + 1 => task'[t] = task[t]
      BY <1>5, <1>9
    <3> QED
      BY <1>1, <1>2, <3>1, <3>2
  <2>2. result' = None
    BY <1>1 DEF NextRound
  <2> QED
    BY <1>1, <2>1, <2>2 DEF Rounds
<1>12. DebateTypeOK'
  <2>1. task' \in [AllTasks -> {"none", "limiter", "model", "ok", "failed"}]
    BY DEF NextRound, DebateInv, DebateTypeOK
  <2>2. spoken' \subseteq AllTasks
    <3>1. round > 0 => Tasks(round) \subseteq AllTasks
      BY <1>1, TasksOfRound
    <3>2. spoken \subseteq AllTasks
      BY DEF DebateInv, DebateTypeOK
    <3>3. spoken' = spoken \/ (round > 0 /\ spoken' = spoken \cup Tasks(round))
      BY <1>1 DEF NextRound
    <3> QED
      BY <3>1, <3>2, <3>3
  <2>3. round' \in 0..6
    BY <1>1
  <2>4. LimitTypeOK'
    BY <1>8 DEF WindowInv
  <2> QED
    BY <1>1, <1>6, <1>7, <2>1, <2>2, <2>3, <2>4 DEF NextRound, DebateInv, DebateTypeOK
<1> QED
  BY <1>8, <1>10, <1>11, <1>12 DEF DebateInv

LEMMA AcquiredKeepsDebate ==
  ASSUME DebateInv, NEW t \in AllTasks, Acquired(t)
  PROVE  DebateInv'
<1>1. /\ waiting \in Seq(AllTasks) /\ waiting # <<>> /\ Head(waiting) = t /\ waiting' = Tail(waiting)
      /\ task' = [task EXCEPT ![t] = "model"] /\ UNCHANGED <<round, spoken, final, result>>
      /\ task \in [AllTasks -> {"none", "limiter", "model", "ok", "failed"}]
  BY DEF DebateInv, DebateTypeOK, Acquired, Admit, Holds
<1>2. WindowInv'
  BY AdmitKeepsWindow DEF DebateInv, Acquired
<1>3. /\ waiting' \in Seq(AllTasks) /\ Len(waiting') = Len(waiting) - 1 /\ Len(waiting) \in Nat
      /\ \A i \in 1..Len(waiting') : waiting'[i] = waiting[i + 1]
      /\ waiting[1] = t
  BY <1>1, HeadTailProperties
<1>4. Lined'
  <2>1. ASSUME NEW i \in 1..Len(waiting')
        PROVE  i + 1 \in 1..Len(waiting) /\ waiting'[i] # t /\ waiting'[i] \in AllTasks
               /\ task[waiting'[i]] = "limiter"
    <3>1. i + 1 \in 1..Len(waiting) /\ 1 \in 1..Len(waiting) /\ i + 1 # 1
      BY <1>3
    <3> QED
      BY <1>3, <3>1 DEF DebateInv, Lined
  <2>2. ASSUME NEW i \in 1..Len(waiting'), NEW j \in 1..Len(waiting'), waiting'[i] = waiting'[j]
        PROVE  i = j
    <3>1. waiting[i + 1] = waiting[j + 1] /\ i + 1 \in 1..Len(waiting) /\ j + 1 \in 1..Len(waiting)
      BY <1>3, <2>1, <2>2
    <3>2. i + 1 = j + 1
      BY <3>1 DEF DebateInv, Lined
    <3> QED
      BY <3>2
  <2>3. \A i \in 1..Len(waiting') : task'[waiting'[i]] = "limiter"
    BY <1>1, <2>1
  <2> QED
    BY <2>2, <2>3 DEF Lined
<1>5. task[t] = "limiter"
  <2>1. 1 \in 1..Len(waiting)
    BY <1>1, <1>3
  <2> QED
    BY <1>3, <2>1 DEF DebateInv, Lined
<1>6. Rounds'
  <2>1. ASSUME round <= 5, NEW u \in AllTasks
        PROVE  /\ u[1] < round => task'[u] = "ok"
               /\ u[1] > round => task'[u] = "none"
    BY <1>1, <1>5, <2>1 DEF DebateInv, Rounds
  <2>2. \A top : Tally(top)' = Tally(top)
    BY <1>1 DEF Tally, Side, Dissent
  <2> QED
    BY <1>1, <2>1, <2>2 DEF DebateInv, Rounds
<1>7. DebateTypeOK'
  <2>1. LimitTypeOK'
    BY <1>2 DEF WindowInv
  <2> QED
    BY <1>1, <1>3, <2>1 DEF DebateInv, DebateTypeOK
<1> QED
  BY <1>2, <1>4, <1>6, <1>7 DEF DebateInv

LEMMA SleepsKeepsDebate ==
  ASSUME DebateInv, NEW t \in AllTasks, Sleeps(t)
  PROVE  DebateInv'
<1>1. WindowInv' /\ LimitTypeOK'
  BY SleepKeepsWindow DEF DebateInv, Sleeps, WindowInv
<1>2. UNCHANGED <<round, task, spoken, final, result, waiting>>
  BY DEF Sleeps, Sleep
<1> QED
  BY <1>1, <1>2, SMTT(30) DEF DebateInv, DebateTypeOK, Lined, Rounds, Tally, Side, Dissent

\* A call that is answered, or that raises, is one of the round: none is under
\* way when the tally is taken.
LEMMA ModelKeepsDebate ==
  ASSUME DebateInv, NEW t \in AllTasks, Answer(t) \/ ModelRaises(t)
  PROVE  DebateInv'
<1>1. /\ task[t] = "model" /\ UNCHANGED <<spoken, result, window, waiting, sleep, recent>>
      /\ task \in [AllTasks -> {"none", "limiter", "model", "ok", "failed"}]
      /\ round \in 0..6
      /\ task' = [task EXCEPT ![t] = "ok"] \/ task' = [task EXCEPT ![t] = "failed"]
  BY DEF Answer, ModelRaises, limitVars, DebateInv, DebateTypeOK
<1>2. t[1] \in 1..4 /\ t[2][1] \in Agents
  BY TasksOfRound
<1>3. round <= 5 => t[1] = round
  BY <1>1, <1>2 DEF DebateInv, Rounds
<1>4. result = None
  BY <1>1, <1>2, <1>3 DEF DebateInv, Rounds
<1>5. WindowInv'
  BY <1>1 DEF DebateInv, WindowInv, LimitTypeOK, WindowRespected
<1>6. Lined'
  <2>1. ASSUME NEW i \in 1..Len(waiting)
        PROVE  task'[waiting[i]] = "limiter"
    <3>1. task[waiting[i]] = "limiter" /\ waiting[i] \in AllTasks
      BY DEF DebateInv, DebateTypeOK, Lined
    <3> QED
      BY <1>1, <3>1
  <2> QED
    BY <1>1, <2>1 DEF DebateInv, Lined
<1>7. Rounds'
  <2>1. ASSUME round' <= 5, NEW u \in AllTasks
        PROVE  /\ u[1] < round' => task'[u] = "ok"
               /\ u[1] > round' => task'[u] = "none"
    <3>1. round' = round
      BY <2>1 DEF Answer, ModelRaises
    <3>2. u[1] # round => u # t
      BY <1>3, <2>1, <3>1
    <3>3. u # t => task'[u] = task[u]
      BY <1>1
    <3> QED
      BY <1>1, <2>1, <3>1, <3>2, <3>3, TasksOfRound DEF DebateInv, Rounds
  <2> QED
    BY <1>1, <1>4, <2>1 DEF Rounds
<1>8. DebateTypeOK'
  <2>1. task' \in [AllTasks -> {"none", "limiter", "model", "ok", "failed"}]
    BY <1>1
  <2>2. final' \in [Agents -> Directions \cup {None}]
    <3>1. final \in [Agents -> Directions \cup {None}]
      BY DEF DebateInv, DebateTypeOK
    <3>2. final' = final \/ \E d \in Directions : final' = [final EXCEPT ![t[2][1]] = d]
      BY DEF Answer, ModelRaises
    <3> QED
      BY <1>2, <3>1, <3>2
  <2>3. round' \in 0..6
    BY <1>1 DEF Answer, ModelRaises
  <2>4. LimitTypeOK'
    BY <1>5 DEF WindowInv
  <2> QED
    BY <1>1, <1>4, <2>1, <2>2, <2>3, <2>4 DEF DebateInv, DebateTypeOK
<1> QED
  BY <1>5, <1>6, <1>7, <1>8 DEF DebateInv

LEMMA ConcludeKeepsDebate ==
  ASSUME DebateInv, Conclude
  PROVE  DebateInv'
<1>1. /\ round = 4 /\ round' = 5
      /\ UNCHANGED <<task, final, window, waiting, sleep, recent>>
      /\ spoken' = spoken \cup Tasks(4)
  BY DEF Conclude, limitVars
<1>2. PICK top \in Directions : result' = Tally(top)
  BY DEF Conclude, Tops
<1>3. WindowInv' /\ LimitTypeOK' /\ Lined'
  BY <1>1 DEF DebateInv, WindowInv, LimitTypeOK, WindowRespected, Lined
<1>4. Rounds'
  <2>1. ASSUME NEW u \in AllTasks
        PROVE  task'[u] = "ok" /\ ~(u[1] > 5)
    <3>1. u[1] \in 1..4 /\ (u[1] = 4 => u \in Tasks(4))
      BY TasksOfRound
    <3>2. u[1] = 4 => task[u] = "ok"
      BY <1>1, <3>1 DEF Conclude, Gathered
    <3>3. u[1] < 4 => task[u] = "ok"
      BY <1>1 DEF DebateInv, Rounds
    <3> QED
      BY <1>1, <3>1, <3>2, <3>3
  <2>2. Tally(top)' = Tally(top)
    BY <1>1 DEF Tally, Side, Dissent
  <2>3. \E d \in Directions : (result = Tally(d))'
    BY <1>2, <2>2 DEF Directions
  <2> QED
    BY <1>1, <2>1, <2>3 DEF Rounds
<1>5. DebateTypeOK'
  <2>1. result' \in [consensus : BOOLEAN, verdict : Directions \cup {None}, dissent : SUBSET Agents]
    BY <1>2 DEF Tally, Dissent
  <2>2. spoken' \subseteq AllTasks
    BY <1>1, TasksOfRound DEF DebateInv, DebateTypeOK
  <2> QED
    BY <1>1, <1>3, <2>1, <2>2 DEF DebateInv, DebateTypeOK
<1> QED
  BY <1>3, <1>4, <1>5 DEF DebateInv

LEMMA TimeKeepsDebate ==
  ASSUME DebateInv, DebateTime
  PROVE  DebateInv'
<1>1. WindowInv' /\ LimitTypeOK'
  BY PassKeepsWindow DEF DebateInv, DebateTime, WindowInv
<1>2. UNCHANGED <<round, task, spoken, final, result, waiting>>
  BY DEF DebateTime, Pass
<1> QED
  BY <1>1, <1>2 DEF DebateInv, DebateTypeOK, Lined, Rounds, Tally, Side, Dissent

LEMMA DebateStart ==
  ASSUME Init
  PROVE  DebateInv
<1>1. /\ round = 0 /\ task = [t \in AllTasks |-> "none"] /\ spoken = {}
      /\ final = [a \in Agents |-> None] /\ result = None
      /\ window = <<>> /\ waiting = <<>> /\ sleep = 0 /\ recent = <<>>
  BY DEF Init, DebateInit, LimitInit
<1>2. 0 \in 0..Period
  BY WindowAssumption
<1>3. LimitTypeOK
  BY <1>1, <1>2, EmptySeq DEF LimitTypeOK
<1>4. WindowInv
  BY <1>1, <1>3, WindowAssumption DEF WindowInv, WindowRespected
<1>5. DebateTypeOK
  BY <1>1, <1>3 DEF DebateTypeOK
<1>6. Lined /\ Rounds
  BY <1>1, TasksOfRound DEF Lined, Rounds
<1> QED
  BY <1>4, <1>5, <1>6 DEF DebateInv

LEMMA DebateKept ==
  ASSUME DebateInv, [Next]_vars
  PROVE  DebateInv'
<1>1. CASE Argue
  <2>1. ASSUME NEW t \in AllTasks, Acquired(t) \/ Sleeps(t) \/ Answer(t) \/ ModelRaises(t)
        PROVE  DebateInv'
    BY <2>1, AcquiredKeepsDebate, SleepsKeepsDebate, ModelKeepsDebate
  <2> QED
    BY <1>1, <2>1, NextRoundKeepsDebate, ConcludeKeepsDebate, TimeKeepsDebate
       DEF Argue, DebateNext, DebateStep
<1>2. CASE UNCHANGED debateVars
  <2>1. UNCHANGED <<round, task, spoken, final, result, window, waiting, sleep, recent>>
    BY <1>2 DEF debateVars, limitVars
  <2>2. WindowInv' /\ LimitTypeOK' /\ Lined'
    BY <2>1 DEF DebateInv, WindowInv, LimitTypeOK, WindowRespected, Lined
  <2>3. DebateTypeOK'
    BY <2>1, <2>2 DEF DebateInv, DebateTypeOK
  <2>4. Rounds'
    BY <2>1 DEF DebateInv, Rounds, Tally, Side, Dissent
  <2> QED
    BY <2>2, <2>3, <2>4 DEF DebateInv
<1> QED
  BY <1>1, <1>2 DEF Next, Heal, Backup, vars

\* The limiter's window, the lock's queue and the rounds hold together in every
\* behaviour, whichever call answers, sleeps or raises first.
THEOREM DebateInvariant == Spec => []DebateInv
<1>1. Init => DebateInv
  BY DebateStart
<1>2. DebateInv /\ [Next]_vars => DebateInv'
  BY DebateKept
<1> QED
  BY <1>1, <1>2, PTL DEF Spec

\* Never more than MaxCalls calls are admitted within a period, and who sleeps
\* holds the lock of a full window: the deque that acquire() pops is, at every
\* moment it is looked at, just the calls of the last period.
THEOREM WindowKept == Spec => []WindowRespected
<1>1. DebateInv => WindowRespected
  BY DEF DebateInv, WindowInv
<1> QED
  BY <1>1, DebateInvariant, PTL

\* The result's dissent is of the verdicts as they stand, ties included: no
\* answer can still arrive when the tally is taken.
THEOREM DissentKept == Spec => []DissentPreserved
<1>1. DebateInv => DissentPreserved
  BY TallyFaithful
<1> QED
  BY <1>1, DebateInvariant, PTL

-----------------------------------------------------------------------------
InFocus == focus \in Focuses

\* Every variable of the services keeps its type: a call that raises, a write
\* that is interrupted and a debate that ends early leave no value out of place.
THEOREM TypeCorrect == Spec => []TypeOK
<1>1. Init => InFocus
  BY DEF Init, InFocus
<1>2. InFocus /\ [Next]_vars => InFocus'
  BY DEF InFocus, Next, Heal, Backup, Argue, vars
<1>3. Spec => []InFocus
  BY <1>1, <1>2, PTL DEF Spec
<1>4. InFocus /\ HealInv /\ BackupInv /\ DebateInv => TypeOK
  BY DEF TypeOK, InFocus, HealInv, HealBase, BackupInv, DebateInv
<1> QED
  BY <1>3, <1>4, HealInvariant, BackupInvariant, DebateInvariant, PTL
=============================================================================
