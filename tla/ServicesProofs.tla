---------------------------- MODULE ServicesProofs -----------------------------
(***************************************************************************)
(* Theorems about the services around the store, each by itself: CallGraph *)
(* for any file (any functions, nestings, cycles and bodies that are not   *)
(* walked), ToolCalls for any servers, calls, retries and intervals,       *)
(* ConfigFiles for any processes and edits, and HubAccess for any limit    *)
(* and window.                                                             *)
(***************************************************************************)
EXTENDS CallGraph, ToolCalls, ConfigFiles, HubAccess, FiniteSetTheorems, SequenceTheorems, TLAPS

-----------------------------------------------------------------------------
(* CallGraph *)

\* The graph stays what the file gives.
OfTheFile == \A f \in Functions : callers[f] = CallersOf(f)

\* The callers of what has been visited have been visited or are in the queue.
VisitedThrough == modified \in visited \cup queue /\ \A f \in visited : callers[f] \subseteq visited \cup queue

GraphShape == GraphTypeOK /\ OfTheFile /\ VisitedThrough /\ RadiusIsLeast

LEMMA CallersAreFunctions ==
  ASSUME owner \in Nestings, NEW f \in Functions
  PROVE  CallersOf(f) \subseteq Functions
  BY DEF CallersOf, Nestings

LEMMA GraphShapeInit == GraphInit => GraphShape
<1> SUFFICES ASSUME GraphInit PROVE GraphShape
  OBVIOUS
<1>1. owner \in Nestings /\ unwalked \subseteq Functions /\ written \subseteq InScope(owner)
  BY DEF GraphInit
<1>2. callers \in [Functions -> SUBSET Functions] /\ OfTheFile
  BY <1>1, CallersAreFunctions DEF GraphInit, OfTheFile
<1>3. modified \in Functions /\ queue = {modified} /\ visited = {}
  BY DEF GraphInit
<1>4. GraphTypeOK
  BY <1>1, <1>2, <1>3 DEF GraphTypeOK
<1>5. VisitedThrough /\ RadiusIsLeast
  BY <1>3 DEF VisitedThrough, RadiusIsLeast
<1> QED BY <1>2, <1>4, <1>5 DEF GraphShape

LEMMA GraphShapeNext == GraphShape /\ [GraphNext]_graphVars => GraphShape'
<1> SUFFICES ASSUME GraphShape, [GraphNext]_graphVars PROVE GraphShape'
  OBVIOUS
<1>1. ASSUME NEW f \in Functions, Visit(f)
      PROVE  GraphShape'
  <2>1. /\ UNCHANGED <<owner, unwalked, written, callers, modified>> /\ f \in queue
        /\ visited' = visited \cup {f} /\ queue' = (queue \cup callers[f]) \ visited'
    BY <1>1 DEF Visit, fileVars
  <2>2. GraphTypeOK'
    BY <2>1 DEF GraphShape, GraphTypeOK
  <2>3. OfTheFile'
    BY <2>1 DEF GraphShape, OfTheFile, CallersOf
  <2>4. VisitedThrough'
    BY <2>1 DEF GraphShape, VisitedThrough
  <2>5. RadiusIsLeast'
    <3> SUFFICES ASSUME NEW S \in SUBSET Functions, modified \in S, \A g \in S : callers[g] \subseteq S
                 PROVE  visited' \cup queue' \subseteq S
      BY <2>1 DEF RadiusIsLeast
    <3>1. visited \cup queue \subseteq S
      BY DEF GraphShape, RadiusIsLeast
    <3>2. f \in S /\ callers[f] \subseteq S
      BY <2>1, <3>1
    <3> QED BY <2>1, <3>1, <3>2
  <2> QED BY <2>2, <2>3, <2>4, <2>5 DEF GraphShape
<1>2. CASE UNCHANGED graphVars
  <2>1. UNCHANGED <<owner, unwalked, written, callers, modified, queue, visited>>
    BY <1>2 DEF graphVars, fileVars
  <2>2. GraphTypeOK' /\ VisitedThrough' /\ RadiusIsLeast'
    BY <2>1 DEF GraphShape, GraphTypeOK, VisitedThrough, RadiusIsLeast
  <2>3. OfTheFile'
    BY <2>1 DEF GraphShape, OfTheFile, CallersOf
  <2> QED BY <2>2, <2>3 DEF GraphShape
<1> QED BY <1>1, <1>2 DEF GraphNext

LEMMA ShapeCovers == GraphShape => RadiusIsUpstream
<1> SUFFICES ASSUME GraphShape, queue = {}, NEW call \in written, call[2] \in Covered, call[1] \notin unwalked
             PROVE  call[1] \in Covered
  BY DEF GraphShape, RadiusIsUpstream, CallersCovered, Answered
<1>1. PICK g \in Functions, f \in Functions : call = <<g, f>>
  BY DEF GraphShape, GraphTypeOK, InScope
<1>2. owner[f] \in {f, owner[g]} /\ owner[g] \in Functions
  BY <1>1 DEF GraphShape, GraphTypeOK, InScope, Nestings
<1>3. modified \in visited /\ \A n \in visited : callers[n] \subseteq visited
  BY DEF GraphShape, VisitedThrough
<1>4. owner[g] \in CallersOf(f) \cup {f}
  BY <1>1 DEF CallersOf
<1>5. f \in visited => owner[g] \in visited
  BY <1>3, <1>4 DEF GraphShape, OfTheFile
<1>6. f \in visited \/ owner[f] \in visited
  BY <1>1, <1>3 DEF Covered
<1>7. owner[g] \in visited
  BY <1>2, <1>5, <1>6
<1> QED BY <1>1, <1>7 DEF Covered

\* The variables of CallGraph keep their types.
THEOREM GraphTypeCorrect == GraphSpec => []GraphTypeOK
<1>1. GraphShape => GraphTypeOK
  BY DEF GraphShape
<1> QED BY <1>1, GraphShapeInit, GraphShapeNext, PTL DEF GraphSpec

\* The blast radius of a function has whatever leads to it through walked bodies,
\* and nothing else (extract_call_graph, get_blast_radius).
THEOREM RadiusIsExact == GraphSpec => []RadiusIsUpstream
<1> QED BY ShapeCovers, GraphShapeInit, GraphShapeNext, PTL DEF GraphSpec
-----------------------------------------------------------------------------
(* ToolCalls *)

\* What a call has behind it at each point of its way: every attempt so far failed
\* and was retried, but the last, which may have succeeded or be given up; a write
\* is of one attempt.
WayOf(call) ==
  /\ call.at # "done" => call.answer = "none" /\ call.rows = 0
  /\ call.at \in {"free", "ready", "asleep"} => call.effects <= call.transient
  /\ call.at = "hooks" => call.effects > 0
  /\ call.answer # "retryable" => call.transient = call.attempt
  /\ call.answer = "retryable" => call.transient = MaxRetries + 1
  /\ call.effects <= call.transient + 1
  /\ call.rows > 0 => call.rows = 1 /\ call.answer = "ok" /\ call.effects > 0

CallShape == \A c \in ToolCallIds : WayOf(calls[c])

ToolTyped == ToolTypeOK /\ CallShape
ToolShape == ToolTyped /\ OneGoalPerServer

\* A call moves on, or is answered.
MovedTo(call, place) == [call EXCEPT !.at = place]
AnsweredWith(call, answer) == [call EXCEPT !.at = "done", !.answer = answer]

LEMMA Moved ==
  ASSUME NEW call \in ToolCall, NEW place \in {"free", "ready", "asleep", "hooks", "done"}
  PROVE  /\ MovedTo(call, place) \in ToolCall /\ MovedTo(call, place).at = place
         /\ MovedTo(call, place).answer = call.answer /\ MovedTo(call, place).rows = call.rows
         /\ MovedTo(call, place).effects = call.effects /\ MovedTo(call, place).on = call.on
         /\ MovedTo(call, place).transient = call.transient /\ MovedTo(call, place).attempt = call.attempt
  BY DEF ToolCall, MovedTo

LEMMA IsAnswered ==
  ASSUME NEW call \in ToolCall, NEW answer \in {"none", "ok", "error", "retryable", "cancelled"}
  PROVE  /\ AnsweredWith(call, answer) \in ToolCall /\ AnsweredWith(call, answer).at = "done"
         /\ AnsweredWith(call, answer).answer = answer /\ AnsweredWith(call, answer).rows = call.rows
         /\ AnsweredWith(call, answer).effects = call.effects /\ AnsweredWith(call, answer).on = call.on
         /\ AnsweredWith(call, answer).transient = call.transient
         /\ AnsweredWith(call, answer).attempt = call.attempt
  BY DEF ToolCall, AnsweredWith

LEMMA ToolNumbers ==
  /\ MaxRetries \in Nat /\ MaxOutages \in Nat /\ ScanEvery \in Nat \ {0}
  /\ CheckEvery \in Nat \ {0} /\ GoalCooldown \in Nat \ {0}
  BY ToolAssumption

LEMMA TransientTyped ==
  ASSUME NEW call \in ToolCall, call.transient <= MaxRetries
  PROVE  /\ Transient(call) \in ToolCall /\ Transient(call).transient = call.transient + 1
         /\ Transient(call).at = call.at /\ Transient(call).on = call.on
         /\ Transient(call).attempt = call.attempt /\ Transient(call).effects = call.effects
         /\ Transient(call).rows = call.rows /\ Transient(call).answer = call.answer
<1> DEFINE n == call.transient + 1
<1>1. n \in 0..(MaxRetries + 1)
  BY ToolNumbers DEF ToolCall
<1>2. [call EXCEPT !.transient = n] \in ToolCall
  <2> HIDE DEF n
  <2> QED BY <1>1 DEF ToolCall
<1> QED BY <1>2 DEF Transient, ToolCall

LEMMA WaitingTyped ==
  ASSUME NEW call \in ToolCall, call.attempt < MaxRetries
  PROVE  /\ Waiting(call) \in ToolCall /\ Waiting(call).transient = call.transient
         /\ Waiting(call).at = "asleep" /\ Waiting(call).on = call.on
         /\ Waiting(call).attempt = call.attempt + 1 /\ Waiting(call).effects = call.effects
         /\ Waiting(call).rows = call.rows /\ Waiting(call).answer = call.answer
<1> DEFINE n == call.attempt + 1
<1>1. n \in Attempts
  BY ToolNumbers DEF ToolCall, Attempts
<1>2. [call EXCEPT !.at = "asleep", !.attempt = n] \in ToolCall
  <2> HIDE DEF n
  <2> QED BY <1>1 DEF ToolCall
<1> QED BY <1>2 DEF Waiting, ToolCall

LEMMA LoggedTyped ==
  ASSUME NEW call \in ToolCall, call.rows = 0
  PROVE  /\ Logged(call) \in ToolCall /\ Logged(call).at = "done" /\ Logged(call).answer = "ok"
         /\ Logged(call).rows = 1 /\ Logged(call).effects = call.effects
         /\ Logged(call).transient = call.transient /\ Logged(call).attempt = call.attempt
<1>1. Logged(call) = [call EXCEPT !.at = "done", !.answer = "ok", !.rows = 1]
  BY DEF Logged, ToolCall
<1>2. 1 \in 0..(MaxRetries + 1)
  BY ToolNumbers
<1> QED BY <1>1, <1>2 DEF ToolCall

LEMMA FreeCallTyped ==
  ASSUME NEW s \in ToolServers
  PROVE  FreeCall(s) \in ToolCall /\ WayOf(FreeCall(s))
  BY ToolAssumption DEF FreeCall, ToolCall, Attempts, WayOf

LEMMA AttemptedTyped ==
  ASSUME ToolTyped, NEW c \in ToolCallIds, calls[c].at = "ready", NEW commits \in BOOLEAN
  PROVE  \E a \in ToolCall :
            /\ a = Attempted(c, commits)
            /\ a.effects <= a.transient + 1 /\ (commits => a.effects > 0)
            /\ a.transient = a.attempt /\ a.attempt = calls[c].attempt /\ a.rows = 0 /\ a.answer = "none"
            /\ a.at = "ready" /\ a.on = calls[c].on
<1>1. calls[c] \in ToolCall /\ WayOf(calls[c])
  BY DEF ToolTyped, ToolTypeOK, CallShape
<1>2. /\ calls[c].effects \in Nat /\ calls[c].transient \in Nat /\ calls[c].effects <= calls[c].transient
      /\ calls[c].transient = calls[c].attempt /\ calls[c].attempt \in 0..MaxRetries
  BY <1>1, ToolAssumption DEF WayOf, ToolCall, Attempts
<1>3. calls[c].rows = 0 /\ calls[c].answer = "none"
  BY <1>1 DEF WayOf
<1> DEFINE n == IF commits THEN calls[c].effects + 1 ELSE calls[c].effects
           a == [calls[c] EXCEPT !.effects = n]
<1>4. n \in 0..(MaxRetries + 1) /\ n <= calls[c].transient + 1 /\ (commits => n > 0)
  BY <1>2, ToolNumbers
<1>5. a = Attempted(c, commits)
  BY DEF Attempted
<1> HIDE DEF n
<1>6. /\ a \in ToolCall /\ a.effects = n /\ a.transient = calls[c].transient /\ a.attempt = calls[c].attempt
      /\ a.rows = calls[c].rows /\ a.answer = calls[c].answer /\ a.at = calls[c].at /\ a.on = calls[c].on
  BY <1>1, <1>4 DEF ToolCall
<1> QED BY <1>2, <1>3, <1>4, <1>5, <1>6

LEMMA ToolTypedInit == ToolInit => ToolTyped
<1> SUFFICES ASSUME ToolInit PROVE ToolTyped
  OBVIOUS
<1>1. \A c \in ToolCallIds : calls[c] \in ToolCall /\ WayOf(calls[c])
  BY FreeCallTyped DEF ToolInit
<1>2. ToolTypeOK
  BY <1>1, ToolAssumption DEF ToolInit, ToolTypeOK
<1> QED BY <1>1, <1>2 DEF ToolTyped, CallShape

\* What a step does to the one call it is about.
LEMMA OneCallMoves ==
  ASSUME ToolTyped, NEW c \in ToolCallIds, NEW call, call \in ToolCall, WayOf(call),
         calls' = [calls EXCEPT ![c] = call]
  PROVE  calls' \in [ToolCallIds -> ToolCall] /\ CallShape'
<1>1. calls \in [ToolCallIds -> ToolCall] /\ \A d \in ToolCallIds : WayOf(calls[d])
  BY DEF ToolTyped, ToolTypeOK, CallShape
<1>2. \A d \in ToolCallIds : calls'[d] = IF d = c THEN call ELSE calls[d]
  BY <1>1
<1> QED BY <1>1, <1>2 DEF CallShape, WayOf

LEMMA CountedTyped ==
  ASSUME ToolTypeOK, NEW s \in ToolServers
  PROVE  Counted(s) \in [ToolServers -> [calls : 0..(ScanEvery - 1), checks : 0..(CheckEvery - 1)]]
<1>1. scans[s].calls \in 0..(ScanEvery - 1) /\ scans[s].checks \in 0..(CheckEvery - 1)
  BY DEF ToolTypeOK
<1>2. Advance(scans[s].calls, ScanEvery) \in 0..(ScanEvery - 1)
  BY <1>1, ToolAssumption DEF Advance
<1>3. Advance(scans[s].checks, CheckEvery) \in 0..(CheckEvery - 1)
  BY <1>1, ToolAssumption DEF Advance
<1> QED BY <1>1, <1>2, <1>3 DEF Counted, ToolTypeOK

LEMMA AfterHooksTyped ==
  ASSUME ToolTyped, NEW c \in ToolCallIds, calls[c].at = "hooks"
  PROVE  /\ Logged(calls[c]) \in ToolCall /\ WayOf(Logged(calls[c]))
         /\ Unlogged(calls[c]) \in ToolCall /\ WayOf(Unlogged(calls[c]))
<1>1. calls[c] \in ToolCall /\ WayOf(calls[c])
  BY DEF ToolTyped, ToolTypeOK, CallShape
<1>2. /\ calls[c].rows = 0 /\ calls[c].effects > 0 /\ calls[c].transient = calls[c].attempt
      /\ calls[c].effects <= calls[c].transient + 1
  BY <1>1 DEF WayOf
<1>3. Unlogged(calls[c]) \in ToolCall /\ WayOf(Unlogged(calls[c]))
  <2>1. Unlogged(calls[c]) = AnsweredWith(calls[c], "ok")
    BY DEF Unlogged, AnsweredWith
  <2> QED BY <1>1, <1>2, <2>1, IsAnswered DEF WayOf
<1>4. Logged(calls[c]) \in ToolCall /\ WayOf(Logged(calls[c]))
  BY <1>1, <1>2, LoggedTyped DEF WayOf
<1> QED BY <1>3, <1>4

LEMMA ToolTypedNext == ToolShape /\ [ToolNext]_toolVars => ToolTyped'
<1> SUFFICES ASSUME ToolTyped, OneGoalPerServer, [ToolNext]_toolVars PROVE ToolTyped'
  BY DEF ToolShape
<1> USE ToolAssumption
<1>a. ToolTypeOK /\ CallShape
  BY DEF ToolTyped
<1>b. ASSUME Outage PROVE outages' \in 0..MaxOutages
  BY <1>a, <1>b DEF Outage, ToolTypeOK
<1>c. ASSUME UNCHANGED <<scans, rested, pending, goals, declined>>, outages' \in 0..MaxOutages,
             calls' \in [ToolCallIds -> ToolCall]
      PROVE  ToolTypeOK'
  BY <1>a, <1>c DEF ToolTypeOK
<1>d. outages \in 0..MaxOutages
  BY <1>a DEF ToolTypeOK
<1>e. \A c \in ToolCallIds : calls[c].on \in ToolServers /\ calls[c] \in ToolCall /\ WayOf(calls[c])
  BY <1>a DEF ToolTypeOK, ToolCall, CallShape
<1>1. ASSUME NEW c \in ToolCallIds, NEW s \in ToolServers, StartCall(c, s) PROVE ToolTyped'
  <2> DEFINE call == [FreeCall(s) EXCEPT !.at = "ready"]
  <2>1. call \in ToolCall /\ WayOf(call)
    BY FreeCallTyped DEF FreeCall, ToolCall, Attempts, WayOf
  <2>2. calls' = [calls EXCEPT ![c] = call]
    BY <1>1 DEF StartCall
  <2> HIDE DEF call
  <2> QED BY <1>1, <1>c, <1>d, <2>1, <2>2, OneCallMoves DEF StartCall, ToolTyped
<1>2. ASSUME NEW c \in ToolCallIds, Succeed(c) PROVE ToolTyped'
  <2>0. PICK a \in ToolCall :
            /\ a = Attempted(c, TRUE) /\ a.effects <= a.transient + 1 /\ a.effects > 0
            /\ a.transient = a.attempt /\ a.rows = 0 /\ a.answer = "none"
    BY <1>2, AttemptedTyped DEF Succeed, Runs
  <2> DEFINE call == MovedTo(a, "hooks")
  <2>a. call \in ToolCall /\ call.at = "hooks" /\ call.answer = "none" /\ call.rows = 0
    BY <2>0, Moved
  <2>b. /\ call.effects = a.effects /\ call.transient = a.transient /\ call.attempt = a.attempt
    BY <2>0, Moved
  <2>2. calls' = [calls EXCEPT ![c] = call]
    BY <1>2, <2>0 DEF Succeed, MovedTo
  <2> HIDE DEF call
  <2>c. a.effects <= a.transient + 1 /\ a.effects > 0 /\ a.transient = a.attempt
    BY <2>0
  <2>1. call \in ToolCall /\ WayOf(call)
    BY <2>a, <2>b, <2>c DEF WayOf, ToolCall
  <2> QED BY <1>2, <1>c, <1>d, <2>1, <2>2, OneCallMoves DEF Succeed, ToolTyped
<1>3. ASSUME NEW c \in ToolCallIds, FailForGood(c) PROVE ToolTyped'
  <2>1. PICK commits \in BOOLEAN :
          calls' = [calls EXCEPT ![c] = [Attempted(c, commits) EXCEPT !.at = "done", !.answer = "error"]]
    BY <1>3 DEF FailForGood
  <2>a. PICK a \in ToolCall : 
            /\ a = Attempted(c, commits) /\ a.effects <= a.transient + 1
            /\ a.transient = a.attempt /\ a.rows = 0
    BY <1>3, AttemptedTyped DEF FailForGood, Runs
  <2> DEFINE call == AnsweredWith(a, "error")
  <2>2. call \in ToolCall /\ WayOf(call)
    BY <2>a, IsAnswered DEF WayOf
  <2>3. calls' = [calls EXCEPT ![c] = call]
    BY <2>1, <2>a DEF AnsweredWith
  <2> HIDE DEF call
  <2> QED BY <1>3, <1>b, <1>c, <2>2, <2>3, OneCallMoves DEF FailForGood, ToolTyped
<1>4. ASSUME NEW c \in ToolCallIds, FailForNow(c) PROVE ToolTyped'
  <2>1. PICK commits \in BOOLEAN :
          calls' = [calls EXCEPT ![c] = IF MayRetry(@) THEN Waiting(Transient(Attempted(c, commits)))
                                        ELSE GivenUp(Transient(Attempted(c, commits)))]
    BY <1>4 DEF FailForNow
  <2>a. PICK a \in ToolCall :
            /\ a = Attempted(c, commits) /\ a.effects <= a.transient + 1
            /\ a.transient = a.attempt /\ a.attempt = calls[c].attempt /\ a.rows = 0 /\ a.answer = "none"
            /\ a.at = "ready" 
    BY <1>4, AttemptedTyped DEF FailForNow, Runs
  <2> DEFINE again == Transient(a)
             waits == Waiting(again)
             gives == AnsweredWith(again, "retryable")
  <2>b. /\ again \in ToolCall /\ again.transient = a.attempt + 1 /\ again.attempt = a.attempt
        /\ again.effects <= again.transient /\ again.rows = 0 /\ again.answer = "none"
    BY <2>a, ToolNumbers, TransientTyped DEF ToolCall, Attempts
  <2> HIDE DEF again
  <2>e. MayRetry(calls[c]) =>
          /\ waits \in ToolCall /\ waits.at = "asleep" /\ waits.answer = "none" /\ waits.rows = 0
          /\ waits.effects <= waits.transient /\ waits.transient = waits.attempt
    BY <2>a, <2>b, WaitingTyped DEF MayRetry
  <2>d. /\ gives \in ToolCall /\ gives.at = "done" /\ gives.answer = "retryable"
        /\ gives.rows = again.rows
        /\ gives.effects = again.effects /\ gives.transient = again.transient
    BY <2>b, IsAnswered
  <2> HIDE DEF waits, gives
  <2>2. MayRetry(calls[c]) => waits \in ToolCall /\ WayOf(waits)
    BY <2>e DEF WayOf, ToolCall
  <2>c. ~MayRetry(calls[c]) => a.attempt = MaxRetries
    BY <2>a, ToolNumbers DEF MayRetry, ToolCall, Attempts
  <2>3. ~MayRetry(calls[c]) => gives \in ToolCall /\ WayOf(gives)
    BY <2>b, <2>c, <2>d DEF WayOf, ToolCall
  <2>4. calls' = [calls EXCEPT ![c] = IF MayRetry(calls[c]) THEN waits ELSE gives]
    BY <2>1, <2>a DEF waits, gives, again, GivenUp, AnsweredWith
  <2>5. CASE MayRetry(calls[c])
    <3>1. calls' = [calls EXCEPT ![c] = waits]
      BY <2>4, <2>5
    <3> QED BY <1>4, <1>b, <1>c, <2>2, <2>5, <3>1, OneCallMoves DEF FailForNow, ToolTyped
  <2>6. CASE ~MayRetry(calls[c])
    <3>1. calls' = [calls EXCEPT ![c] = gives]
      BY <2>4, <2>6
    <3> QED BY <1>4, <1>b, <1>c, <2>3, <2>6, <3>1, OneCallMoves DEF FailForNow, ToolTyped
  <2> QED BY <2>5, <2>6
<1>5. ASSUME NEW c \in ToolCallIds, WakeUp(c) PROVE ToolTyped'
  <2> DEFINE call == MovedTo(calls[c], "ready")
  <2>1. call \in ToolCall /\ WayOf(call)
    BY <1>5, <1>e, Moved DEF WakeUp, Runs, WayOf
  <2>2. calls' = [calls EXCEPT ![c] = call]
    BY <1>5 DEF WakeUp, MovedTo
  <2> HIDE DEF call
  <2> QED BY <1>5, <1>c, <1>d, <2>1, <2>2, OneCallMoves DEF WakeUp, ToolTyped
<1>6. ASSUME NEW c \in ToolCallIds, Cancel(c) PROVE ToolTyped'
  <2> DEFINE call == AnsweredWith(calls[c], "cancelled")
  <2>1. call \in ToolCall /\ WayOf(call)
    BY <1>6, <1>e, IsAnswered DEF Cancel, Runs, WayOf
  <2>2. calls' = [calls EXCEPT ![c] = call]
    BY <1>6 DEF Cancel, AnsweredWith
  <2> HIDE DEF call
  <2> QED BY <1>6, <1>b, <1>c, <2>1, <2>2, OneCallMoves DEF Cancel, ToolTyped
<1>7. ASSUME NEW c \in ToolCallIds, Hooks(c) PROVE ToolTyped'
  <2>1. calls' = [calls EXCEPT ![c] = Logged(calls[c])] /\ calls[c].at = "hooks"
    BY <1>7 DEF Hooks, Runs
  <2>2. calls' \in [ToolCallIds -> ToolCall] /\ CallShape'
    BY <2>1, AfterHooksTyped, OneCallMoves
  <2>3. scans' \in [ToolServers -> [calls : 0..(ScanEvery - 1), checks : 0..(CheckEvery - 1)]]
    BY <1>7, <1>a, <1>e, CountedTyped DEF Hooks
  <2>4. rested' \in [ToolServers -> 0..GoalCooldown]
    BY <1>7, <1>a, <1>e, ToolNumbers DEF Hooks, ToolTypeOK
  <2> QED BY <1>7, <1>a, <2>2, <2>3, <2>4 DEF Hooks, ToolTypeOK, ToolTyped
<1>8. ASSUME NEW c \in ToolCallIds, HooksFail(c) PROVE ToolTyped'
  <2>1. PICK call \in {Logged(calls[c]), Unlogged(calls[c])} : calls' = [calls EXCEPT ![c] = call]
    BY <1>8 DEF HooksFail
  <2>2. call \in ToolCall /\ WayOf(call)
    BY <1>8, <2>1, AfterHooksTyped DEF HooksFail
  <2>3. calls' \in [ToolCallIds -> ToolCall] /\ CallShape'
    BY <2>1, <2>2, OneCallMoves
  <2>4. scans' \in [ToolServers -> [calls : 0..(ScanEvery - 1), checks : 0..(CheckEvery - 1)]]
    BY <1>8, <1>a, <1>e, CountedTyped DEF HooksFail
  <2>5. rested' \in [ToolServers -> 0..GoalCooldown]
    BY <1>8, <1>a, <1>e, ToolNumbers DEF HooksFail, ToolTypeOK
  <2>6. outages' \in 0..MaxOutages
    BY <1>8, <1>b DEF HooksFail
  <2> QED BY <1>8, <1>a, <2>3, <2>4, <2>5, <2>6 DEF HooksFail, ToolTypeOK, ToolTyped
<1>9. ASSUME NEW c \in ToolCallIds, LookForGoal(c) PROVE ToolTyped'
  BY <1>9, <1>a, <1>e DEF LookForGoal, ToolTypeOK, CallShape, WayOf, ToolTyped
<1>10. ASSUME NEW c \in ToolCallIds, InsertGoal(c) PROVE ToolTyped'
  <2>1. calls' = [calls EXCEPT ![c] = Logged(calls[c])] /\ calls[c].at = "hooks"
    BY <1>10 DEF InsertGoal
  <2>2. calls' \in [ToolCallIds -> ToolCall] /\ CallShape'
    BY <2>1, AfterHooksTyped, OneCallMoves
  <2>3. scans' \in [ToolServers -> [calls : 0..(ScanEvery - 1), checks : 0..(CheckEvery - 1)]]
    BY <1>10, <1>a, <1>e, CountedTyped DEF InsertGoal
  <2>4. rested' \in [ToolServers -> 0..GoalCooldown]
    BY <1>10, <1>a DEF InsertGoal, ToolTypeOK
  <2>5. {g \in goals : g.by = calls[c].on} = {}
    BY <1>10 DEF InsertGoal, OneGoalPerServer
  <2>6. goals' = goals \cup {[by |-> calls[c].on, twin |-> 0]}
    BY <1>10, <2>5, FS_EmptySet DEF InsertGoal
  <2>7. \A g \in goals' : g.by \in ToolServers /\ g.twin \in Nat
    BY <1>a, <1>e, <2>6 DEF ToolTypeOK
  <2>8. pending' \subseteq ToolServers /\ UNCHANGED <<declined, outages>>
    BY <1>10, <1>a DEF InsertGoal, ToolTypeOK
  <2> QED BY <1>a, <2>2, <2>3, <2>4, <2>7, <2>8 DEF ToolTypeOK, ToolTyped
<1>11. ASSUME NEW c \in ToolCallIds, Forget(c) PROVE ToolTyped'
  <2>1. calls' = [calls EXCEPT ![c] = FreeCall(calls[c].on)]
    BY <1>11 DEF Forget
  <2> QED BY <1>11, <1>c, <1>d, <1>e, <2>1, FreeCallTyped, OneCallMoves DEF Forget, ToolTyped
<1>12. ASSUME NEW s \in ToolServers, Restart(s) PROVE ToolTyped'
  <2>1. \A c \in ToolCallIds : calls'[c] \in ToolCall /\ WayOf(calls'[c])
    BY <1>12, <1>e, FreeCallTyped DEF Restart
  <2>2. calls' \in [ToolCallIds -> ToolCall] /\ CallShape'
    BY <1>12, <2>1 DEF Restart, CallShape, WayOf
  <2>3. scans' \in [ToolServers -> [calls : 0..(ScanEvery - 1), checks : 0..(CheckEvery - 1)]]
    BY <1>12, <1>a DEF Restart, ToolTypeOK
  <2>4. rested' \in [ToolServers -> 0..GoalCooldown] /\ outages' \in 0..MaxOutages
    BY <1>12, <1>a, <1>b DEF Restart, ToolTypeOK
  <2> QED BY <1>12, <1>a, <2>2, <2>3, <2>4 DEF Restart, ToolTypeOK, ToolTyped
<1>13. ASSUME NEW g \in goals, FinishGoal(g) PROVE ToolTyped'
  BY <1>13, <1>a, <1>e DEF FinishGoal, ToolTypeOK, CallShape, WayOf, ToolTyped
<1>14. CASE QualityMoves
  BY <1>14, <1>a, <1>e DEF QualityMoves, ToolTypeOK, CallShape, WayOf, ToolTyped
<1>15. CASE Hour
  <2>1. rested' \in [ToolServers -> 0..GoalCooldown]
    BY <1>15, <1>a DEF Hour, ToolTypeOK
  <2> QED BY <1>15, <1>a, <1>e, <2>1 DEF Hour, ToolTypeOK, CallShape, WayOf, ToolTyped
<1>16. CASE UNCHANGED toolVars
  BY <1>16, <1>a, <1>e DEF toolVars, ToolTypeOK, CallShape, WayOf, ToolTyped
<1> QED BY <1>1, <1>2, <1>3, <1>4, <1>5, <1>6, <1>7, <1>8, <1>9, <1>10, <1>11, <1>12, <1>13, <1>14, <1>15, <1>16
        DEF ToolNext

\* A server that has looked and not yet inserted keeps every other call of its own
\* out, so nothing of it is there when it inserts.
LEMMA OneGoalNext == ToolShape /\ [ToolNext]_toolVars => OneGoalPerServer'
<1> SUFFICES ASSUME ToolTyped, OneGoalPerServer, [ToolNext]_toolVars PROVE OneGoalPerServer'
  BY DEF ToolShape
<1>1. ASSUME goals' \subseteq goals, pending' \subseteq pending PROVE OneGoalPerServer'
  BY <1>1 DEF OneGoalPerServer
<1>2. ASSUME NEW c \in ToolCallIds, LookForGoal(c) PROVE OneGoalPerServer'
  BY <1>2 DEF LookForGoal, ActiveGoals, OneGoalPerServer
<1>3. ASSUME NEW c \in ToolCallIds, InsertGoal(c) PROVE OneGoalPerServer'
  <2> DEFINE s == calls[c].on
             mine == [by |-> s, twin |-> Cardinality({g \in goals : g.by = s})]
  <2>1. s \in pending /\ pending' = pending \ {s} /\ goals' = goals \cup {mine} /\ mine.by = s
    BY <1>3 DEF InsertGoal
  <2> HIDE DEF s, mine
  <2> QED BY <2>1 DEF OneGoalPerServer
<1>4. ASSUME NEW c \in ToolCallIds, Hooks(c) \/ HooksFail(c) \/ Forget(c) \/ Cancel(c) \/ WakeUp(c)
      PROVE  goals' \subseteq goals /\ pending' \subseteq pending
  BY <1>4 DEF Hooks, HooksFail, Forget, Cancel, WakeUp
<1>5. ASSUME NEW c \in ToolCallIds, Succeed(c) \/ FailForGood(c) \/ FailForNow(c)
      PROVE  goals' \subseteq goals /\ pending' \subseteq pending
  BY <1>5 DEF Succeed, FailForGood, FailForNow
<1>6. ASSUME NEW s \in ToolServers, Restart(s) \/ \E c \in ToolCallIds : StartCall(c, s)
      PROVE  goals' \subseteq goals /\ pending' \subseteq pending
  BY <1>6 DEF Restart, StartCall
<1>7. CASE QualityMoves \/ Hour \/ UNCHANGED toolVars \/ \E g \in goals : FinishGoal(g)
  BY <1>1, <1>7 DEF QualityMoves, Hour, toolVars, FinishGoal
<1> QED BY <1>1, <1>2, <1>3, <1>4, <1>5, <1>6, <1>7 DEF ToolNext

LEMMA ToolShapeInit == ToolInit => ToolShape
  BY ToolTypedInit DEF ToolShape, ToolInit, OneGoalPerServer

LEMMA ToolShapeNext == ToolShape /\ [ToolNext]_toolVars => ToolShape'
  BY ToolTypedNext, OneGoalNext DEF ToolShape

\* The variables of ToolCalls keep their types.
THEOREM ToolTypeCorrect == ToolSpec => []ToolTypeOK
<1>1. ToolShape => ToolTypeOK
  BY DEF ToolShape, ToolTyped
<1> QED BY <1>1, ToolShapeInit, ToolShapeNext, PTL DEF ToolSpec

\* An answer tells how many attempts are behind it and whether they may have
\* written, whatever the number of retries (MiddlewareChain.wrap, should_retry).
THEOREM AnswersTell == ToolSpec => []AnswerTellsAttempts
<1>1. ToolShape => AnswerTellsAttempts
  <2> SUFFICES ASSUME ToolShape, NEW c \in ToolCallIds
               PROVE  LET call == calls[c] IN
                        /\ call.transient <= MaxRetries + 1 /\ call.effects <= call.transient + 1
                        /\ call.answer = "retryable" <=> call.transient = MaxRetries + 1
                        /\ call.rows > 0 => call.rows = 1 /\ call.answer = "ok" /\ call.effects > 0
    BY DEF AnswerTellsAttempts
  <2>1. calls[c] \in ToolCall /\ WayOf(calls[c])
    BY DEF ToolShape, ToolTyped, ToolTypeOK, CallShape
  <2> QED BY <2>1, ToolAssumption DEF ToolCall, Attempts, WayOf
<1> QED BY <1>1, ToolShapeInit, ToolShapeNext, PTL DEF ToolSpec

\* A server never owns two active goals of the objective (set_goal).
THEOREM GoalsAreOthers == ToolSpec => []OneGoalPerServer
<1>1. ToolShape => OneGoalPerServer
  BY DEF ToolShape
<1> QED BY <1>1, ToolShapeInit, ToolShapeNext, PTL DEF ToolSpec
-----------------------------------------------------------------------------
(* ConfigFiles *)

\* Causes that excuse a file whose settings are not those of its last edit.
Spoilt(f) == harm[f] \cap (IF f = "ide" THEN {"race"} ELSE {"race", "defaults", "failed"}) # {}

\* What a file says of its last edit, and what whoever is about to write it knows:
\* a process holds what the file held, unless an edit has overlapped since; an
\* editor has emptied the file it has open, unless that lost its name to a write.
FileShape(f) ==
  /\ content[f].is = "torn" =>
       (\E e \in editing : e.file = f /\ e.named) \/ harm[f] \cap {"editor", "power"} # {}
  /\ content[f].is = "whole" => content[f].settings = edits[f] \/ Spoilt(f)
  /\ content[f].is = "absent" => edits[f] = 0
  /\ f = "ide" => harm[f] \subseteq {"race", "editor"}
  /\ \A p \in ConfigProcs : held[p].file = f => held[p].settings = edits[f] \/ Spoilt(f)
  /\ \A e \in editing : e.file = f =>
       /\ edits[f] < MaxEdits /\ content[f].is # "absent"
       /\ e.named => content[f] = Torn
       /\ ~e.named \/ Holders(f) # {} => Spoilt(f)
  /\ \A e, d \in editing : e.file = f /\ d.file = f => e = d

HeldRecord == [file : ConfigFile, settings : 0..MaxEdits, at : {"read", "written"}, migrating : BOOLEAN]
HeldTyped == held \in [ConfigProcs -> {NotHeld} \cup HeldRecord]

ConfigTyped == ConfigTypeOK /\ HeldTyped
\* The installer flushes what it writes.
ConfigShape == ConfigTyped /\ "ide" \in synced /\ \A f \in ConfigFile : FileShape(f)

LEMMA ConfigTypedInit == ConfigInit => ConfigTyped
<1> SUFFICES ASSUME ConfigInit PROVE ConfigTyped
  OBVIOUS
<1>1. HeldTyped
  BY DEF ConfigInit, HeldTyped
<1>2. content \in [ConfigFile -> {Absent, Torn, NoObject} \cup {Whole(n, ours) : n \in 0..MaxEdits, ours \in BOOLEAN}]
  <2>1. 0 \in 0..MaxEdits /\ FALSE \in BOOLEAN
    BY ConfigAssumption
  <2> DEFINE Contents == {Absent, Torn, NoObject} \cup {Whole(n, ours) : n \in 0..MaxEdits, ours \in BOOLEAN}
  <2>2. \A n \in 0..MaxEdits, ours \in BOOLEAN : Whole(n, ours) \in Contents
    OBVIOUS
  <2>3. Absent \in Contents
    OBVIOUS
  <2> HIDE DEF Contents
  <2>4. Whole(0, FALSE) \in Contents
    BY <2>1, <2>2, Zenon
  <2>5. content \in [ConfigFile -> Contents]
    BY <2>3, <2>4 DEF ConfigInit
  <2> QED BY <2>5 DEF Contents
<1>3. harm \in [ConfigFile -> SUBSET {"race", "defaults", "failed", "editor", "power"}]
  BY DEF ConfigInit
<1> QED BY <1>1, <1>2, <1>3, ConfigAssumption DEF ConfigInit, ConfigTyped, ConfigTypeOK, HeldTyped

LEMMA ConfigShapeInit == ConfigInit => ConfigShape
<1> SUFFICES ASSUME ConfigInit PROVE ConfigShape
  OBVIOUS
<1>1. ConfigTyped
  BY ConfigTypedInit
<1>2. ASSUME NEW f \in ConfigFile PROVE FileShape(f)
  BY DEF ConfigInit, FileShape, Absent, Whole, NotHeld, ConfigFile
<1>3. "ide" \in synced
  BY DEF ConfigInit, ConfigFile
<1> QED BY <1>1, <1>2, <1>3 DEF ConfigShape

\* The kinds of content.
LEMMA ContentKinds ==
  ASSUME ConfigTypeOK, NEW f \in ConfigFile
  PROVE  /\ content[f].is \in {"absent", "torn", "other", "whole"} /\ content[f].settings \in 0..MaxEdits
         /\ content[f].is = "torn" => content[f] = Torn
         /\ content[f].is # "whole" => content[f].settings = 0
<1>1. content[f] \in {Absent, Torn, NoObject} \cup {Whole(n, ours) : n \in 0..MaxEdits, ours \in BOOLEAN}
  BY DEF ConfigTypeOK
<1>2. CASE content[f] = Absent
  BY <1>2, ConfigAssumption DEF Absent
<1>3. CASE content[f] = Torn
  BY <1>3, ConfigAssumption DEF Torn
<1>5. CASE content[f] = NoObject
  BY <1>5, ConfigAssumption DEF NoObject
<1>4. ASSUME NEW n \in 0..MaxEdits, NEW ours \in BOOLEAN, content[f] = Whole(n, ours)
      PROVE  content[f].is = "whole" /\ content[f].settings \in 0..MaxEdits
  BY <1>4 DEF Whole
<1> QED BY <1>1, <1>2, <1>3, <1>4, <1>5

LEMMA ConfigTypedNext == ConfigShape /\ [ConfigNext]_configVars => ConfigTyped'
<1> SUFFICES ASSUME ConfigShape, [ConfigNext]_configVars PROVE ConfigTyped'
  OBVIOUS
<1> DEFINE Contents == {Absent, Torn, NoObject} \cup {Whole(n, ours) : n \in 0..MaxEdits, ours \in BOOLEAN}
           Causes == {"race", "defaults", "failed", "editor", "power"}
<1>a. /\ content \in [ConfigFile -> Contents] /\ synced \subseteq ConfigFile
      /\ held \in [ConfigProcs -> {NotHeld} \cup HeldRecord] /\ editing \subseteq [file : ConfigFile, named : BOOLEAN]
      /\ edits \in [ConfigFile -> 0..MaxEdits] /\ configFaults \in 0..MaxConfigFaults
      /\ harm \in [ConfigFile -> SUBSET Causes]
  BY DEF ConfigShape, ConfigTyped, ConfigTypeOK, HeldTyped
<1>b. ASSUME content' \in [ConfigFile -> Contents], synced' \subseteq ConfigFile,
             held' \in [ConfigProcs -> {NotHeld} \cup HeldRecord],
             editing' \subseteq [file : ConfigFile, named : BOOLEAN],
             edits' \in [ConfigFile -> 0..MaxEdits], configFaults' \in 0..MaxConfigFaults,
             harm' \in [ConfigFile -> SUBSET Causes]
      PROVE  ConfigTyped'
  BY <1>b DEF ConfigTyped, ConfigTypeOK, HeldTyped, HeldRecord
<1>c. MaxEdits \in Nat /\ MaxConfigFaults \in Nat /\ "ide" \in ConfigFile /\ "profile" \in ConfigFile
  BY ConfigAssumption DEF ConfigFile
<1>d. \A f \in ConfigFile : content[f].settings \in 0..MaxEdits
  BY ContentKinds DEF ConfigShape, ConfigTyped
<1>e. ASSUME Fault PROVE configFaults' \in 0..MaxConfigFaults
  BY <1>a, <1>c, <1>e DEF Fault
<1>f. \A f \in ConfigFile, cause \in Causes : Harmed(f, cause) \in [ConfigFile -> SUBSET Causes]
  BY <1>a DEF Harmed
<1>g. Torn \in Contents /\ NoObject \in Contents /\ \A n \in 0..MaxEdits, ours \in BOOLEAN : Whole(n, ours) \in Contents
  OBVIOUS
<1>h. ASSUME NEW p \in ConfigProcs, held[p] # NotHeld
      PROVE  held[p].file \in ConfigFile /\ held[p].settings \in 0..MaxEdits /\ held[p].at \in {"read", "written"}
  BY <1>a, <1>h DEF HeldRecord
<1>i. \A f \in ConfigFile, n \in 0..MaxEdits, migrating \in BOOLEAN : Holding(f, n, migrating) \in HeldRecord
  BY DEF Holding, HeldRecord
<1>j. 0 \in 0..MaxEdits /\ Defaults \in HeldRecord
  <2>1. 0 \in 0..MaxEdits
    BY <1>c
  <2> QED BY <1>c, <1>i, <2>1 DEF Defaults
<1> HIDE DEF Contents
<1>k. ASSUME NEW f \in ConfigFile, NEW n \in 0..MaxEdits, Place(f, n)
      PROVE  content' \in [ConfigFile -> Contents] /\ synced' \subseteq ConfigFile
             /\ editing' \subseteq [file : ConfigFile, named : BOOLEAN]
  <2>0. \A e \in editing : e \in [file : ConfigFile, named : BOOLEAN]
    BY <1>a
  <2>1. \A e \in editing : [e EXCEPT !.named = FALSE] \in [file : ConfigFile, named : BOOLEAN]
    BY <2>0
  <2>2. editing' \subseteq [file : ConfigFile, named : BOOLEAN]
    BY <1>k, <2>0, <2>1, Zenon DEF Place
  <2>3. Whole(n, TRUE) \in Contents
    BY <1>g
  <2>4. content' \in [ConfigFile -> Contents]
    BY <1>a, <1>k, <2>3 DEF Place
  <2>5. synced' \subseteq ConfigFile
    BY <1>a, <1>k DEF Place
  <2> QED BY <2>2, <2>4, <2>5
<1>1. ASSUME NEW p \in ConfigProcs, LoadProfile(p) \/ ReadFails(p) \/ RenderIde(p) PROVE ConfigTyped'
  <2>1. PICK f \in ConfigFile, n \in 0..MaxEdits, migrating \in BOOLEAN :
          held' = [held EXCEPT ![p] = Holding(f, n, migrating)]
    <3>1. CASE LoadProfile(p)
      <4>1. (content["profile"].is \in {"whole", "other"}) \in BOOLEAN
        OBVIOUS
      <4> QED BY <1>c, <1>d, <3>1, <4>1 DEF LoadProfile
    <3>2. CASE ReadFails(p)
      BY <1>c, <1>j, <3>2 DEF ReadFails, Defaults
    <3>3. CASE RenderIde(p)
      BY <1>c, <1>d, <3>3 DEF RenderIde
    <3> QED BY <1>1, <3>1, <3>2, <3>3
  <2>2. held' \in [ConfigProcs -> {NotHeld} \cup HeldRecord]
    BY <2>1, <1>a, <1>i
  <2>3. harm' \in [ConfigFile -> SUBSET Causes]
    BY <1>1, <1>a, <1>c, <1>f DEF LoadProfile, ReadFails, RenderIde
  <2>4. configFaults' \in 0..MaxConfigFaults
    BY <1>1, <1>a, <1>e DEF LoadProfile, ReadFails, RenderIde
  <2> QED BY <1>1, <1>a, <1>b, <2>2, <2>3, <2>4 DEF LoadProfile, ReadFails, RenderIde
<1>2. ASSUME NEW p \in ConfigProcs, WriteTemporary(p) PROVE ConfigTyped'
  <2>1. held[p] # NotHeld
    BY <1>2 DEF WriteTemporary, NotHeld
  <2>2. held' \in [ConfigProcs -> {NotHeld} \cup HeldRecord]
    BY <1>2, <1>a, <2>1 DEF WriteTemporary, HeldRecord
  <2> QED BY <1>2, <1>a, <1>b, <2>2 DEF WriteTemporary
<1>3. ASSUME NEW p \in ConfigProcs, Replace(p) PROVE ConfigTyped'
  <2>1. held[p] # NotHeld
    BY <1>3 DEF Replace, NotHeld
  <2>2. held' \in [ConfigProcs -> {NotHeld} \cup HeldRecord]
    BY <1>3, <1>a DEF Replace
  <2> QED BY <1>3, <1>a, <1>b, <1>h, <1>k, <2>1, <2>2 DEF Replace
<1>s. ASSUME NEW p \in ConfigProcs, SaveFails(p) PROVE ConfigTyped'
  <2>1. held[p] # NotHeld
    BY <1>s DEF SaveFails, NotHeld
  <2>2. content' \in [ConfigFile -> Contents] /\ synced' \subseteq ConfigFile
        /\ editing' \subseteq [file : ConfigFile, named : BOOLEAN]
    BY <1>s, <1>a, <1>c, <1>h, <1>k, <2>1 DEF SaveFails
  <2>3. held' \in [ConfigProcs -> {NotHeld} \cup HeldRecord]
    BY <1>s, <1>a, <1>j DEF SaveFails
  <2>4. harm' \in [ConfigFile -> SUBSET Causes]
    BY <1>s, <1>a, <1>c, <1>f DEF SaveFails
  <2> QED BY <1>s, <1>a, <1>b, <1>e, <2>2, <2>3, <2>4 DEF SaveFails
<1>4. ASSUME NEW p \in ConfigProcs, GiveUpWriting(p) PROVE ConfigTyped'
  BY <1>4, <1>a, <1>b, <1>e DEF GiveUpWriting
<1>5. ASSUME NEW f \in ConfigFile, BeginEdit(f) PROVE ConfigTyped'
  <2>1. harm' \in [ConfigFile -> SUBSET Causes]
    BY <1>5, <1>a, <1>f DEF BeginEdit
  <2>2. content' \in [ConfigFile -> Contents]
    BY <1>5, <1>a, <1>g DEF BeginEdit
  <2>3. editing' \subseteq [file : ConfigFile, named : BOOLEAN]
    <3>1. [file |-> f, named |-> TRUE] \in [file : ConfigFile, named : BOOLEAN]
      OBVIOUS
    <3>2. editing' = editing \cup {[file |-> f, named |-> TRUE]}
      BY <1>5 DEF BeginEdit
    <3> QED BY <1>a, <3>1, <3>2, Zenon
  <2> QED BY <1>5, <1>a, <1>b, <2>1, <2>2, <2>3 DEF BeginEdit
<1>6. ASSUME NEW f \in ConfigFile, EndEdit(f) PROVE ConfigTyped'
  <2>1. PICK e \in editing :
         /\ e.file = f
         /\ editing' = editing \ {e}
         /\ edits' = [edits EXCEPT ![f] = @ + 1]
         /\ \/ /\ e.named
               /\ \E filled \in {NoObject, Whole(edits[f] + 1, TRUE), Whole(edits[f] + 1, FALSE)} :
                    content' = [content EXCEPT ![f] = filled]
               /\ synced' = synced \cup {f}
               /\ harm' = IF Holders(f) = {} THEN [harm EXCEPT ![f] = {}] ELSE harm
            \/ ~e.named /\ UNCHANGED <<content, synced, harm>>
         /\ UNCHANGED <<held, configFaults>>
    BY <1>6 DEF EndEdit
  <2>2. edits[f] + 1 \in 0..MaxEdits
    BY <1>a, <1>c, <2>1 DEF ConfigShape, FileShape
  <2>3. edits' \in [ConfigFile -> 0..MaxEdits]
    BY <1>a, <2>1, <2>2
  <2>6. \A filled \in {NoObject, Whole(edits[f] + 1, TRUE), Whole(edits[f] + 1, FALSE)} : filled \in Contents
    BY <1>g, <2>2
  <2>7. /\ content' = content \/ \E filled \in {NoObject, Whole(edits[f] + 1, TRUE), Whole(edits[f] + 1, FALSE)} :
                                   content' = [content EXCEPT ![f] = filled]
        /\ synced' = synced \/ synced' = synced \cup {f}
        /\ harm' = harm \/ harm' = [harm EXCEPT ![f] = {}]
    BY <2>1
  <2>4. content' \in [ConfigFile -> Contents]
    <3>1. content' = content \/ \E filled \in Contents : content' = [content EXCEPT ![f] = filled]
      BY <2>6, <2>7
    <3> QED BY <1>a, <3>1
  <2>5. synced' \subseteq ConfigFile /\ harm' \in [ConfigFile -> SUBSET Causes]
    BY <1>a, <2>7
  <2> QED BY <1>a, <1>b, <2>1, <2>3, <2>4, <2>5
<1>7. ASSUME NEW f \in ConfigFile, AbandonEdit(f) PROVE ConfigTyped'
  <2>1. harm' \in [ConfigFile -> SUBSET Causes]
    BY <1>7, <1>f DEF AbandonEdit
  <2>2. editing' \subseteq [file : ConfigFile, named : BOOLEAN] /\ configFaults' \in 0..MaxConfigFaults
    BY <1>7, <1>a, <1>e DEF AbandonEdit
  <2> QED BY <1>7, <1>a, <1>b, <2>1, <2>2 DEF AbandonEdit
<1>8. CASE PowerLoss
  <2>1. PICK lost \in SUBSET (ConfigFile \ synced) :
       /\ content' = [f \in ConfigFile |-> IF f \in lost THEN Torn ELSE content[f]]
       /\ harm' = [f \in ConfigFile |->
            harm[f] \cup (IF f \in lost THEN {"power"} ELSE {})
                    \cup (IF \E e \in editing : e.file = f THEN {"editor"} ELSE {})]
    BY <1>8 DEF PowerLoss
  <2>2. content' \in [ConfigFile -> Contents]
    BY <1>a, <1>g, <2>1
  <2>3. harm' \in [ConfigFile -> SUBSET Causes]
    BY <1>a, <2>1
  <2> QED BY <1>8, <1>a, <1>b, <1>e, <2>2, <2>3 DEF PowerLoss
<1>9. CASE UNCHANGED configVars
  BY <1>9, <1>a, <1>b DEF configVars
<1> QED BY <1>1, <1>2, <1>3, <1>s, <1>4, <1>5, <1>6, <1>7, <1>8, <1>9 DEF ConfigNext

\* A file that a step leaves alone, whoever stops holding it.
LEMMA FileUntouched ==
  ASSUME NEW f \in ConfigFile, FileShape(f), content'[f] = content[f], edits'[f] = edits[f],
         harm[f] \subseteq harm'[f], f = "ide" => harm'[f] \subseteq {"race", "editor"},
         \A p \in ConfigProcs : held'[p].file = f => held[p].file = f /\ held'[p].settings = held[p].settings,
         \A e : e.file = f => (e \in editing' <=> e \in editing)
  PROVE  FileShape(f)'
<1>1. Spoilt(f) => Spoilt(f)'
  BY DEF Spoilt
<1>2. Holders(f)' \subseteq Holders(f)
  BY DEF Holders
<1>3. harm[f] \cap {"editor", "power"} # {} => harm'[f] \cap {"editor", "power"} # {}
  OBVIOUS
<1>4. /\ content'[f].is = "torn" =>
            (\E e \in editing' : e.file = f /\ e.named) \/ harm'[f] \cap {"editor", "power"} # {}
      /\ content'[f].is = "whole" => content'[f].settings = edits'[f] \/ Spoilt(f)'
      /\ content'[f].is = "absent" => edits'[f] = 0
      /\ f = "ide" => harm'[f] \subseteq {"race", "editor"}
  BY <1>1, <1>3 DEF FileShape
<1>5. \A p \in ConfigProcs : held'[p].file = f => held'[p].settings = edits'[f] \/ Spoilt(f)'
  BY <1>1 DEF FileShape
<1>6. \A e \in editing' : e.file = f =>
       /\ edits'[f] < MaxEdits /\ content'[f].is # "absent"
       /\ e.named => content'[f] = Torn
       /\ ~e.named \/ Holders(f)' # {} => Spoilt(f)'
  BY <1>1, <1>2 DEF FileShape
<1>7. \A e, d \in editing' : e.file = f /\ d.file = f => e = d
  BY DEF FileShape
<1> QED BY <1>4, <1>5, <1>6, <1>7 DEF FileShape

LEMMA FileShapeNext == ConfigShape /\ [ConfigNext]_configVars => "ide" \in synced' /\ \A f \in ConfigFile : FileShape(f)'
<1> SUFFICES ASSUME ConfigShape, [ConfigNext]_configVars
             PROVE  "ide" \in synced' /\ \A f \in ConfigFile : FileShape(f)'
  OBVIOUS
<1> DEFINE Goal == "ide" \in synced' /\ \A f \in ConfigFile : FileShape(f)'
<1>a. /\ ConfigTyped /\ ConfigTyped' /\ "ide" \in synced /\ \A f \in ConfigFile : FileShape(f)
      /\ \A f \in ConfigFile : f = "ide" => harm[f] \subseteq {"race", "editor"}
  BY ConfigTypedNext DEF ConfigShape, FileShape
<1>b. \A p \in ConfigProcs : held[p] # NotHeld => held[p].file \in ConfigFile
  BY <1>a DEF ConfigTyped, HeldTyped, HeldRecord
<1>c. "profile" \in ConfigFile /\ "ide" \in ConfigFile /\ "profile" # "ide" /\ NotHeld.file \notin ConfigFile
  BY DEF ConfigFile, NotHeld
<1>d. held \in [ConfigProcs -> {NotHeld} \cup HeldRecord]
  BY <1>a DEF ConfigTyped, HeldTyped
<1>e. harm \in [ConfigFile -> SUBSET {"race", "defaults", "failed", "editor", "power"}]
  BY <1>a DEF ConfigTyped, ConfigTypeOK
\* One process takes hold of a file, or lets go; the files are as they were.
<1>w. ASSUME NEW p \in ConfigProcs, NEW g \in ConfigFile, NEW h,
             held' = [held EXCEPT ![p] = h], UNCHANGED <<content, synced, editing, edits>>,
             \A f \in ConfigFile \ {g} : harm'[f] = harm[f],
             harm[g] \subseteq harm'[g], g = "ide" => harm'[g] = harm[g],
             h.file \in ConfigFile => h.file = g /\ (h.settings = edits[g] \/ Spoilt(g)'),
             h.file = g => \A e \in editing : e.file = g => Spoilt(g)'
      PROVE  Goal
  <2>1. ASSUME NEW f \in ConfigFile, f # g PROVE FileShape(f)'
    <3>1. \A q \in ConfigProcs : held'[q].file = f => held[q].file = f /\ held'[q].settings = held[q].settings
      BY <1>w, <2>1, <1>d
    <3> QED BY <1>w, <2>1, <3>1, <1>a, FileUntouched
  <2>2. FileShape(g)'
    <3>1. Spoilt(g) => Spoilt(g)'
      BY <1>w DEF Spoilt
    <3>2. \A q \in ConfigProcs : held'[q].file = g => held'[q].settings = edits'[g] \/ Spoilt(g)'
      BY <1>w, <3>1, <1>a, <1>d DEF FileShape
    <3>3. Holders(g)' \subseteq Holders(g) \/ h.file = g
      BY <1>w, <1>d DEF Holders
    <3>4. \A e \in editing' : e.file = g =>
            /\ edits'[g] < MaxEdits /\ content'[g].is # "absent" /\ (e.named => content'[g] = Torn)
            /\ ~e.named \/ Holders(g)' # {} => Spoilt(g)'
      BY <1>w, <3>1, <3>3, <1>a DEF FileShape
    <3> QED BY <1>w, <3>1, <3>2, <3>4, <1>a DEF FileShape
  <2> QED BY <1>w, <2>1, <2>2, <1>a
\* A process puts its file in place, and holds the file on only to write defaults.
<1>v. ASSUME NEW p \in ConfigProcs, NEW g \in ConfigFile, g = held[p].file, Place(g, held[p].settings), NEW h,
             held' = [held EXCEPT ![p] = h], edits' = edits,
             \A f \in ConfigFile \ {g} : harm'[f] = harm[f],
             harm[g] \subseteq harm'[g], g = "ide" => harm'[g] = harm[g],
             h.file \in ConfigFile => h.file = g /\ Spoilt(g)'
      PROVE  Goal
  <2>1. /\ content' = [content EXCEPT ![g] = Whole(held[p].settings, TRUE)]
        /\ editing' = {e \in editing : e.file # g} \cup {[e EXCEPT !.named = FALSE] : e \in {d \in editing : d.file = g}}
    BY <1>v DEF Place
  <2>3. "ide" \in synced'
    BY <1>v, <1>a DEF Place
  <2>4. \A f \in ConfigFile : \A q \in ConfigProcs :
          held'[q].file = f => (held[q].file = f /\ held'[q] = held[q]) \/ (f = g /\ Spoilt(g)')
    BY <1>v, <1>d
  <2>5. \A e \in editing : [e EXCEPT !.named = FALSE].file = e.file /\ ~[e EXCEPT !.named = FALSE].named
    BY <1>a DEF ConfigTyped, ConfigTypeOK
  <2>6. ASSUME NEW f \in ConfigFile, f # g PROVE FileShape(f)'
    <3>1. \A e : e.file = f => (e \in editing' <=> e \in editing)
      BY <2>1, <2>5, <2>6
    <3>2. content'[f] = content[f]
      BY <2>1, <2>6, <1>a DEF ConfigTyped, ConfigTypeOK
    <3> QED BY <3>1, <3>2, <1>v, <2>4, <2>6, <1>a, FileUntouched
  <2>7. FileShape(g)'
    <3>1. content'[g].is = "whole" /\ content'[g].settings = held[p].settings
      BY <2>1, <1>a DEF ConfigTyped, ConfigTypeOK, Whole
    <3>2. p \in Holders(g)
      BY <1>v DEF Holders
    <3>3. held[p].settings = edits[g] \/ Spoilt(g)
      BY <1>v, <1>a DEF FileShape
    <3>4. Spoilt(g) => Spoilt(g)'
      BY <1>v DEF Spoilt
    <3>5. \A q \in ConfigProcs : held'[q].file = g => held'[q].settings = edits'[g] \/ Spoilt(g)'
      BY <1>v, <2>4, <3>4, <1>a DEF FileShape
    <3>6. \A e \in editing' : e.file = g =>
            /\ ~e.named
            /\ \E d \in editing : d.file = g /\ e = [d EXCEPT !.named = FALSE]
      BY <2>1, <2>5
    <3>7. \A e \in editing' : e.file = g => ~e.named /\ edits'[g] < MaxEdits /\ Spoilt(g)'
      BY <1>v, <3>2, <3>4, <3>6, <1>a DEF FileShape
    <3>8. \A e, d \in editing' : e.file = g /\ d.file = g => e = d
      BY <3>6, <1>a DEF FileShape
    <3>9. g = "ide" => harm'[g] \subseteq {"race", "editor"}
      BY <1>v, <1>a
    <3> QED BY <1>v, <3>1, <3>3, <3>4, <3>5, <3>7, <3>8, <3>9 DEF FileShape
  <2> QED BY <2>3, <2>6, <2>7
<1>x. /\ NotHeld.file \notin ConfigFile /\ Defaults.file = "profile" /\ Defaults.settings = 0
      /\ \A f, n, migrating : Holding(f, n, migrating).file = f /\ Holding(f, n, migrating).settings = n
  BY <1>c DEF Defaults, Holding
\* A load or a save of the profile that fails.
<1>y. ASSUME harm' = Harmed("profile", "failed")
      PROVE  Spoilt("profile")' /\ harm["profile"] \subseteq harm'["profile"]
             /\ \A f \in ConfigFile \ {"profile"} : harm'[f] = harm[f]
  BY <1>y, <1>c, <1>e DEF Harmed, Spoilt
<1>1. ASSUME NEW p \in ConfigProcs, NEW g \in ConfigFile,
             (g = "profile" /\ LoadProfile(p)) \/ (g = "ide" /\ RenderIde(p))
      PROVE  Goal
  <2>1. PICK migrating : held' = [held EXCEPT ![p] = Holding(g, content[g].settings, migrating)]
    BY <1>1, <1>c DEF LoadProfile, RenderIde
  <2>2. /\ UNCHANGED <<content, synced, editing, edits>>
        /\ harm' = (IF g = "profile" /\ content[g].is \in {"torn", "other"} THEN Harmed(g, "defaults") ELSE harm)
        /\ g = "ide" => content[g].is \notin {"torn", "other"}
    BY <1>1, <1>c DEF LoadProfile, RenderIde
  <2>3. /\ \A f \in ConfigFile \ {g} : harm'[f] = harm[f]
        /\ harm[g] \subseteq harm'[g] /\ (g = "ide" => harm'[g] = harm[g])
    BY <2>2, <1>e DEF Harmed
  <2>4. Spoilt(g) => Spoilt(g)'
    BY <2>3 DEF Spoilt
  <2>5. content[g].is \in {"torn", "other"} => Spoilt(g)'
    BY <2>2, <1>1, <1>c, <1>e DEF Harmed, Spoilt
  <2>6. content[g].settings = edits[g] \/ Spoilt(g)'
    BY <2>4, <2>5, <1>a, ContentKinds DEF FileShape, ConfigTyped
  <2>7. \A e \in editing : e.file = g => Spoilt(g)'
    BY <2>4, <2>5, <1>a DEF FileShape, Torn
  <2> DEFINE h == Holding(g, content[g].settings, migrating)
  <2>8. h.file = g /\ h.settings = content[g].settings /\ held' = [held EXCEPT ![p] = h]
    BY <2>1, <1>x
  <2> HIDE DEF h, Goal
  <2> QED BY <1>w, <2>2, <2>3, <2>6, <2>7, <2>8
<1>r. ASSUME NEW p \in ConfigProcs, ReadFails(p) PROVE Goal
  <2>1. held' = [held EXCEPT ![p] = Defaults] /\ harm' = Harmed("profile", "failed")
        /\ UNCHANGED <<content, synced, editing, edits>>
    BY <1>r DEF ReadFails
  <2> HIDE DEF Goal
  <2> QED BY <1>c, <1>w, <1>x, <1>y, <2>1
<1>2. ASSUME NEW p \in ConfigProcs, WriteTemporary(p) \/ GiveUpWriting(p) PROVE Goal
  <2>1. UNCHANGED <<content, synced, editing, edits, harm>>
    BY <1>2 DEF WriteTemporary, GiveUpWriting
  <2>2. \A f \in ConfigFile : \A q \in ConfigProcs :
          held'[q].file = f => held[q].file = f /\ held'[q].settings = held[q].settings
    <3>1. CASE held' = [held EXCEPT ![p].at = "written"] /\ held[p].at = "read"
      <4>1. held[p].at # NotHeld.at
        BY <3>1 DEF NotHeld
      <4>2. held'[p].file = held[p].file /\ held'[p].settings = held[p].settings
        BY <3>1, <4>1, <1>d DEF HeldRecord
      <4> QED BY <3>1, <4>2, <1>d
    <3>2. CASE held' = [held EXCEPT ![p] = NotHeld]
      BY <3>2, <1>c, <1>d
    <3> QED BY <1>2, <3>1, <3>2 DEF WriteTemporary, GiveUpWriting
  <2> QED BY <2>1, <2>2, <1>a, FileUntouched
<1>3. ASSUME NEW p \in ConfigProcs, Replace(p) PROVE Goal
  <2>0. held[p] # NotHeld
    BY <1>3 DEF Replace, NotHeld
  <2>1. PICK g \in ConfigFile : g = held[p].file
    BY <2>0, <1>b
  <2>2. Place(g, held[p].settings) /\ held' = [held EXCEPT ![p] = NotHeld] /\ edits' = edits /\ harm' = harm
    BY <1>3, <2>1 DEF Replace
  <2> HIDE DEF Goal
  <2> QED BY <1>v, <1>x, <2>1, <2>2
<1>s. ASSUME NEW p \in ConfigProcs, SaveFails(p) PROVE Goal
  <2>1. PICK h \in {Defaults, NotHeld} :
          /\ held' = [held EXCEPT ![p] = h]
          /\ (h = Defaults /\ harm' = Harmed("profile", "failed")) \/ (h = NotHeld /\ harm' = harm)
    BY <1>s DEF SaveFails
  <2>2. /\ h.file \in ConfigFile => h.file = "profile" /\ Spoilt("profile")'
        /\ \A f \in ConfigFile \ {"profile"} : harm'[f] = harm[f]
        /\ harm["profile"] \subseteq harm'["profile"]
    BY <2>1, <1>c, <1>x, <1>y
  <2>3. held[p].file = "profile" /\ edits' = edits
    BY <1>s DEF SaveFails
  <2>4. CASE Place("profile", held[p].settings)
    <3> HIDE DEF Goal
    <3> QED BY <1>c, <1>v, <2>1, <2>2, <2>3, <2>4
  <2>5. CASE UNCHANGED <<content, synced, editing>>
    <3> HIDE DEF Goal
    <3> QED BY <1>c, <1>w, <2>1, <2>2, <2>3, <2>5
  <2> QED BY <1>s, <2>4, <2>5 DEF SaveFails
<1>4. ASSUME NEW g \in ConfigFile, BeginEdit(g) PROVE Goal
  <2> DEFINE mine == [file |-> g, named |-> TRUE]
  <2>1. /\ edits[g] < MaxEdits /\ \A e \in editing : e.file # g
        /\ content' = [content EXCEPT ![g] = Torn] /\ editing' = editing \cup {mine}
        /\ harm' = (IF Holders(g) # {} THEN Harmed(g, "race") ELSE harm)
        /\ UNCHANGED <<synced, held, edits>>
    BY <1>4 DEF BeginEdit
  <2>2. mine.file = g /\ mine.named
    OBVIOUS
  <2> HIDE DEF mine
  <2>3. /\ \A f \in ConfigFile : harm[f] \subseteq harm'[f] /\ (f # g => harm'[f] = harm[f])
        /\ harm'[g] \subseteq harm[g] \cup {"race"} /\ (Holders(g) # {} => "race" \in harm'[g])
    BY <2>1, <1>e DEF Harmed
  <2>4. \A f \in ConfigFile : f = "ide" => harm'[f] \subseteq {"race", "editor"}
    BY <2>3, <1>a
  <2>5. ASSUME NEW f \in ConfigFile, f # g PROVE FileShape(f)'
    <3>1. \A e : e.file = f => (e \in editing' <=> e \in editing)
      BY <2>1, <2>2, <2>5
    <3>2. content'[f] = content[f]
      BY <2>1, <2>5, <1>a DEF ConfigTyped, ConfigTypeOK
    <3> QED BY <3>1, <3>2, <2>1, <2>3, <2>4, <1>a, FileUntouched
  <2>6. FileShape(g)'
    <3>1. content'[g] = Torn
      BY <2>1, <1>a DEF ConfigTyped, ConfigTypeOK
    <3>2. Holders(g)' = Holders(g) /\ (Holders(g) # {} => Spoilt(g)')
      BY <2>1, <2>3 DEF Holders, Spoilt
    <3>3. \A q \in ConfigProcs : held'[q].file = g => held'[q].settings = edits'[g] \/ Spoilt(g)'
      BY <2>1, <3>2 DEF Holders
    <3>4. \A e \in editing' : e.file = g => e = mine
      BY <2>1
    <3>5. mine \in editing'
      BY <2>1
    <3> QED BY <2>1, <2>2, <2>4, <3>1, <3>2, <3>3, <3>4, <3>5 DEF FileShape, Torn
  <2> QED BY <2>1, <2>5, <2>6, <1>a
<1>5. ASSUME NEW g \in ConfigFile, EndEdit(g) PROVE Goal
  <2>1. PICK e \in editing :
         /\ e.file = g
         /\ editing' = editing \ {e}
         /\ edits' = [edits EXCEPT ![g] = @ + 1]
         /\ \/ /\ e.named
               /\ \E filled \in {NoObject, Whole(edits[g] + 1, TRUE), Whole(edits[g] + 1, FALSE)} :
                    content' = [content EXCEPT ![g] = filled]
               /\ synced' = synced \cup {g}
               /\ harm' = IF Holders(g) = {} THEN [harm EXCEPT ![g] = {}] ELSE harm
            \/ ~e.named /\ UNCHANGED <<content, synced, harm>>
         /\ UNCHANGED held
    BY <1>5 DEF EndEdit
  <2>2. \A d \in editing' : d.file # g
    BY <2>1, <1>a DEF FileShape
  <2>3. "ide" \in synced'
    BY <2>1, <1>a
  <2>4. edits[g] \in Nat /\ edits'[g] = edits[g] + 1
    BY <2>1, <1>a, ConfigAssumption DEF ConfigTyped, ConfigTypeOK
  <2>5. ASSUME NEW f \in ConfigFile, f # g PROVE FileShape(f)'
    <3>1. \A d : d.file = f => (d \in editing' <=> d \in editing)
      BY <2>1, <2>5
    <3>2. content'[f] = content[f]
      <4>1. content' = content \/ \E filled : content' = [content EXCEPT ![g] = filled]
        BY <2>1
      <4> QED BY <2>5, <4>1, <1>a DEF ConfigTyped, ConfigTypeOK
    <3>3. edits'[f] = edits[f] /\ harm'[f] = harm[f]
      <4>1. /\ edits' = [edits EXCEPT ![g] = edits[g] + 1]
            /\ harm' = harm \/ harm' = [harm EXCEPT ![g] = {}]
        BY <2>1
      <4> QED BY <2>5, <4>1, <1>a DEF ConfigTyped, ConfigTypeOK
    <3> QED BY <3>1, <3>2, <3>3, <2>1, <1>a, FileUntouched
  <2>6. Holders(g)' = Holders(g) /\ (~e.named \/ Holders(g) # {} => Spoilt(g))
    BY <2>1, <1>a DEF Holders, FileShape
  <2>7. CASE e.named
    <3>1. content'[g].is = "other" \/ (content'[g].is = "whole" /\ content'[g].settings = edits'[g])
      BY <2>1, <2>4, <2>7, <1>a DEF ConfigTyped, ConfigTypeOK, Whole, NoObject
    <3>2. Holders(g) # {} => Spoilt(g)'
      BY <2>1, <2>6, <2>7 DEF Spoilt
    <3>3. \A q \in ConfigProcs : held'[q].file = g => held'[q].settings = edits'[g] \/ Spoilt(g)'
      BY <2>1, <3>2 DEF Holders
    <3>4. g = "ide" => harm'[g] \subseteq {"race", "editor"}
      BY <2>1, <2>7, <1>a, <1>e
    <3> QED BY <2>2, <2>3, <2>5, <3>1, <3>3, <3>4 DEF FileShape
  <2>8. CASE ~e.named
    <3>1. UNCHANGED <<content, synced, harm, held>> /\ Spoilt(g)'
      BY <2>1, <2>6, <2>8 DEF Spoilt
    <3>2. content[g].is # "absent"
      BY <2>1, <1>a DEF FileShape
    <3>3. \A d \in editing : d.file = g => ~d.named
      BY <2>1, <2>8, <1>a DEF FileShape
    <3> QED BY <2>2, <2>3, <2>5, <3>1, <3>2, <3>3, <1>a DEF FileShape
  <2> QED BY <2>7, <2>8
<1>6. ASSUME NEW g \in ConfigFile, AbandonEdit(g) PROVE Goal
  <2>1. PICK e \in editing : e.file = g /\ editing' = editing \ {e} /\ harm' = Harmed(g, "editor")
    BY <1>6 DEF AbandonEdit
  <2>2. UNCHANGED <<content, synced, held, edits>>
    BY <1>6 DEF AbandonEdit
  <2>3. /\ \A f \in ConfigFile : harm[f] \subseteq harm'[f] /\ (f # g => harm'[f] = harm[f])
        /\ harm'[g] = harm[g] \cup {"editor"}
    BY <2>1, <1>e DEF Harmed
  <2>4. \A f \in ConfigFile : f = "ide" => harm'[f] \subseteq {"race", "editor"}
    BY <2>3, <1>a
  <2>5. ASSUME NEW f \in ConfigFile, f # g PROVE FileShape(f)'
    <3>1. \A d : d.file = f => (d \in editing' <=> d \in editing)
      BY <2>1, <2>5
    <3> QED BY <3>1, <2>2, <2>3, <2>4, <1>a, FileUntouched
  <2>6. FileShape(g)'
    <3>1. \A d \in editing' : d.file # g
      BY <2>1, <1>a DEF FileShape
    <3>2. Spoilt(g) => Spoilt(g)'
      BY <2>3 DEF Spoilt
    <3> QED BY <2>2, <2>3, <2>4, <3>1, <3>2, <1>a DEF FileShape
  <2> QED BY <2>2, <2>5, <2>6, <1>a
<1>7. CASE PowerLoss
  <2>1. PICK lost \in SUBSET (ConfigFile \ synced) :
       /\ content' = [f \in ConfigFile |-> IF f \in lost THEN Torn ELSE content[f]]
       /\ harm' = [f \in ConfigFile |->
            harm[f] \cup (IF f \in lost THEN {"power"} ELSE {})
                    \cup (IF \E e \in editing : e.file = f THEN {"editor"} ELSE {})]
    BY <1>7 DEF PowerLoss
  <2>2. held' = [p \in ConfigProcs |-> NotHeld] /\ editing' = {} /\ synced' = ConfigFile /\ edits' = edits
    BY <1>7 DEF PowerLoss
  <2>3. ASSUME NEW f \in ConfigFile PROVE FileShape(f)'
    <3>1. /\ content'[f] = (IF f \in lost THEN Torn ELSE content[f]) /\ harm[f] \subseteq harm'[f]
          /\ f \in lost => "power" \in harm'[f]
          /\ (\E e \in editing : e.file = f) => "editor" \in harm'[f]
      BY <2>1
    <3>2. f = "ide" => f \notin lost /\ harm'[f] \subseteq {"race", "editor"}
      BY <2>1, <1>a
    <3>3. Spoilt(f) => Spoilt(f)'
      BY <3>1 DEF Spoilt
    <3>4. content'[f].is = "torn" => harm'[f] \cap {"editor", "power"} # {}
      BY <3>1, <1>a DEF FileShape
    <3>5. content'[f].is = "whole" => content'[f].settings = edits'[f] \/ Spoilt(f)'
      BY <2>2, <3>1, <3>3, <1>a DEF FileShape, Torn
    <3>6. content'[f].is = "absent" => edits'[f] = 0
      BY <2>2, <3>1, <1>a DEF FileShape, Torn
    <3> QED BY <2>2, <3>2, <3>4, <3>5, <3>6, <1>c DEF FileShape
  <2> QED BY <2>2, <2>3, <1>c
<1>8. CASE UNCHANGED configVars
  <2>1. UNCHANGED <<content, synced, held, editing, edits, harm>>
    BY <1>8 DEF configVars
  <2> QED BY <2>1, <1>a, FileUntouched
<1>9. PowerLoss \/ UNCHANGED configVars => Goal
  BY <1>7, <1>8
<1> HIDE DEF Goal
<1>10. Goal
  <2>1. ASSUME NEW p \in ConfigProcs, LoadProfile(p) PROVE Goal
    BY <1>1, <1>c, <2>1
  <2>2. ASSUME NEW p \in ConfigProcs, RenderIde(p) PROVE Goal
    BY <1>1, <1>c, <2>2
  <2> QED BY <2>1, <2>2, <1>2, <1>3, <1>r, <1>s, <1>4, <1>5, <1>6, <1>9 DEF ConfigNext
<1> QED BY <1>10 DEF Goal

LEMMA ConfigShapeNext == ConfigShape /\ [ConfigNext]_configVars => ConfigShape'
  BY ConfigTypedNext, FileShapeNext DEF ConfigShape

\* The variables of ConfigFiles keep their types.
THEOREM ConfigTypeCorrect == ConfigSpec => []ConfigTypeOK
<1>1. ConfigShape => ConfigTypeOK
  BY DEF ConfigShape, ConfigTyped
<1> QED BY <1>1, ConfigShapeInit, ConfigShapeNext, PTL DEF ConfigSpec

\* However many servers, installers and edits there are, settings are lost in the
\* five named ways only (_load_or_create_config, _save_config, install_to_target).
THEOREM SettingsAreKept == ConfigSpec => []SettingsKept
<1>1. ConfigShape => SettingsKept
  BY DEF ConfigShape, FileShape, SettingsKept, Spoilt
<1> QED BY <1>1, ConfigShapeInit, ConfigShapeNext, PTL DEF ConfigSpec
-----------------------------------------------------------------------------
(* HubAccess *)

\* A set of numbers that has every smaller one too is the interval of its size.
LEMMA InitialSegment ==
  ASSUME NEW n \in Nat, NEW T \in SUBSET (1..n), \A i \in T : \A j \in 1..i : j \in T
  PROVE  Cardinality(T) \in 0..n /\ T = 1..Cardinality(T)
<1>1. IsFiniteSet(1..n) /\ Cardinality(1..n) = n
  BY FS_Interval
<1>2. IsFiniteSet(T) /\ Cardinality(T) \in Nat /\ Cardinality(T) <= n
  BY <1>1, FS_Subset, FS_CardinalityType
<1>3. ASSUME NEW i \in T PROVE i \in 1..Cardinality(T)
  <2>1. 1..i \in SUBSET T /\ i \in Nat
    OBVIOUS
  <2>2. Cardinality(1..i) = i
    BY <2>1, FS_Interval
  <2>3. i <= Cardinality(T)
    BY <1>2, <2>1, <2>2, FS_Subset
  <2> QED BY <1>2, <2>3
<1>4. T \in SUBSET (1..Cardinality(T))
  BY <1>3
<1>5. IsFiniteSet(1..Cardinality(T)) /\ Cardinality(1..Cardinality(T)) = Cardinality(T)
  BY <1>2, FS_Interval
<1>6. T = 1..Cardinality(T)
  BY <1>4, <1>5, FS_Subset
<1> QED BY <1>2, <1>6

\* What _check_rate_limit leaves is a tail that begins at a time in the window; all
\* before it are older.
LEMMA RecentIsTail ==
  ASSUME NEW times \in Seq(Nat), now \in Nat
  PROVE  \E k \in 0..Len(times) :
           /\ Recent(times) \in Seq(Nat) /\ Len(Recent(times)) = Len(times) - k
           /\ \A i \in 1..(Len(times) - k) : Recent(times)[i] = times[k + i]
           /\ \A i \in 1..k : times[i] < now - RateWindow
           /\ k < Len(times) => times[k + 1] >= now - RateWindow
<1> DEFINE T == Evicted(times)
           k == Cardinality(T)
<1>1. Len(times) \in Nat /\ DOMAIN times = 1..Len(times) /\ \A i \in 1..Len(times) : times[i] \in Nat
  BY LenProperties, ElementOfSeq
<1>2. T \in SUBSET (1..Len(times)) /\ \A i \in T : \A j \in 1..i : j \in T
  BY <1>1 DEF Evicted
<1>3. k \in 0..Len(times) /\ T = 1..k
  BY <1>1, <1>2, InitialSegment
<1>4. \A i \in 1..k : times[i] < now - RateWindow
  BY <1>3 DEF Evicted
<1>5. k < Len(times) => times[k + 1] >= now - RateWindow
  <2> SUFFICES ASSUME k < Len(times), ~(times[k + 1] >= now - RateWindow) PROVE FALSE
    OBVIOUS
  <2>1. k + 1 \in 1..Len(times) /\ times[k + 1] < now - RateWindow
    BY <1>1, <1>3, HubAssumption
  <2>2. \A j \in 1..(k + 1) : times[j] < now - RateWindow
    BY <1>3, <1>4, <2>1
  <2>3. k + 1 \in T
    BY <1>1, <2>1, <2>2 DEF Evicted
  <2> QED BY <1>3, <2>3
<1>6. Recent(times) = SubSeq(times, k + 1, Len(times))
  BY DEF Recent
<1> DEFINE len == Len(times)
<1> HIDE DEF k, T, len
<1>a. len \in Nat /\ k \in 0..len /\ k \in Int /\ len - (k + 1) + 1 = len - k
  BY <1>1, <1>3 DEF len
<1>7. \A i \in (k + 1)..Len(times) : times[i] \in Nat
  BY <1>1, <1>3
<1>8. /\ Recent(times) \in Seq(Nat)
      /\ Len(Recent(times)) = IF k + 1 <= len THEN len - (k + 1) + 1 ELSE 0
      /\ \A i \in 1..(len - (k + 1) + 1) : Recent(times)[i] = times[(k + 1) + i - 1]
  BY <1>1, <1>3, <1>6, <1>7, SubSeqProperties DEF len
<1>9. Len(Recent(times)) = len - k
  BY <1>a, <1>8
<1>10. \A i \in 1..(len - k) : Recent(times)[i] = times[k + i]
  <2> TAKE i \in 1..(len - k)
  <2>1. i \in 1..(len - (k + 1) + 1) /\ (k + 1) + i - 1 = k + i
    BY <1>a
  <2> QED BY <1>8, <2>1
<1> QED BY <1>3, <1>4, <1>5, <1>8, <1>9, <1>10 DEF len

\* The deque of an address holds the end of what was let through, and what it has
\* dropped is older than a window.
LimiterShape(a) ==
  LET times == limiter[a]
      old == Len(admitted[a]) - Len(times)
  IN /\ old \in Nat /\ Len(times) <= RateMax
     /\ \A i \in 1..Len(times) : times[i] = admitted[a][old + i]
     /\ \A i \in 1..old : admitted[a][i] < now - RateWindow
     /\ \A i, j \in 1..Len(admitted[a]) : i <= j => admitted[a][i] <= admitted[a][j]
     /\ \A i \in 1..Len(admitted[a]) : admitted[a][i] \in 0..now
     /\ refused[a] \subseteq 0..now

\* WindowBound and RefusedOnlyWhenFull, of one address.
BoundOf(a) ==
  \A i, j \in 1..Len(admitted[a]) : j - i >= RateMax => admitted[a][j] - admitted[a][i] > RateWindow
Window(a, t) == {i \in DOMAIN admitted[a] : admitted[a][i] \in (t - RateWindow)..t}
FullOf(a) == \A t \in refused[a] : Cardinality(Window(a, t)) >= RateMax

LimiterTyped ==
  /\ now \in 0..MaxHubTime
  /\ limiter \in [Addresses -> Seq(Nat)] /\ admitted \in [Addresses -> Seq(Nat)]
  /\ refused \in [Addresses -> SUBSET Nat]
LimiterOf(a) == LimiterShape(a) /\ BoundOf(a) /\ FullOf(a)
LimiterInv == LimiterTyped /\ \A a \in Addresses : LimiterOf(a)

LEMMA HubNumbers ==
  RateWindow \in Nat /\ MaxHubTime \in Nat /\ MaxHubRequests \in Nat /\ RateMax \in Nat \ {0}
  BY HubAssumption

LEMMA WindowFinite ==
  ASSUME LimiterTyped, NEW a \in Addresses, NEW t
  PROVE  IsFiniteSet(Window(a, t)) /\ Window(a, t) \subseteq 1..Len(admitted[a]) /\ Len(admitted[a]) \in Nat
<1>1. Len(admitted[a]) \in Nat /\ DOMAIN admitted[a] = 1..Len(admitted[a])
  BY LenProperties DEF LimiterTyped
<1>2. Window(a, t) \in SUBSET (1..Len(admitted[a]))
  BY <1>1 DEF Window
<1>3. IsFiniteSet(1..Len(admitted[a]))
  <2> DEFINE n == Len(admitted[a])
  <2>1. 1 \in Int /\ n \in Int
    BY <1>1
  <2> HIDE DEF n
  <2>2. IsFiniteSet(1..n)
    BY <2>1, FS_Interval
  <2> QED BY <2>2 DEF n
<1>4. IsFiniteSet(Window(a, t))
  BY <1>2, <1>3, FS_Subset
<1> QED BY <1>1, <1>2, <1>4

LEMMA LimiterInit == HubInit => LimiterInv
<1> SUFFICES ASSUME HubInit PROVE LimiterInv
  OBVIOUS
<1>1. LimiterTyped
  BY HubNumbers, EmptySeq DEF HubInit, LimiterTyped
<1>2. ASSUME NEW a \in Addresses PROVE LimiterOf(a)
  <2>1. limiter[a] = <<>> /\ admitted[a] = <<>> /\ refused[a] = {} /\ Len(<<>>) = 0
    BY DEF HubInit
  <2> QED BY <2>1, HubNumbers DEF LimiterOf, LimiterShape, BoundOf, FullOf
<1> QED BY <1>1, <1>2 DEF LimiterInv

\* What eviction does to the deque of an address.
LEMMA EvictionKeepsShape ==
  ASSUME LimiterTyped, NEW a \in Addresses, LimiterShape(a)
  PROVE  LET times == Recent(limiter[a])
             old == Len(admitted[a]) - Len(times)
         IN /\ times \in Seq(Nat) /\ Len(times) \in Nat /\ Len(times) <= RateMax
            /\ old \in Nat
            /\ \A i \in 1..Len(times) : times[i] = admitted[a][old + i]
            /\ \A i \in 1..old : admitted[a][i] < now - RateWindow
            /\ \A i \in (old + 1)..Len(admitted[a]) : admitted[a][i] \in (now - RateWindow)..now
<1> DEFINE times == Recent(limiter[a])
           n == Len(admitted[a])
           old == n - Len(limiter[a])
<1>1. now \in Nat /\ limiter[a] \in Seq(Nat) /\ admitted[a] \in Seq(Nat)
  BY HubNumbers DEF LimiterTyped
<1>2. Len(limiter[a]) \in Nat /\ n \in Nat /\ old \in Nat /\ Len(limiter[a]) <= RateMax
  BY <1>1, LenProperties DEF LimiterShape
<1>3. PICK k \in 0..Len(limiter[a]) :
        /\ times \in Seq(Nat) /\ Len(times) = Len(limiter[a]) - k
        /\ \A i \in 1..(Len(limiter[a]) - k) : times[i] = limiter[a][k + i]
        /\ \A i \in 1..k : limiter[a][i] < now - RateWindow
        /\ k < Len(limiter[a]) => limiter[a][k + 1] >= now - RateWindow
  BY <1>1, RecentIsTail
<1> DEFINE m == Len(limiter[a])
<1>a. n \in Nat /\ m \in Nat /\ old \in Nat /\ n = old + m /\ k \in 0..m /\ Len(times) = m - k
  BY <1>2, <1>3
<1>b. now \in Nat /\ RateWindow \in Nat
  BY <1>1, HubNumbers
<1> HIDE DEF times, n, old, m
<1>4. \A i \in 1..m : limiter[a][i] = admitted[a][old + i]
  BY DEF LimiterShape, m, old, n
<1>5. \A i \in 1..old : admitted[a][i] < now - RateWindow
  BY DEF LimiterShape, m, old, n
<1>6. \A i, j \in 1..n : i <= j => admitted[a][i] <= admitted[a][j]
  BY DEF LimiterShape, n
<1>7. \A i \in 1..n : admitted[a][i] \in 0..now
  BY DEF LimiterShape, n
<1>8. n - Len(times) = old + k /\ Len(times) \in Nat /\ Len(times) <= RateMax
  BY <1>a, <1>2, <1>3, HubNumbers
<1>9. \A i \in 1..Len(times) : times[i] = admitted[a][(old + k) + i]
  <2> TAKE i \in 1..Len(times)
  <2>1. k + i \in 1..m /\ old + (k + i) = (old + k) + i
    BY <1>a
  <2>2. times[i] = limiter[a][k + i]
    BY <1>3, <1>a DEF m
  <2> QED BY <1>4, <2>1, <2>2
<1>10. \A i \in 1..(old + k) : admitted[a][i] < now - RateWindow
  <2> TAKE i \in 1..(old + k)
  <2>1. CASE i <= old
    BY <1>a, <1>5, <2>1
  <2>2. CASE i > old
    <3>1. i - old \in 1..k /\ i - old \in 1..m /\ old + (i - old) = i
      BY <1>a, <2>2
    <3> QED BY <1>3, <1>4, <3>1
  <2> QED BY <1>a, <2>1, <2>2
<1>11. \A i \in (old + k + 1)..n : admitted[a][i] \in (now - RateWindow)..now
  <2> TAKE i \in (old + k + 1)..n
  <2>1. k < m /\ i \in 1..n /\ old + k + 1 \in 1..n /\ k + 1 \in 1..m
    BY <1>a
  <2>2. admitted[a][old + k + 1] >= now - RateWindow
    <3>1. limiter[a][k + 1] = admitted[a][old + (k + 1)]
      BY <1>4, <2>1
    <3>2. old + (k + 1) = old + k + 1
      BY <1>a
    <3> QED BY <1>3, <2>1, <3>1, <3>2 DEF m
  <2>3. admitted[a][old + k + 1] <= admitted[a][i] /\ admitted[a][i] \in 0..now /\ admitted[a][old + k + 1] \in 0..now
    BY <1>a, <1>6, <1>7, <2>1
  <2> QED BY <1>b, <2>2, <2>3
<1>12. \A i \in 1..(n - Len(times)) : admitted[a][i] < now - RateWindow
  BY <1>8, <1>10
<1>13. \A i \in ((n - Len(times)) + 1)..n : admitted[a][i] \in (now - RateWindow)..now
  BY <1>8, <1>11
<1>14. \A i \in 1..Len(times) : times[i] = admitted[a][(n - Len(times)) + i]
  BY <1>8, <1>9
<1>15. n - Len(times) \in Nat
  BY <1>8, <1>a
<1> QED BY <1>3, <1>8, <1>12, <1>13, <1>14, <1>15 DEF times, n

LEMMA LimiterTypedNext == LimiterInv /\ [HubNext]_hubVars => LimiterTyped'
<1> SUFFICES ASSUME LimiterInv, [HubNext]_hubVars PROVE LimiterTyped'
  OBVIOUS
<1>a. /\ now \in 0..MaxHubTime /\ now \in Nat
      /\ limiter \in [Addresses -> Seq(Nat)] /\ admitted \in [Addresses -> Seq(Nat)]
      /\ refused \in [Addresses -> SUBSET Nat] /\ LimiterTyped
  BY HubNumbers DEF LimiterInv, LimiterTyped
<1>b. \A a \in Addresses : Recent(limiter[a]) \in Seq(Nat)
  BY <1>a, RecentIsTail
<1>c. ASSUME NEW a \in Addresses, Admitted(a), UNCHANGED <<now, refused>> PROVE LimiterTyped'
  <2>1. Append(Recent(limiter[a]), now) \in Seq(Nat) /\ Append(admitted[a], now) \in Seq(Nat)
    BY <1>a, <1>b, AppendProperties
  <2>2. limiter' = [limiter EXCEPT ![a] = Append(Recent(limiter[a]), now)]
    BY <1>c DEF Admitted
  <2>3. admitted' = [admitted EXCEPT ![a] = Append(admitted[a], now)]
    BY <1>c DEF Admitted
  <2> QED BY <1>a, <1>c, <2>1, <2>2, <2>3 DEF LimiterTyped
<1>1. ASSUME NEW q \in Requests, NEW a \in Addresses, Refuse(q, a) PROVE LimiterTyped'
  <2>1. limiter' = [limiter EXCEPT ![a] = Recent(limiter[a])]
    BY <1>1 DEF Refuse
  <2>2. refused' = [refused EXCEPT ![a] = refused[a] \cup {now}] /\ UNCHANGED <<now, admitted>>
    BY <1>1 DEF Refuse
  <2> QED BY <1>a, <1>b, <2>1, <2>2 DEF LimiterTyped
<1>2. ASSUME NEW q \in Requests, NEW a \in Addresses, Reject(q, a) PROVE LimiterTyped'
  BY <1>2, <1>c DEF Reject
<1>3. ASSUME NEW q \in Requests, NEW a \in Addresses, NEW client, NEW kind, Enter(q, a, client, kind)
      PROVE  LimiterTyped'
  BY <1>3, <1>c DEF Enter
<1>4. ASSUME NEW q \in Requests, WriteUser(q) \/ WriteSkill(q) \/ WriteFails(q) PROVE LimiterTyped'
  BY <1>4, <1>a DEF WriteUser, WriteSkill, WriteFails, hubHistory, LimiterTyped
<1>5. CASE Second
  BY <1>5, <1>a, HubNumbers DEF Second, hubHistory, LimiterTyped
<1>6. CASE RestartHub
  BY <1>6, <1>a, EmptySeq DEF RestartHub, LimiterTyped
<1>7. CASE UNCHANGED hubVars
  BY <1>7, <1>a DEF hubVars, hubHistory, LimiterTyped
<1> QED BY <1>1, <1>2, <1>3, <1>4, <1>5, <1>6, <1>7 DEF HubNext

\* The deque of an address when a request of it is refused ...
LEMMA RefusedKeepsLimiter ==
  ASSUME LimiterTyped, NEW a \in Addresses, LimiterOf(a), NEW q, Refuse(q, a)
  PROVE  LimiterOf(a)'
<1> DEFINE times == Recent(limiter[a])
           old == Len(admitted[a]) - Len(times)
           n == Len(admitted[a])
<1>1. /\ limiter'[a] = times /\ admitted'[a] = admitted[a] /\ now' = now
      /\ refused'[a] = refused[a] \cup {now} /\ Len(times) >= RateMax
  BY DEF Refuse, LimiterTyped
<1>2. /\ times \in Seq(Nat) /\ Len(times) \in Nat /\ Len(times) <= RateMax /\ old \in Nat
      /\ \A i \in 1..Len(times) : times[i] = admitted[a][old + i]
      /\ \A i \in 1..old : admitted[a][i] < now - RateWindow
      /\ \A i \in (old + 1)..n : admitted[a][i] \in (now - RateWindow)..now
  BY EvictionKeepsShape DEF LimiterOf
<1>3. LimiterShape(a)'
  <2>1. now \in Nat /\ now \in 0..now
    BY HubNumbers DEF LimiterTyped
  <2> QED BY <1>1, <1>2, <2>1 DEF LimiterOf, LimiterShape
<1>4. BoundOf(a)'
  BY <1>1 DEF LimiterOf, BoundOf
<1>5. Cardinality(Window(a, now)) >= RateMax
  <2> DEFINE l == Len(times)
  <2>1. n \in Nat /\ DOMAIN admitted[a] = 1..n
    BY LenProperties DEF LimiterTyped
  <2>2. l \in Nat /\ old \in Nat /\ old = n - l /\ l >= RateMax
    BY <1>1, <1>2
  <2>3. \A i \in (old + 1)..n : admitted[a][i] \in (now - RateWindow)..now
    BY <1>2
  <2>4. IsFiniteSet(Window(a, now)) /\ Cardinality(Window(a, now)) \in Nat
    BY WindowFinite, FS_CardinalityType
  <2> HIDE DEF l, old, n
  <2>5. old + 1 \in Int /\ n \in Int /\ (old + 1 > n => l = 0) /\ n - (old + 1) + 1 = l
    BY <2>1, <2>2
  <2>6. (old + 1)..n \subseteq Window(a, now)
    <3>1. (old + 1)..n \subseteq 1..n
      BY <2>1, <2>2
    <3> QED BY <2>1, <2>3, <3>1 DEF Window
  <2>7. Cardinality((old + 1)..n) = l
    BY <2>5, FS_Interval
  <2>8. l <= Cardinality(Window(a, now))
    BY <2>4, <2>6, <2>7, FS_Subset
  <2> HIDE DEF Window
  <2> QED BY <2>2, <2>4, <2>8, HubNumbers
<1>6. \A t : Window(a, t)' = Window(a, t)
  BY <1>1 DEF Window
<1>7. FullOf(a)'
  BY <1>1, <1>5, <1>6 DEF FullOf, LimiterOf
<1> QED BY <1>3, <1>4, <1>7 DEF LimiterOf

\* ... and when it is let through.
LEMMA AdmittedKeepsLimiter ==
  ASSUME LimiterTyped, NEW a \in Addresses, LimiterOf(a), Admitted(a), UNCHANGED <<now, refused>>
  PROVE  LimiterOf(a)'
<1> DEFINE times == Recent(limiter[a])
           n == Len(admitted[a])
           old == n - Len(times)
<1>1. /\ limiter'[a] = Append(times, now) /\ admitted'[a] = Append(admitted[a], now)
      /\ Len(times) < RateMax /\ refused'[a] = refused[a] /\ now' = now
  BY DEF Admitted, LimiterTyped
<1>2. /\ times \in Seq(Nat) /\ Len(times) \in Nat /\ old \in Nat
      /\ \A i \in 1..Len(times) : times[i] = admitted[a][old + i]
      /\ \A i \in 1..old : admitted[a][i] < now - RateWindow
  BY EvictionKeepsShape DEF LimiterOf
<1>3. admitted[a] \in Seq(Nat) /\ now \in Nat /\ n \in Nat
  BY LenProperties, HubNumbers DEF LimiterTyped
<1>4. /\ Len(admitted'[a]) = n + 1 /\ admitted'[a][n + 1] = now
      /\ \A i \in 1..n : admitted'[a][i] = admitted[a][i]
      /\ DOMAIN admitted'[a] = 1..(n + 1)
  BY <1>1, <1>3, AppendProperties, LenProperties
<1>5. /\ Len(limiter'[a]) = Len(times) + 1 /\ limiter'[a][Len(times) + 1] = now
      /\ \A i \in 1..Len(times) : limiter'[a][i] = times[i]
  BY <1>1, <1>2, <1>3, AppendProperties
<1>6. /\ \A i, j \in 1..n : i <= j => admitted[a][i] <= admitted[a][j]
      /\ \A i \in 1..n : admitted[a][i] \in 0..now
      /\ refused[a] \subseteq 0..now
  BY DEF LimiterOf, LimiterShape
<1> DEFINE adm == admitted'[a]
           l == Len(times)
<1>a. n \in Nat /\ l \in Nat /\ old \in Nat /\ n = old + l /\ now \in Nat /\ now' = now /\ l < RateMax
  BY <1>1, <1>2, <1>3
<1>b. \A i \in 1..n : adm[i] = admitted[a][i] /\ adm[i] \in 0..now
  BY <1>4, <1>6
<1>c. adm[n + 1] = now
  BY <1>4
<1>d. \A i \in 1..l : times[i] = admitted[a][old + i]
  BY <1>2
<1>e. \A i \in 1..old : admitted[a][i] < now - RateWindow
  BY <1>2
<1>f. \A i \in 1..l : limiter'[a][i] = times[i]
  BY <1>5
<1>g. limiter'[a][l + 1] = now /\ Len(limiter'[a]) = l + 1 /\ Len(adm) = n + 1
  BY <1>4, <1>5
<1>h. \A i, j \in 1..n : i <= j => admitted[a][i] <= admitted[a][j]
  BY <1>6
<1> HIDE DEF times, n, old, l
<1>7. LimiterShape(a)'
  <2>1. (n + 1) - (l + 1) = old /\ l + 1 <= RateMax
    BY <1>a, HubNumbers
  <2>2. \A i \in 1..(l + 1) : limiter'[a][i] = adm[old + i]
    <3> TAKE i \in 1..(l + 1)
    <3>1. CASE i \in 1..l
      <4>1. old + i \in 1..n
        BY <1>a, <3>1
      <4> QED BY <3>1, <4>1, <1>b, <1>d, <1>f
    <3>2. CASE i = l + 1
      <4>1. old + i = n + 1
        BY <1>a, <3>2
      <4> QED BY <3>2, <4>1, <1>c, <1>g
    <3> QED BY <1>a, <3>1, <3>2
  <2>3. \A i \in 1..old : adm[i] < now' - RateWindow
    <3> TAKE i \in 1..old
    <3>1. i \in 1..n
      BY <1>a
    <3> QED BY <3>1, <1>a, <1>b, <1>e
  <2>4. \A i \in 1..(n + 1) : adm[i] \in 0..now'
    BY <1>a, <1>b, <1>c
  <2>5. \A i, j \in 1..(n + 1) : i <= j => adm[i] <= adm[j]
    <3> SUFFICES ASSUME NEW i \in 1..(n + 1), NEW j \in 1..(n + 1), i <= j PROVE adm[i] <= adm[j]
      OBVIOUS
    <3>1. CASE j \in 1..n
      <4>1. i \in 1..n
        BY <1>a, <3>1
      <4> QED BY <3>1, <4>1, <1>b, <1>h
    <3>2. CASE j = n + 1
      BY <1>a, <1>c, <2>4, <3>2
    <3> QED BY <1>a, <3>1, <3>2
  <2> QED BY <2>1, <2>2, <2>3, <2>4, <2>5, <1>1, <1>6, <1>a, <1>g DEF LimiterShape
<1>8. BoundOf(a)'
  <2> SUFFICES ASSUME NEW i \in 1..(n + 1), NEW j \in 1..(n + 1), j - i >= RateMax
               PROVE  adm[j] - adm[i] > RateWindow
    BY <1>g DEF BoundOf
  <2>1. i \in 1..n
    BY <1>a, HubNumbers
  <2>2. CASE j \in 1..n
    <3>1. \A x, y \in 1..n : y - x >= RateMax => admitted[a][y] - admitted[a][x] > RateWindow
      BY DEF LimiterOf, BoundOf, n
    <3> QED BY <1>b, <2>1, <2>2, <3>1
  <2>3. CASE j = n + 1
    <3>1. i \in 1..old
      BY <1>a, <2>3, HubNumbers
    <3>2. adm[i] < now - RateWindow /\ adm[i] \in 0..now
      BY <1>b, <1>e, <2>1, <3>1
    <3> QED BY <1>a, <1>c, <2>3, <3>2, HubNumbers
  <2> QED BY <1>a, <2>2, <2>3
<1>9. FullOf(a)'
  <2> SUFFICES ASSUME NEW t \in refused[a]
               PROVE  Cardinality({i \in DOMAIN admitted'[a] : admitted'[a][i] \in (t - RateWindow)..t}) >= RateMax
    BY <1>1 DEF FullOf, Window
  <2> DEFINE after == {i \in DOMAIN admitted'[a] : admitted'[a][i] \in (t - RateWindow)..t}
  <2>1. Cardinality(Window(a, t)) >= RateMax
    BY DEF LimiterOf, FullOf
  <2>2. Window(a, t) \subseteq after
    <3>1. DOMAIN admitted[a] = 1..n
      BY <1>3, LenProperties DEF n
    <3>2. 1..n \subseteq 1..(n + 1)
      BY <1>a
    <3> QED BY <1>4, <1>b, <3>1, <3>2 DEF Window, n
  <2>3. IsFiniteSet(after)
    <3>1. after \in SUBSET (1..(n + 1))
      BY <1>4 DEF n
    <3>2. n + 1 \in Int /\ 1 \in Int
      BY <1>a
    <3>3. IsFiniteSet(1..(n + 1))
      BY <3>2, FS_Interval
    <3> QED BY <3>1, <3>3, FS_Subset
  <2>4. Cardinality(Window(a, t)) <= Cardinality(after) /\ IsFiniteSet(Window(a, t))
    BY <2>2, <2>3, FS_Subset
  <2>5. Cardinality(Window(a, t)) \in Nat /\ Cardinality(after) \in Nat
    BY <2>3, <2>4, FS_CardinalityType
  <2> QED BY <2>1, <2>4, <2>5, HubNumbers
<1> QED BY <1>7, <1>8, <1>9 DEF LimiterOf

\* Nothing happens to an address but that the clock moves on.
LEMMA IdleKeepsLimiter ==
  ASSUME LimiterTyped, NEW a \in Addresses, LimiterOf(a), now' \in Nat, now <= now',
         limiter'[a] = limiter[a], admitted'[a] = admitted[a], refused'[a] = refused[a]
  PROVE  LimiterOf(a)'
<1>a. now \in Nat /\ RateWindow \in Nat /\ Len(admitted[a]) \in Nat /\ Len(limiter[a]) \in Nat
  BY HubNumbers, LenProperties DEF LimiterTyped
<1> DEFINE old == Len(admitted[a]) - Len(limiter[a])
<1>1. /\ old \in Nat
      /\ \A i \in 1..old : admitted[a][i] < now - RateWindow
      /\ \A i \in 1..Len(admitted[a]) : admitted[a][i] \in 0..now
      /\ refused[a] \subseteq 0..now
  BY DEF LimiterOf, LimiterShape
<1>b. \A i \in 1..old : i \in 1..Len(admitted[a])
  <2> DEFINE n == Len(admitted[a])
             m == Len(limiter[a])
  <2>1. n \in Nat /\ m \in Nat /\ old \in Nat /\ old = n - m
    BY <1>1, <1>a
  <2> HIDE DEF n, m, old
  <2>2. \A i \in 1..old : i \in 1..n
    BY <2>1
  <2> QED BY <2>2 DEF n
<1>2. \A i \in 1..old : admitted[a][i] < now' - RateWindow
  <2> TAKE i \in 1..old
  <2>1. admitted[a][i] \in 0..now /\ admitted[a][i] < now - RateWindow
    BY <1>1, <1>b
  <2> QED BY <1>a, <2>1
<1>3. 0..now \subseteq 0..now'
  BY <1>a
<1>4. LimiterShape(a)'
  BY <1>1, <1>2, <1>3 DEF LimiterOf, LimiterShape
<1>5. BoundOf(a)'
  BY DEF LimiterOf, BoundOf
<1>6. FullOf(a)'
  BY DEF LimiterOf, FullOf, Window
<1> QED BY <1>4, <1>5, <1>6 DEF LimiterOf

LEMMA LimiterNext == LimiterInv /\ [HubNext]_hubVars => LimiterInv'
<1> SUFFICES ASSUME LimiterInv, [HubNext]_hubVars, NEW b \in Addresses PROVE LimiterOf(b)'
  BY LimiterTypedNext DEF LimiterInv
<1>a. LimiterTyped /\ LimiterOf(b) /\ now \in Nat
  BY HubNumbers DEF LimiterInv, LimiterTyped
<1>1. ASSUME NEW q \in Requests, NEW a \in Addresses, Refuse(q, a) PROVE LimiterOf(b)'
  <2>1. CASE a = b
    BY <1>1, <1>a, <2>1, RefusedKeepsLimiter
  <2>2. CASE a # b
    <3>1. limiter'[b] = limiter[b] /\ admitted'[b] = admitted[b] /\ refused'[b] = refused[b] /\ now' = now
      BY <1>1, <1>a, <2>2 DEF Refuse, LimiterTyped
    <3> QED BY <1>a, <3>1, IdleKeepsLimiter
  <2> QED BY <2>1, <2>2
<1>2. ASSUME NEW a \in Addresses, Admitted(a), UNCHANGED <<now, refused>> PROVE LimiterOf(b)'
  <2>1. CASE a = b
    BY <1>2, <1>a, <2>1, AdmittedKeepsLimiter
  <2>2. CASE a # b
    <3>1. limiter'[b] = limiter[b] /\ admitted'[b] = admitted[b] /\ refused'[b] = refused[b] /\ now' = now
      BY <1>2, <1>a, <2>2 DEF Admitted, LimiterTyped
    <3> QED BY <1>a, <3>1, IdleKeepsLimiter
  <2> QED BY <2>1, <2>2
<1>3. ASSUME NEW q \in Requests, NEW a \in Addresses, Reject(q, a) PROVE LimiterOf(b)'
  BY <1>2, <1>3 DEF Reject
<1>4. ASSUME NEW q \in Requests, NEW a \in Addresses, NEW client, NEW kind, Enter(q, a, client, kind)
      PROVE  LimiterOf(b)'
  BY <1>2, <1>4 DEF Enter
<1>5. CASE UNCHANGED <<now, limiter, admitted, refused>>
  BY <1>5, <1>a, IdleKeepsLimiter
<1>6. ASSUME NEW q \in Requests, WriteUser(q) \/ WriteSkill(q) \/ WriteFails(q) PROVE LimiterOf(b)'
  BY <1>5, <1>6 DEF WriteUser, WriteSkill, WriteFails, hubHistory
<1>7. CASE Second
  <2>1. now' \in Nat /\ now <= now' /\ UNCHANGED <<limiter, admitted, refused>>
    BY <1>7, <1>a DEF Second, hubHistory
  <2> QED BY <1>a, <2>1, IdleKeepsLimiter
<1>8. CASE RestartHub
  <2>1. limiter'[b] = <<>> /\ admitted'[b] = <<>> /\ refused'[b] = {} /\ Len(<<>>) = 0
    BY <1>8 DEF RestartHub
  <2> QED BY <2>1, HubNumbers DEF LimiterOf, LimiterShape, BoundOf, FullOf
<1>9. CASE UNCHANGED hubVars
  BY <1>5, <1>9 DEF hubVars, hubHistory
<1> QED BY <1>1, <1>3, <1>4, <1>6, <1>7, <1>8, <1>9 DEF HubNext

\* The rate limiter lets through at most RateMax requests of an address in any stretch
\* of a window, and refuses nobody unless as many were let through within one
\* (_check_rate_limit).
THEOREM LimiterIsExact == HubSpec => []LimiterExact
<1>1. LimiterInv => LimiterExact
  <2> SUFFICES ASSUME LimiterInv PROVE LimiterExact
    OBVIOUS
  <2>1. \A a \in Addresses : DOMAIN admitted[a] = 1..Len(admitted[a])
    BY LenProperties DEF LimiterInv, LimiterTyped
  <2>2. WindowBound
    BY <2>1 DEF LimiterInv, LimiterOf, BoundOf, WindowBound
  <2>3. RefusedOnlyWhenFull
    BY DEF LimiterInv, LimiterOf, FullOf, Window, RefusedOnlyWhenFull
  <2> QED BY <2>2, <2>3 DEF LimiterExact
<1> QED BY <1>1, LimiterInit, LimiterNext, PTL DEF HubSpec

\* A registration of this user is under way.
Registers(q, u) == requests[q].at = "write" /\ requests[q].kind = "register" /\ requests[q].actor = u

\* Until two registrations of a user overlap, the one under way holds a time that is
\* no earlier than any that was written.
RegistryTyped ==
  /\ now \in 0..MaxHubTime /\ arrived \in 0..MaxHubRequests
  /\ requests \in [Requests -> {FreeRequest} \cup HubRequest]
  /\ \A q \in Requests : requests[q].at = "write" => requests[q].time <= now
  /\ DOMAIN users \subseteq Actors /\ DOMAIN latest = DOMAIN users
  /\ \A u \in DOMAIN users : users[u] \in [registered : 0..now, seen : 0..now] /\ latest[u] \in 0..now
  /\ skills \subseteq [owner : Actors, shared : 0..now]
OneAtATime(u) ==
  \A q, r \in Requests : Registers(q, u) /\ Registers(r, u) => q = r
NotBehind(u) ==
  \A q \in Requests : Registers(q, u) /\ u \in DOMAIN users => latest[u] <= requests[q].time
SeenNewest(u) ==
  u \in DOMAIN users => users[u].seen = latest[u] /\ users[u].registered <= users[u].seen
SeenOf(u) == u \in overlapped \/ (OneAtATime(u) /\ NotBehind(u) /\ SeenNewest(u))
RegistryInv == RegistryTyped /\ \A u \in Actors : SeenOf(u)

LEMMA RegistryInit == HubInit => RegistryInv
<1> SUFFICES ASSUME HubInit PROVE RegistryInv
  OBVIOUS
<1>1. DOMAIN users = {} /\ DOMAIN latest = {}
  BY DEF HubInit
<1>2. \A q \in Requests : requests[q] = FreeRequest /\ requests[q].at # "write"
  BY DEF HubInit, FreeRequest
<1>3. RegistryTyped
  BY <1>1, <1>2, HubNumbers DEF HubInit, RegistryTyped
<1>4. \A u \in Actors : SeenOf(u)
  BY <1>1, <1>2 DEF SeenOf, OneAtATime, NotBehind, SeenNewest, Registers
<1> QED BY <1>3, <1>4 DEF RegistryInv

LEMMA RequestIs ==
  ASSUME RegistryTyped, NEW q \in Requests, requests[q].at = "write"
  PROVE  /\ requests[q] \in HubRequest /\ requests[q].actor \in Actors
         /\ requests[q].time \in 0..now
<1>1. requests[q] # FreeRequest
  BY DEF FreeRequest
<1>2. requests[q] \in HubRequest
  BY <1>1 DEF RegistryTyped
<1>3. requests[q].actor \in Actors /\ requests[q].time \in 0..MaxHubTime
  BY <1>2 DEF HubRequest
<1> QED BY <1>2, <1>3, HubNumbers DEF RegistryTyped

\* A request that is done with leaves everybody else's as they were.
LEMMA FreedTyped ==
  ASSUME RegistryTyped, NEW q \in Requests, requests' = [requests EXCEPT ![q] = FreeRequest]
  PROVE  /\ requests' \in [Requests -> {FreeRequest} \cup HubRequest]
         /\ \A r \in Requests : requests'[r].at = "write" => r # q /\ requests'[r] = requests[r]
         /\ \A r \in Requests : requests'[r].at = "write" => requests'[r].time <= now
  BY DEF RegistryTyped, FreeRequest

LEMMA RegistryTypedNext == RegistryTyped /\ [HubNext]_hubVars => RegistryTyped'
<1> SUFFICES ASSUME RegistryTyped, [HubNext]_hubVars PROVE RegistryTyped'
  OBVIOUS
<1> USE HubNumbers
<1>1. ASSUME NEW q \in Requests, NEW a \in Addresses, Refuse(q, a) \/ Reject(q, a) PROVE RegistryTyped'
  BY <1>1 DEF Refuse, Reject, Arrives, RegistryTyped
<1>2. ASSUME NEW q \in Requests, NEW a \in Addresses, NEW client \in Clients,
             NEW kind \in {"register", "share"}, Enter(q, a, client, kind)
      PROVE  RegistryTyped'
  <2>1. /\ requests' = [requests EXCEPT ![q] =
              [at |-> "write", kind |-> kind, actor |-> ActorOf(client), time |-> now]]
        /\ UNCHANGED <<now, users, skills, latest>> /\ arrived' \in 0..MaxHubRequests
    BY <1>2 DEF Enter, Arrives, RegistryTyped
  <2>2. ActorOf(client) \in Actors
    BY DEF ActorOf, Actors
  <2>3. [at |-> "write", kind |-> kind, actor |-> ActorOf(client), time |-> now] \in HubRequest
    BY <2>2 DEF HubRequest, RegistryTyped
  <2>4. requests' \in [Requests -> {FreeRequest} \cup HubRequest]
    BY <2>1, <2>3 DEF RegistryTyped
  <2>5. \A r \in Requests : requests'[r].at = "write" => requests'[r].time <= now
    BY <2>1 DEF RegistryTyped
  <2> QED BY <2>1, <2>4, <2>5 DEF RegistryTyped
<1>3. ASSUME NEW q \in Requests, WriteUser(q) PROVE RegistryTyped'
  <2> DEFINE actor == requests[q].actor
             time == requests[q].time
  <2>1. /\ users' = Registered(actor, time)
        /\ latest' = [u \in DOMAIN latest \cup {actor} |->
                        IF u = actor /\ (u \in DOMAIN latest => latest[u] < time) THEN time ELSE latest[u]]
        /\ requests' = [requests EXCEPT ![q] = FreeRequest]
        /\ UNCHANGED <<now, skills, arrived>> /\ requests[q].at = "write"
    BY <1>3 DEF WriteUser
  <2>2. actor \in Actors /\ time \in 0..now
    BY <2>1, RequestIs
  <2> HIDE DEF actor, time
  <2>3. DOMAIN users' = DOMAIN users \cup {actor} /\ DOMAIN latest' = DOMAIN users'
    BY <2>1 DEF Registered, RegistryTyped
  <2>4. ASSUME NEW u \in DOMAIN users'
        PROVE  users'[u] \in [registered : 0..now, seen : 0..now] /\ latest'[u] \in 0..now
    <3>1. CASE u \in DOMAIN users
      BY <2>1, <2>2, <2>3, <3>1 DEF Registered, RegistryTyped
    <3>2. CASE u \notin DOMAIN users
      BY <2>1, <2>2, <2>3, <2>4, <3>2 DEF Registered, RegistryTyped
    <3> QED BY <3>1, <3>2
  <2> QED BY <2>1, <2>2, <2>3, <2>4, FreedTyped DEF RegistryTyped
<1>4. ASSUME NEW q \in Requests, WriteSkill(q) PROVE RegistryTyped'
  <2>1. /\ skills' = {[owner |-> requests[q].actor, shared |-> requests[q].time]}
        /\ requests' = [requests EXCEPT ![q] = FreeRequest]
        /\ UNCHANGED <<now, users, arrived, latest>> /\ requests[q].at = "write"
    BY <1>4 DEF WriteSkill, hubHistory
  <2>2. requests[q].actor \in Actors /\ requests[q].time \in 0..now
    BY <2>1, RequestIs
  <2>3. skills' \subseteq [owner : Actors, shared : 0..now]
    BY <2>1, <2>2
  <2> QED BY <2>1, <2>3, FreedTyped DEF RegistryTyped
<1>5. ASSUME NEW q \in Requests, WriteFails(q) PROVE RegistryTyped'
  <2>1. requests' = [requests EXCEPT ![q] = FreeRequest] /\ UNCHANGED <<now, users, skills, arrived, latest>>
    BY <1>5 DEF WriteFails, hubHistory
  <2> QED BY <2>1, FreedTyped DEF RegistryTyped
<1>6. CASE Second
  <2>1. now' = now + 1 /\ now' \in 0..MaxHubTime /\ UNCHANGED <<users, skills, requests, arrived, latest>>
    BY <1>6 DEF Second, hubHistory, RegistryTyped
  <2>2. now \in Nat /\ 0..now \subseteq 0..now'
    BY <2>1 DEF RegistryTyped
  <2>3. [registered : 0..now, seen : 0..now] \subseteq [registered : 0..now', seen : 0..now']
    BY <2>2
  <2>4. [owner : Actors, shared : 0..now] \subseteq [owner : Actors, shared : 0..now']
    BY <2>2
  <2>5. ASSUME NEW q \in Requests, requests[q].at = "write" PROVE requests[q].time <= now'
    BY <2>1, <2>2, <2>5, RequestIs
  <2> QED BY <2>1, <2>2, <2>3, <2>4, <2>5 DEF RegistryTyped
<1>7. CASE RestartHub
  <2>1. requests' = [q \in Requests |-> FreeRequest] /\ UNCHANGED <<now, users, skills, arrived, latest>>
    BY <1>7 DEF RestartHub
  <2> QED BY <2>1 DEF RegistryTyped, FreeRequest
<1>8. CASE UNCHANGED hubVars
  BY <1>8 DEF hubVars, hubHistory, RegistryTyped
<1> QED BY <1>1, <1>2, <1>3, <1>4, <1>5, <1>6, <1>7, <1>8 DEF HubNext

LEMMA RegistryNext == RegistryInv /\ [HubNext]_hubVars => RegistryInv'
<1> SUFFICES ASSUME RegistryInv, [HubNext]_hubVars, NEW u \in Actors, u \notin overlapped' PROVE SeenOf(u)'
  BY RegistryTypedNext DEF RegistryInv, SeenOf
<1>a. RegistryTyped /\ SeenOf(u) /\ now \in Nat
  BY HubNumbers DEF RegistryInv, RegistryTyped
<1>b. \A q \in Requests, v \in Actors : Registers(q, v) => requests[q].time \in 0..now
  BY <1>a, RequestIs DEF Registers
<1>c. u \in DOMAIN users => latest[u] \in 0..now
  BY <1>a DEF RegistryTyped
<1>0. ASSUME UNCHANGED <<users, latest, overlapped>>,
             \A q \in Requests : Registers(q, u)' => Registers(q, u) /\ requests'[q] = requests[q]
      PROVE  SeenOf(u)'
  BY <1>0, <1>a DEF SeenOf, OneAtATime, NotBehind, SeenNewest
<1>1. ASSUME NEW q \in Requests, NEW a \in Addresses, Refuse(q, a) \/ Reject(q, a) PROVE SeenOf(u)'
  BY <1>0, <1>1 DEF Refuse, Reject, Registers
<1>2. ASSUME NEW q \in Requests, NEW a \in Addresses, NEW client \in Clients,
             NEW kind \in {"register", "share"}, Enter(q, a, client, kind)
      PROVE  SeenOf(u)'
  <2> DEFINE actor == ActorOf(client)
  <2>1. /\ requests' = [requests EXCEPT ![q] =
              [at |-> "write", kind |-> kind, actor |-> actor, time |-> now]]
        /\ UNCHANGED <<users, latest>> /\ requests[q].at # "write"
    BY <1>2 DEF Enter, Arrives
  <2>2. /\ \A r \in Requests \ {q} : requests'[r] = requests[r]
        /\ requests'[q] = [at |-> "write", kind |-> kind, actor |-> actor, time |-> now]
    BY <2>1, <1>a DEF RegistryTyped
  <2>3. CASE kind = "register" /\ actor = u
    <3>1. ~\E r \in Requests : Registers(r, u)
      BY <1>2, <2>3 DEF Enter, Registers
    <3>2. overlapped' = overlapped
      BY <1>2, <2>3, <3>1 DEF Enter, Registers
    <3>3. \A r \in Requests : Registers(r, u)' => r = q
      BY <2>2, <3>1 DEF Registers
    <3>4. OneAtATime(u)'
      BY <3>3 DEF OneAtATime
    <3>5. NotBehind(u)'
      BY <2>1, <2>2, <3>3, <1>c, <1>a DEF NotBehind
    <3>6. SeenNewest(u)'
      BY <2>1, <1>a, <3>2 DEF SeenOf, SeenNewest
    <3> QED BY <3>4, <3>5, <3>6 DEF SeenOf
  <2>4. CASE ~(kind = "register" /\ actor = u)
    <3>1. u \notin overlapped
      BY <1>2 DEF Enter
    <3>2. \A r \in Requests : Registers(r, u)' => Registers(r, u) /\ requests'[r] = requests[r]
      BY <2>2, <2>4 DEF Registers
    <3> QED BY <1>a, <2>1, <3>1, <3>2 DEF SeenOf, OneAtATime, NotBehind, SeenNewest
  <2> QED BY <2>3, <2>4
<1>3. ASSUME NEW q \in Requests, WriteUser(q) PROVE SeenOf(u)'
  <2> DEFINE actor == requests[q].actor
             time == requests[q].time
  <2>1. /\ users' = Registered(actor, time)
        /\ latest' = [v \in DOMAIN latest \cup {actor} |->
                        IF v = actor /\ (v \in DOMAIN latest => latest[v] < time) THEN time ELSE latest[v]]
        /\ requests' = [requests EXCEPT ![q] = FreeRequest]
        /\ overlapped' = overlapped /\ Registers(q, actor)
    BY <1>3 DEF WriteUser, Registers
  <2>2. actor \in Actors /\ time \in 0..now
    BY <1>3, <1>a, RequestIs DEF WriteUser
  <2>3. \A r \in Requests : Registers(r, u)' => r # q /\ Registers(r, u) /\ requests'[r] = requests[r]
    BY <2>1, <1>a, FreedTyped DEF Registers
  <2>4. OneAtATime(u) /\ NotBehind(u) /\ SeenNewest(u)
    BY <1>a, <2>1 DEF SeenOf
  <2>5. OneAtATime(u)'
    BY <2>3, <2>4 DEF OneAtATime
  <2>d. DOMAIN latest = DOMAIN users
    BY <1>a DEF RegistryTyped
  <2>6. CASE actor = u
    <3>1. ~\E r \in Requests : Registers(r, u)'
      BY <2>1, <2>3, <2>4, <2>6 DEF OneAtATime
    <3>2. u \in DOMAIN users => latest[u] <= time
      BY <2>1, <2>4, <2>6 DEF NotBehind
    <3>3. latest'[u] = time
      BY <1>c, <2>1, <2>2, <2>6, <2>d, <3>2
    <3>4. users'[u].seen = time
      BY <2>1, <2>6 DEF Registered
    <3>5. users'[u].registered <= time
      <4>1. CASE u \in DOMAIN users
        <5>1. users[u] \in [registered : 0..now, seen : 0..now]
          BY <1>a, <4>1 DEF RegistryTyped
        <5>2. users[u].registered \in 0..now /\ users[u].registered <= latest[u] /\ latest[u] \in 0..now
          BY <1>c, <2>4, <4>1, <5>1 DEF SeenNewest
        <5>3. users'[u].registered = users[u].registered
          BY <2>1, <2>6, <4>1 DEF Registered
        <5> QED BY <1>a, <2>2, <3>2, <4>1, <5>2, <5>3
      <4>2. CASE u \notin DOMAIN users
        BY <2>1, <2>2, <2>6, <4>2, <1>a DEF Registered
      <4> QED BY <4>1, <4>2
    <3> QED BY <2>5, <3>1, <3>3, <3>4, <3>5 DEF SeenOf, NotBehind, SeenNewest
  <2>7. CASE actor # u
    <3>1. u \in DOMAIN users' => u \in DOMAIN users /\ users'[u] = users[u] /\ latest'[u] = latest[u]
      BY <2>1, <2>7, <2>d DEF Registered
    <3>2. NotBehind(u)'
      BY <2>3, <2>4, <3>1 DEF NotBehind
    <3>3. SeenNewest(u)'
      BY <2>4, <3>1 DEF SeenNewest
    <3> QED BY <2>5, <3>2, <3>3 DEF SeenOf
  <2> QED BY <2>6, <2>7
<1>4. ASSUME NEW q \in Requests, WriteSkill(q) \/ WriteFails(q) PROVE SeenOf(u)'
  <2>1. requests' = [requests EXCEPT ![q] = FreeRequest] /\ UNCHANGED <<users, latest, overlapped>>
    BY <1>4 DEF WriteSkill, WriteFails, hubHistory
  <2>2. \A r \in Requests : Registers(r, u)' => Registers(r, u) /\ requests'[r] = requests[r]
    BY <2>1, <1>a, FreedTyped DEF Registers
  <2> QED BY <1>0, <2>1, <2>2
<1>5. CASE Second
  BY <1>0, <1>5 DEF Second, hubHistory, Registers
<1>6. CASE RestartHub
  <2>1. \A q \in Requests : ~Registers(q, u)'
    BY <1>6 DEF RestartHub, Registers, FreeRequest
  <2>2. UNCHANGED <<users, latest, overlapped>>
    BY <1>6 DEF RestartHub
  <2> QED BY <1>0, <2>1, <2>2
<1>7. CASE UNCHANGED hubVars
  BY <1>0, <1>7 DEF hubVars, hubHistory, Registers
<1> QED BY <1>1, <1>2, <1>3, <1>4, <1>5, <1>6, <1>7 DEF HubNext

\* What the limiter and the registries keep has the form the code gives it, in every state.
THEOREM HubTypeCorrect == HubSpec => []HubTypeOK
<1>1. LimiterInv /\ RegistryInv => HubTypeOK
  <2> SUFFICES ASSUME LimiterInv, RegistryInv, NEW a \in Addresses
               PROVE  /\ limiter[a] \in Seq(0..now) /\ Len(limiter[a]) <= RateMax
                      /\ admitted[a] \in Seq(0..now) /\ refused[a] \subseteq 0..now
    BY DEF RegistryInv, RegistryTyped, HubTypeOK
  <2>1. LimiterShape(a) /\ limiter[a] \in Seq(Nat) /\ admitted[a] \in Seq(Nat)
    BY DEF LimiterInv, LimiterTyped, LimiterOf
  <2> DEFINE n == Len(admitted[a])
             m == Len(limiter[a])
             old == n - m
  <2>2. n \in Nat /\ m \in Nat /\ old \in Nat
    BY <2>1, LenProperties DEF LimiterShape
  <2>3. \A i \in 1..n : admitted[a][i] \in 0..now
    BY <2>1 DEF LimiterShape
  <2>4. \A i \in 1..m : limiter[a][i] = admitted[a][old + i]
    BY <2>1 DEF LimiterShape
  <2>5. admitted[a] = [i \in 1..n |-> admitted[a][i]] /\ limiter[a] = [i \in 1..m |-> limiter[a][i]]
    BY <2>1, LenProperties
  <2> HIDE DEF n, m
  <2>6. \A i \in 1..m : limiter[a][i] \in 0..now
    BY <2>2, <2>3, <2>4
  <2>7. admitted[a] \in Seq(0..now)
    BY <2>2, <2>3, <2>5, SeqDef
  <2>8. limiter[a] \in Seq(0..now)
    BY <2>2, <2>5, <2>6, SeqDef
  <2> QED BY <2>1, <2>7, <2>8 DEF LimiterShape
<1> QED BY <1>1, LimiterInit, LimiterNext, RegistryInit, RegistryNext, PTL DEF HubSpec

\* last_seen_at of a user is the time of the newest registration, never before
\* registered_at, unless two registrations of that user overlapped (register_user).
THEOREM SeenTimesHold == HubSpec => []SeenIsLatest
<1>1. RegistryInv => SeenIsLatest
  BY DEF RegistryInv, RegistryTyped, SeenOf, SeenNewest, SeenIsLatest
<1> QED BY <1>1, RegistryInit, RegistryNext, PTL DEF HubSpec
================================================================================
