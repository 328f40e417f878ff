-------------------------------- MODULE Tui --------------------------------
(***************************************************************************)
(* The terminal interface (internal/tui/tui.go) with its calls             *)
(* (rpc/client.go, CallWithContext) and the daemon that serves them.       *)
(*                                                                         *)
(* Bubble Tea handles one message at a time, in the order in which they    *)
(* were sent; Update waits for an action, while answers, ticks and keys    *)
(* queue up, and so do batches of commands, whose commands run once it     *)
(* takes the batch.  Everything else runs in goroutines of its own.  A     *)
(* call that is given up goes on in the daemon.                            *)
(***************************************************************************)
EXTENDS Naturals, Sequences

CONSTANTS
  TickInterval, FetchTimeout, ActionTimeout,
  MaxKeys, MaxTime  \* bounds on the keys pressed and on time

ASSUME TuiAssumption ==
  /\ {TickInterval, FetchTimeout, ActionTimeout} \subseteq Nat \ {0}
  /\ FetchTimeout < TickInterval
  /\ MaxKeys \in Nat /\ MaxTime \in Nat

VARIABLES
  now,
  inbox,        \* messages that wait for the event loop
  pressed,      \* keys pressed so far, which are numbered
  acting,       \* the action Update waits for: [key, deadline], or Ready
  needsRefresh,
  view,
  shown,        \* the state on the screen
  timer,        \* when the timer of the next tick is due, or Unarmed
  rounds,       \* ticks that have asked for a state so far, which are numbered
  fetches,      \* calls of GetFullState under way
  calls,        \* actions the daemon has received and not executed
  effects,      \* those it has executed, in order
  outcome,      \* of an action Update waits for: "none", "ok" or "error"
  expired,      \* history: actions that Update gave up
  missed        \* history: since the last key, and the last tick that asked,
                \* such a tick (or Init) has got no answer

vars == <<now, inbox, pressed, acting, needsRefresh, view, shown, timer, rounds, fetches,
          calls, effects, outcome, expired, missed>>

Ready == [key |-> 0, deadline |-> 0]
Unarmed == MaxTime + TickInterval + 1

\* View
Screen ==
  IF ~shown.responding THEN "not responding"
  ELSE IF view = "library" /\ ~shown.library THEN "loading"
  ELSE view

\* a fetch with the patience of an action
BugFetch(source, number, library) ==
  [source |-> source, number |-> number, library |-> library, deadline |-> now + ActionTimeout]

Fetch(source, number, library) ==
  [source |-> source, number |-> number, library |-> library, deadline |-> now + FetchTimeout]

Begin(f) == fetches' = fetches \cup {f}

\* tea.Batch of a fetch and tickCmd: the timer runs from the call on, the fetch
\* and the wait for the timer begin when the event loop takes the batch
Batch(source, number, library) ==
  [type |-> "batch", source |-> source, number |-> number, library |-> library]

Waits(type) == \E i \in DOMAIN inbox : inbox[i].type = type

Init ==
  /\ now = 0 /\ inbox = <<Batch("init", 0, TRUE)>> /\ pressed = 0 /\ acting = Ready
  /\ needsRefresh = FALSE /\ view = "player"
  /\ shown = [responding |-> FALSE, library |-> FALSE]
  /\ timer = TickInterval /\ rounds = 0 /\ fetches = {}
  /\ calls = {} /\ effects = <<>> /\ outcome = "none"
  /\ expired = {} /\ missed = FALSE

-----------------------------------------------------------------------------
(* What arrives. *)

Send(message) == inbox' = Append(inbox, message)

\* "view" stands for the keys that switch between two views, "act" for those
\* that call the daemon
PressKey(kind) ==
  /\ pressed < MaxKeys /\ pressed' = pressed + 1
  /\ Send([type |-> kind, key |-> pressed + 1])
  /\ UNCHANGED <<now, acting, needsRefresh, view, shown, timer, rounds, fetches, calls,
                 effects, outcome, expired, missed>>

TimerFires ==
  /\ timer <= now /\ ~Waits("batch") /\ timer' = Unarmed
  /\ Send([type |-> "tick"])
  /\ UNCHANGED <<now, pressed, acting, needsRefresh, view, shown, rounds, fetches, calls,
                 effects, outcome, expired, missed>>

\* GetFullState, as far as it can be told apart
FetchAnswered(f) ==
  /\ f \in fetches /\ fetches' = fetches \ {f}
  /\ Send([type |-> "answer", source |-> f.source, number |-> f.number, library |-> f.library])
  /\ UNCHANGED <<now, pressed, acting, needsRefresh, view, shown, timer, rounds, calls,
                 effects, outcome, expired, missed>>

\* the daemon is away, or too slow: no message
FetchFails(f) ==
  /\ f \in fetches /\ fetches' = fetches \ {f}
  /\ missed' = (missed \/ f.source # "action")
  /\ UNCHANGED <<now, inbox, pressed, acting, needsRefresh, view, shown, timer, rounds,
                 calls, effects, outcome, expired>>

\* the answer to whatever was called is taken for that of the last call
BugExecute(k, result) ==
  /\ k \in calls /\ calls' = calls \ {k}
  /\ effects' = Append(effects, k)
  /\ outcome' = result
  /\ UNCHANGED <<now, inbox, pressed, acting, needsRefresh, view, shown, timer, rounds,
                 fetches, expired, missed>>

Execute(k, result) ==
  /\ k \in calls /\ calls' = calls \ {k}
  /\ effects' = Append(effects, k)
  /\ outcome' = IF acting.key = k THEN result ELSE outcome
  /\ UNCHANGED <<now, inbox, pressed, acting, needsRefresh, view, shown, timer, rounds,
                 fetches, expired, missed>>

-----------------------------------------------------------------------------
(* Update. *)

Take(type) ==
  /\ acting = Ready /\ inbox # <<>> /\ Head(inbox).type = type
  /\ inbox' = Tail(inbox)

HandleView ==
  /\ Take("view") /\ needsRefresh' = TRUE /\ missed' = FALSE
  /\ view' = IF view = "player" THEN "library" ELSE "player"
  /\ UNCHANGED <<now, pressed, acting, shown, timer, rounds, fetches, calls, effects,
                 outcome, expired>>

\* the action as a command of its own, which Update does not wait for
BugHandleAction ==
  /\ Take("act") /\ needsRefresh' = TRUE /\ missed' = FALSE
  /\ calls' = calls \cup {Head(inbox).key}
  /\ UNCHANGED <<now, pressed, acting, view, shown, timer, rounds, fetches, effects,
                 outcome, expired>>

Act ==
  IF view = "library" /\ ~shown.library
  THEN UNCHANGED <<acting, calls>>
  ELSE /\ acting' = [key |-> Head(inbox).key, deadline |-> now + ActionTimeout]
       /\ calls' = calls \cup {Head(inbox).key}

\* no refresh for an action, since a fetch follows it anyway
BugActUnrefreshed ==
  /\ Take("act") /\ missed' = FALSE /\ Act
  /\ UNCHANGED <<now, pressed, needsRefresh, view, shown, timer, rounds, fetches, effects,
                 outcome, expired>>

\* in the library, only once it is there
HandleAction ==
  /\ Take("act") /\ needsRefresh' = TRUE /\ missed' = FALSE /\ Act
  /\ UNCHANGED <<now, pressed, view, shown, timer, rounds, fetches, effects, outcome,
                 expired>>

Return(failed) ==
  /\ acting' = Ready /\ outcome' = "none"
  /\ shown' = [shown EXCEPT !.responding = @ /\ ~failed]
  /\ Begin(Fetch("action", acting.key, FALSE))
  /\ UNCHANGED <<now, inbox, pressed, needsRefresh, view, timer, rounds, effects, missed>>

ActionReturns ==
  /\ acting # Ready /\ outcome # "none"
  /\ Return(outcome = "error")
  /\ UNCHANGED <<calls, expired>>

\* the daemon is away and does not receive the call
ActionFails ==
  /\ acting # Ready /\ acting.key \in calls
  /\ calls' = calls \ {acting.key}
  /\ Return(TRUE)
  /\ UNCHANGED expired

\* an action that took too long is sent once more
BugActionTimesOut ==
  /\ acting # Ready /\ now = acting.deadline
  /\ Return(TRUE)
  /\ expired' = expired \cup {acting.key}
  /\ calls' = calls \cup {acting.key}

ActionTimesOut ==
  /\ acting # Ready /\ now = acting.deadline
  /\ Return(TRUE)
  /\ expired' = expired \cup {acting.key}
  /\ UNCHANGED calls

HandleTick ==
  /\ acting = Ready /\ inbox # <<>> /\ Head(inbox).type = "tick"
  /\ timer' = now + TickInterval
  /\ needsRefresh' = FALSE
  /\ IF needsRefresh
     THEN /\ inbox' = Append(Tail(inbox), Batch("tick", rounds + 1, view = "library"))
          /\ rounds' = rounds + 1 /\ missed' = FALSE
     ELSE inbox' = Tail(inbox) /\ UNCHANGED <<rounds, missed>>
  /\ UNCHANGED <<now, pressed, acting, view, shown, fetches, calls, effects, outcome, expired>>

\* the event loop starts the commands of a batch; Update does not see it
RunBatch ==
  /\ Take("batch")
  /\ Begin(Fetch(Head(inbox).source, Head(inbox).number, Head(inbox).library))
  /\ UNCHANGED <<now, pressed, acting, needsRefresh, view, shown, timer, rounds, calls, effects,
                 outcome, expired, missed>>

\* the state as a whole: without a library unless this answer brings one
HandleAnswer ==
  /\ Take("answer")
  /\ shown' = [responding |-> TRUE, library |-> Head(inbox).library]
  /\ UNCHANGED <<now, pressed, acting, needsRefresh, view, timer, rounds, fetches, calls,
                 effects, outcome, expired, missed>>

\* contexts end, and timers fire, when they are due
Tick ==
  /\ now < MaxTime /\ now' = now + 1
  /\ timer > now \/ Waits("batch")
  /\ \A f \in fetches : f.deadline > now
  /\ acting # Ready => acting.deadline > now
  /\ UNCHANGED <<inbox, pressed, acting, needsRefresh, view, shown, timer, rounds, fetches,
                 calls, effects, outcome, expired, missed>>

-----------------------------------------------------------------------------
Update == HandleView \/ HandleAction \/ HandleTick \/ RunBatch \/ HandleAnswer

Next ==
  \/ \E kind \in {"view", "act"} : PressKey(kind)
  \/ TimerFires \/ Update \/ ActionReturns \/ ActionFails \/ ActionTimesOut \/ Tick
  \/ \E f \in fetches : FetchAnswered(f) \/ FetchFails(f)
  \/ \E k \in calls : \E result \in {"ok", "error"} : Execute(k, result)

Spec == Init /\ [][Next]_vars

-----------------------------------------------------------------------------
\* The variables have their types, and only an action has an outcome.
TypeOK ==
  /\ now \in 0..MaxTime /\ pressed \in 0..MaxKeys
  /\ acting.key \in 0..pressed /\ view \in {"player", "library"}
  /\ calls \subseteq 1..pressed /\ \A i \in DOMAIN effects : effects[i] \in 1..pressed
  /\ expired \subseteq 1..pressed /\ rounds \in Nat
  /\ outcome # "none" => acting # Ready

\* Keys take effect in the order in which they were pressed, although each call
\* has a connection and a goroutine of its own, except that one which was given
\* up may come later (executeAction, CallWithContext, ServeConn).
KeysTakeEffectInOrder ==
  \A i, j \in DOMAIN effects :
    i < j => effects[i] < effects[j] \/ effects[j] \in expired

\* A key takes effect at most once, also when its call was given up and is
\* reported as failed although the daemon executes it (executeAction,
\* CallWithContext).
KeyActsOnce ==
  \A i, j \in DOMAIN effects : effects[i] = effects[j] => i = j

Awaited == fetches # {} \/ Waits("answer") \/ Waits("batch")
NextTickAsks == needsRefresh /\ (timer # Unarmed \/ Waits("tick"))

\* While "Daemon not responding" is on the screen, a fetch or its answer is on
\* the way, or the next tick will fetch.  The screen stays as it is, until a key
\* is pressed, only when that fetch of a tick has failed as well: an action that
\* goes wrong, or its own fetch, does not leave it there (executeAction, Update,
\* View).
NotRespondingIsChecked ==
  Screen = "not responding" => Awaited \/ NextTickAsks \/ missed

\* A batch may wait behind a key that blocks Update for as long as its timer
\* runs, so that the fetches of two ticks overlap and the older answer is shown
\* last.  But the fetch of a tick, and its answer, are dealt with before the
\* second tick after it fetches: the screen never falls back any further
\* (Update, tickCmd, fetchState).
OneTickBehind ==
  /\ \A f \in fetches : f.source = "tick" => f.number + 1 >= rounds
  /\ \A i \in DOMAIN inbox :
       inbox[i].type \in {"batch", "answer"} /\ inbox[i].source = "tick" =>
         inbox[i].number + 1 >= rounds
=============================================================================
