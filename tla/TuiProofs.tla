------------------------------ MODULE TuiProofs ------------------------------
(***************************************************************************)
(* The properties of Tui for any intervals that satisfy TuiAssumption, and *)
(* any number of keys: types, the order of keys and that each acts once,   *)
(* "not responding", and what ticks fetch.                                 *)
(***************************************************************************)
EXTENDS Tui, SequenceTheorems, TLAPS

Sources == {"init", "tick", "action"}
Messages ==
  [type : {"view", "act"}, key : Nat] \cup [type : {"tick"}]
  \cup [type : {"answer"}, source : Sources, number : Nat, library : BOOLEAN]
  \cup [type : {"batch"}, source : {"init", "tick"}, number : Nat, library : BOOLEAN]
AllFetches == [source : Sources, number : Nat, library : BOOLEAN, deadline : Nat]

Keyed(m) == m.type \in {"view", "act"}
\* The key that a message carries has been pressed.
Given(m, p) == Keyed(m) => m.key \in 1 .. p
\* What a tick before the last has fetched.
LateFetch(f) == f.source = "tick" /\ f.number < rounds
LateAnswer(m) == m.type = "answer" /\ m.source = "tick" /\ m.number < rounds

TInv ==
  /\ now \in 0 .. MaxTime /\ pressed \in 0 .. MaxKeys
  /\ inbox \in Seq(Messages)
  /\ \A i \in DOMAIN inbox : Given(inbox[i], pressed)
  /\ acting \in [key : 0 .. pressed, deadline : Nat] /\ (acting # Ready => acting.key # 0)
  /\ view \in {"player", "library"}
  /\ shown \in [responding : BOOLEAN, library : BOOLEAN]
  /\ timer \in 0 .. (MaxTime + TickInterval) \cup {Unarmed}
  /\ rounds \in Nat /\ fetches \subseteq AllFetches
  /\ calls \subseteq 1 .. pressed /\ effects \in Seq(1 .. pressed)
  /\ outcome \in {"none", "ok", "error"} /\ (outcome # "none" => acting # Ready)
  /\ expired \subseteq 1 .. pressed /\ {needsRefresh, missed} \subseteq BOOLEAN

(* Keys wait in the order in which they were pressed, behind those that were
   handled; what the daemon has still to execute is the action Update waits
   for, which is the last, and those it has given up. *)
OrderInv ==
  /\ \A i, j \in DOMAIN inbox :
       i < j /\ Keyed(inbox[i]) /\ Keyed(inbox[j]) => inbox[i].key < inbox[j].key
  /\ \A i \in DOMAIN inbox : Keyed(inbox[i]) =>
       /\ acting.key < inbox[i].key
       /\ \A k \in calls : k < inbox[i].key
       /\ \A j \in DOMAIN effects : effects[j] < inbox[i].key
  /\ \A k \in calls : k = acting.key \/ k \in expired
  /\ acting # Ready => \A k \in calls : k <= acting.key
  /\ outcome # "none" => acting.key \notin calls
  /\ acting.key \in calls => \A j \in DOMAIN effects : effects[j] < acting.key
  /\ KeysTakeEffectInOrder

(* What is still to be executed has had no effect yet. *)
OnceInv ==
  /\ \A k \in calls, j \in DOMAIN effects : effects[j] # k
  /\ KeyActsOnce

(* There is always one tick to come: its timer runs, or it waits.  While the
   timer runs, the fetches of the ticks before the last end before it fires; then
   their answers wait in front of the next tick. *)
TickInv ==
  /\ \A f \in fetches : now <= f.deadline /\ f.deadline <= now + FetchTimeout
  /\ \A i \in DOMAIN inbox : inbox[i].type = "batch" =>
       timer # Unarmed /\ (inbox[i].source = "tick" => inbox[i].number >= rounds)
  /\ timer # Unarmed =>
       /\ \A f \in fetches : LateFetch(f) => f.deadline < timer
       /\ \A i \in DOMAIN inbox : inbox[i].type # "tick"
  /\ timer = Unarmed =>
       /\ \A f \in fetches : ~LateFetch(f)
       /\ \E i \in DOMAIN inbox : inbox[i].type = "tick" /\ \A j \in DOMAIN inbox :
            /\ inbox[j].type = "tick" => j = i
            /\ LateAnswer(inbox[j]) => j < i
  /\ OneTickBehind

(* What shows "not responding" has had no answer since the last key, and the
   next tick, or the one that asked last, sees to it. *)
RespondingInv ==
  /\ acting # Ready => needsRefresh
  /\ \/ shown.responding \/ missed \/ needsRefresh
     \/ (\E f \in fetches : f.source # "action") \/ Waits("answer") \/ Waits("batch")

-----------------------------------------------------------------------------
(* Messages. *)

LEMMA Sent ==
  ASSUME inbox \in Seq(Messages), NEW m \in Messages, Send(m)
  PROVE  /\ inbox' \in Seq(Messages) /\ Len(inbox) \in Nat
         /\ DOMAIN inbox = 1 .. Len(inbox) /\ DOMAIN inbox' = 1 .. (Len(inbox) + 1)
         /\ \A i \in 1 .. Len(inbox) : inbox'[i] = inbox[i]
         /\ inbox'[Len(inbox) + 1] = m
         /\ \A i \in DOMAIN inbox' : \/ i \in DOMAIN inbox /\ inbox'[i] = inbox[i]
                                     \/ i = Len(inbox) + 1 /\ inbox'[i] = m
<1>1. /\ inbox' \in Seq(Messages) /\ Len(inbox') = Len(inbox) + 1
      /\ \A i \in 1 .. Len(inbox) : inbox'[i] = inbox[i]
      /\ inbox'[Len(inbox) + 1] = m
  BY AppendProperties DEF Send
<1>2. \A s \in Seq(Messages) : Len(s) \in Nat /\ DOMAIN s = 1 .. Len(s)
  OBVIOUS
<1> QED BY <1>1, <1>2

LEMMA Taken ==
  ASSUME inbox \in Seq(Messages), NEW type, Take(type)
  PROVE  /\ inbox' \in Seq(Messages) /\ Len(inbox) \in Nat \ {0}
         /\ DOMAIN inbox = 1 .. Len(inbox) /\ DOMAIN inbox' = 1 .. (Len(inbox) - 1)
         /\ \A i \in DOMAIN inbox' : i + 1 \in DOMAIN inbox /\ inbox'[i] = inbox[i + 1]
         /\ \A i \in DOMAIN inbox : i # 1 => i - 1 \in DOMAIN inbox' /\ inbox'[i - 1] = inbox[i]
         /\ 1 \in DOMAIN inbox /\ Head(inbox) = inbox[1]
         /\ inbox[1] \in Messages /\ inbox[1].type = type
<1>1. inbox # <<>> /\ inbox' = Tail(inbox) /\ Head(inbox).type = type
  BY DEF Take
<1>2. /\ inbox' \in Seq(Messages) /\ Len(inbox') = Len(inbox) - 1
      /\ \A i \in 1 .. Len(inbox') : inbox'[i] = inbox[i + 1]
      /\ Head(inbox) \in Messages
  BY <1>1, HeadTailProperties
<1>3. \A s \in Seq(Messages) : Len(s) \in Nat /\ DOMAIN s = 1 .. Len(s)
  OBVIOUS
<1>4. Len(inbox) # 0
  BY <1>1, EmptySeq
<1>5. Head(inbox) = inbox[1]
  BY <1>1
<1>6. ASSUME NEW i \in DOMAIN inbox, i # 1
      PROVE  i - 1 \in DOMAIN inbox' /\ inbox'[i - 1] = inbox[i]
  <2>1. i - 1 \in 1 .. Len(inbox') /\ (i - 1) + 1 = i
    BY <1>2, <1>3, <1>6
  <2>2. inbox'[i - 1] = inbox[(i - 1) + 1]
    BY <1>2, <2>1
  <2> QED BY <1>2, <1>3, <2>1, <2>2
<1> QED BY <1>1, <1>2, <1>3, <1>4, <1>5, <1>6

\* A tick makes room for a batch, which waits behind the others.
LEMMA TickTaken ==
  ASSUME TInv, HandleTick
  PROVE  /\ Len(inbox) \in Nat \ {0} /\ DOMAIN inbox = 1 .. Len(inbox)
         /\ inbox[1].type = "tick"
         /\ \A i \in DOMAIN inbox' : i \in Nat \ {0} /\
              \/ i + 1 \in DOMAIN inbox /\ inbox'[i] = inbox[i + 1]
              \/ i = Len(inbox) /\ needsRefresh
                 /\ inbox'[i] = Batch("tick", rounds + 1, view = "library")
         /\ needsRefresh => Len(inbox) \in DOMAIN inbox'
              /\ inbox'[Len(inbox)] = Batch("tick", rounds + 1, view = "library")
<1> DEFINE m == Batch("tick", rounds + 1, view = "library")
           rest == Tail(inbox)
<1>1. m \in Messages
  BY DEF Batch, Messages, TInv
<1>2. /\ rest \in Seq(Messages) /\ Len(rest) = Len(inbox) - 1 /\ Len(inbox) \in Nat \ {0}
      /\ \A i \in 1 .. Len(rest) : rest[i] = inbox[i + 1]
      /\ Head(inbox) = inbox[1]
  <2>1. inbox \in Seq(Messages) /\ inbox # <<>>
    BY DEF HandleTick, TInv
  <2> QED BY <2>1, HeadTailProperties, EmptySeq
<1>3. \/ needsRefresh /\ inbox' = Append(rest, m)
      \/ ~needsRefresh /\ inbox' = rest
  BY DEF HandleTick, TInv
<1>4. inbox[1].type = "tick"
  BY <1>2 DEF HandleTick
<1>5. DOMAIN inbox = 1 .. Len(inbox)
  BY DEF TInv
<1> HIDE DEF m, rest
<1>6. CASE needsRefresh /\ inbox' = Append(rest, m)
  <2>1. /\ DOMAIN inbox' = 1 .. Len(inbox) /\ inbox'[Len(inbox)] = m
        /\ \A i \in 1 .. Len(rest) : inbox'[i] = rest[i]
    <3>1. /\ Append(rest, m) \in Seq(Messages) /\ Len(Append(rest, m)) = Len(rest) + 1
          /\ \A i \in 1 .. Len(rest) : Append(rest, m)[i] = rest[i]
          /\ Append(rest, m)[Len(rest) + 1] = m
      BY <1>1, <1>2, AppendProperties
    <3> QED BY <1>2, <1>6, <3>1
  <2>2. \A i \in DOMAIN inbox' : i \in Nat \ {0} /\
          \/ i + 1 \in DOMAIN inbox /\ inbox'[i] = inbox[i + 1]
          \/ i = Len(inbox) /\ inbox'[i] = m
    BY <1>2, <1>5, <2>1
  <2>3. Len(inbox) \in DOMAIN inbox'
    BY <1>2, <2>1
  <2> QED BY <1>2, <1>4, <1>5, <1>6, <2>1, <2>2, <2>3 DEF m
<1>7. CASE ~needsRefresh /\ inbox' = rest
  <2>1. DOMAIN inbox' = 1 .. Len(rest)
    BY <1>2, <1>7
  <2> QED BY <1>2, <1>4, <1>5, <1>7, <2>1
<1> QED BY <1>3, <1>6, <1>7

LEMMA Fields ==
  ASSUME NEW m \in Messages
  PROVE  /\ m.type \in {"view", "act", "tick", "answer", "batch"}
         /\ Keyed(m) => m.key \in Nat
         /\ m.type \in {"answer", "batch"} =>
              m.source \in Sources /\ m.library \in BOOLEAN /\ m.number \in Nat
         /\ m.type = "batch" => m.source # "action"
BY DEF Messages, Keyed, Sources

\* What holds of a message that is sent and of those that wait holds of all.
LEMMA SentTypes ==
  ASSUME inbox \in Seq(Messages), NEW m \in Messages, Send(m), NEW p,
         \A k \in DOMAIN inbox : Given(inbox[k], p), Given(m, p)
  PROVE  inbox' \in Seq(Messages) /\ \A k \in DOMAIN inbox' : Given(inbox'[k], p)
<1>1. \A k \in DOMAIN inbox' : \/ k \in DOMAIN inbox /\ inbox'[k] = inbox[k]
                               \/ inbox'[k] = m
  BY Sent
<1>2. inbox' \in Seq(Messages)
  BY Sent
<1> QED BY <1>1, <1>2

LEMMA NumbersAreApart ==
  /\ Unarmed \notin 0 .. (MaxTime + TickInterval)
  /\ MaxTime \in Nat /\ TickInterval \in Nat /\ FetchTimeout \in Nat /\ ActionTimeout \in Nat
  /\ MaxKeys \in Nat /\ FetchTimeout < TickInterval
BY TuiAssumption DEF Unarmed

LEMMA NewEffect ==
  ASSUME NEW S, effects \in Seq(S), NEW k \in S, effects' = Append(effects, k)
  PROVE  /\ effects' \in Seq(S) /\ Len(effects) \in Nat /\ Len(effects') = Len(effects) + 1
         /\ DOMAIN effects = 1 .. Len(effects) /\ DOMAIN effects' = 1 .. (Len(effects) + 1)
         /\ \A i \in 1 .. Len(effects) : effects'[i] = effects[i]
         /\ effects'[Len(effects) + 1] = k
<1>1. /\ effects' \in Seq(S) /\ Len(effects') = Len(effects) + 1
      /\ \A i \in 1 .. Len(effects) : effects'[i] = effects[i]
      /\ effects'[Len(effects) + 1] = k
  BY AppendProperties
<1>2. \A s \in Seq(S) : Len(s) \in Nat /\ DOMAIN s = 1 .. Len(s)
  OBVIOUS
<1> QED BY <1>1, <1>2

-----------------------------------------------------------------------------
LEMMA TypesInit == Init => TInv
<1> SUFFICES ASSUME Init PROVE TInv
  OBVIOUS
<1> DEFINE m == Batch("init", 0, TRUE)
<1>1. m \in Messages /\ ~Keyed(m)
  BY DEF Batch, Messages, Keyed
<1>2. inbox = <<m>> /\ effects = <<>>
  BY DEF Init
<1> HIDE DEF m
<1>3. /\ inbox \in Seq(Messages) /\ effects \in Seq(1 .. pressed)
      /\ \A i \in DOMAIN inbox : Given(inbox[i], pressed)
  BY <1>1, <1>2 DEF Given
<1>4. Ready \in [key : 0 .. 0, deadline : Nat] /\ 0 \in 0 .. MaxTime /\ 0 \in 0 .. MaxKeys
  BY NumbersAreApart DEF Ready
<1>5. TickInterval \in 0 .. (MaxTime + TickInterval)
  BY NumbersAreApart
<1> QED BY <1>3, <1>4, <1>5 DEF Init, TInv

LEMMA TypesStep == TInv /\ [Next]_vars => TInv'
<1> SUFFICES ASSUME TInv, [Next]_vars PROVE TInv'
  OBVIOUS
<1> USE NumbersAreApart
<1>1. CASE UNCHANGED vars
  BY <1>1 DEF TInv, vars
<1>2. ASSUME NEW kind \in {"view", "act"}, PressKey(kind) PROVE TInv'
  <2> DEFINE m == [type |-> kind, key |-> pressed + 1]
  <2>1. m \in Messages /\ m.key = pressed + 1 /\ m.type = kind
    BY DEF Messages, TInv
  <2>2. pressed' = pressed + 1 /\ pressed' \in 0 .. MaxKeys
    BY <1>2 DEF PressKey, TInv
  <2>3. Send(m)
    BY <1>2 DEF PressKey
  <2> HIDE DEF m
  <2>4. inbox' \in Seq(Messages) /\ \A k \in DOMAIN inbox' : Given(inbox'[k], pressed')
    <3>1. \A k \in DOMAIN inbox : Given(inbox[k], pressed')
      BY <2>2 DEF TInv, Given
    <3>2. Given(m, pressed')
      BY <2>1, <2>2 DEF TInv, Given
    <3>3. inbox \in Seq(Messages)
      BY DEF TInv
    <3> QED BY <2>1, <2>3, <3>1, <3>2, <3>3, SentTypes
  <2>5. effects \in Seq(1 .. pressed')
    BY <2>2, SeqDef DEF TInv
  <2> QED BY <1>2, <2>2, <2>4, <2>5 DEF PressKey, TInv
<1>3. CASE TimerFires
  <2> DEFINE m == [type |-> "tick"]
  <2>1. m \in Messages /\ m.type = "tick"
    BY DEF Messages
  <2>2. inbox' \in Seq(Messages) /\ \A k \in DOMAIN inbox' : Given(inbox'[k], pressed)
    <3>1. Send(m)
      BY <1>3 DEF TimerFires
    <3> HIDE DEF m
    <3>2. Given(m, pressed)
      BY <2>1 DEF Keyed, Given
    <3>3. inbox \in Seq(Messages) /\ \A k \in DOMAIN inbox : Given(inbox[k], pressed)
      BY DEF TInv
    <3> QED BY <2>1, <3>1, <3>2, <3>3, SentTypes
  <2> QED BY <1>3, <2>2 DEF TimerFires, TInv
<1>4. ASSUME NEW f \in fetches, FetchAnswered(f) PROVE TInv'
  <2> DEFINE m == [type |-> "answer", source |-> f.source, number |-> f.number,
                   library |-> f.library]
  <2>1. m \in Messages /\ m.type = "answer"
    BY DEF Messages, TInv, AllFetches
  <2>2. Send(m)
    BY <1>4 DEF FetchAnswered
  <2> HIDE DEF m
  <2>3. inbox' \in Seq(Messages) /\ \A k \in DOMAIN inbox' : Given(inbox'[k], pressed)
    <3>1. Given(m, pressed)
      BY <2>1 DEF Keyed, Given
    <3>2. inbox \in Seq(Messages) /\ \A k \in DOMAIN inbox : Given(inbox[k], pressed)
      BY DEF TInv
    <3> QED BY <2>1, <2>2, <3>1, <3>2, SentTypes
  <2> QED BY <1>4, <2>3 DEF FetchAnswered, TInv
<1>5. ASSUME NEW f \in fetches, FetchFails(f) PROVE TInv'
  BY <1>5 DEF FetchFails, TInv
<1>6. ASSUME NEW k \in calls, NEW result \in {"ok", "error"}, Execute(k, result) PROVE TInv'
  <2>1. k \in 1 .. pressed
    BY DEF TInv
  <2>2. /\ effects' \in Seq(1 .. pressed) /\ Len(effects) \in Nat
        /\ Len(effects') = Len(effects) + 1
    BY <1>6, <2>1, NewEffect DEF Execute, TInv
  <2>3. outcome' \in {"none", "ok", "error"} /\ (outcome' # "none" => acting # Ready)
    BY <1>6, <2>1 DEF Execute, TInv, Ready
  <2> QED BY <1>6, <2>2, <2>3 DEF Execute, TInv
<1>7. ASSUME NEW type, Take(type)
      PROVE  inbox' \in Seq(Messages) /\ \A k \in DOMAIN inbox' : Given(inbox'[k], pressed)
  <2>1. inbox \in Seq(Messages) /\ \A k \in DOMAIN inbox : Given(inbox[k], pressed)
    BY DEF TInv
  <2>2. \A k \in DOMAIN inbox' : k + 1 \in DOMAIN inbox /\ inbox'[k] = inbox[k + 1]
    BY <1>7, <2>1, Taken
  <2>3. inbox' \in Seq(Messages)
    BY <1>7, <2>1, Taken
  <2> QED BY <2>1, <2>2, <2>3
<1>8. CASE HandleView
  <2>1. Take("view")
    BY <1>8 DEF HandleView
  <2> QED BY <1>7, <1>8, <2>1 DEF HandleView, TInv
<1>9. CASE HandleAction
  <2>1. Take("act")
    BY <1>9 DEF HandleAction
  <2>2. Head(inbox).key \in 1 .. pressed
    <3>1. 1 \in DOMAIN inbox /\ Head(inbox) = inbox[1] /\ inbox[1].type = "act"
      BY <2>1, Taken DEF TInv
    <3>2. Given(inbox[1], pressed)
      BY <3>1 DEF TInv
    <3> QED BY <3>1, <3>2 DEF Given, Keyed
  <2>3. /\ acting' \in [key : 0 .. pressed, deadline : Nat] /\ (acting' # Ready => acting'.key # 0)
        /\ calls' \subseteq 1 .. pressed
    <3> DEFINE h == Head(inbox).key
    <3>1. now + ActionTimeout \in Nat
      BY DEF TInv
    <3>2. \/ acting' = [key |-> h, deadline |-> now + ActionTimeout] /\ calls' = calls \cup {h}
          \/ UNCHANGED <<acting, calls>>
      BY <1>9 DEF HandleAction, Act
    <3>3. h \in 1 .. pressed
      BY <2>2
    <3> HIDE DEF h
    <3>4. CASE acting' = [key |-> h, deadline |-> now + ActionTimeout] /\ calls' = calls \cup {h}
      <4>1. acting'.key = h /\ acting' \in [key : 0 .. pressed, deadline : Nat]
        BY <3>1, <3>3, <3>4 DEF TInv
      <4> QED BY <3>3, <3>4, <4>1 DEF TInv
    <3> QED BY <3>2, <3>4 DEF TInv
  <2>4. outcome = "none"
    BY <2>1 DEF Take, TInv
  <2> QED BY <1>7, <1>9, <2>1, <2>3, <2>4 DEF HandleAction, Act, TInv
<1>10. ASSUME NEW failed \in BOOLEAN, Return(failed), UNCHANGED now,
              calls' \subseteq calls, expired' \subseteq 1 .. pressed
       PROVE  TInv'
  <2>1. Fetch("action", acting.key, FALSE) \in AllFetches
    BY DEF Fetch, AllFetches, Sources, TInv
  <2>2. fetches' \subseteq AllFetches
    BY <1>10, <2>1 DEF Return, Begin, TInv
  <2>3. shown' \in [responding : BOOLEAN, library : BOOLEAN]
    BY <1>10 DEF Return, TInv
  <2> QED BY <1>10, <2>2, <2>3 DEF Return, TInv, Ready
<1>11. CASE ActionReturns \/ ActionFails \/ ActionTimesOut
  <2>1. UNCHANGED now
    BY <1>11 DEF ActionReturns, ActionFails, ActionTimesOut, Return
  <2>2. CASE ActionReturns
    <3>1. PICK failed \in BOOLEAN : Return(failed)
      BY <2>2 DEF ActionReturns
    <3> QED BY <1>10, <2>1, <2>2, <3>1 DEF ActionReturns, TInv
  <2>3. CASE ActionFails
    BY <1>10, <2>1, <2>3 DEF ActionFails, TInv
  <2>4. CASE ActionTimesOut
    <3>1. acting.key \in 1 .. pressed
      BY <2>4 DEF ActionTimesOut, TInv
    <3> QED BY <1>10, <2>1, <2>4, <3>1 DEF ActionTimesOut, TInv
  <2> QED BY <1>11, <2>2, <2>3, <2>4
<1>12. CASE HandleTick
  <2> DEFINE m == Batch("tick", rounds + 1, view = "library")
             rest == Tail(inbox)
  <2>1. rest \in Seq(Messages) /\ \A k \in DOMAIN rest : Given(rest[k], pressed)
    <3>1. /\ rest \in Seq(Messages)
          /\ \A k \in 1 .. Len(rest) : k + 1 \in DOMAIN inbox /\ rest[k] = inbox[k + 1]
      BY <1>12, HeadTailProperties DEF HandleTick, TInv
    <3>2. DOMAIN rest = 1 .. Len(rest)
      BY <3>1
    <3> QED BY <3>1, <3>2 DEF TInv
  <2>2. inbox' \in {rest, Append(rest, m)} /\ rounds' \in {rounds, rounds + 1}
    BY <1>12 DEF HandleTick
  <2>3. m \in Messages /\ ~Keyed(m)
    BY DEF Batch, Messages, Keyed, TInv
  <2> HIDE DEF m, rest
  <2>4. inbox' \in Seq(Messages) /\ \A k \in DOMAIN inbox' : Given(inbox'[k], pressed)
    BY <2>1, <2>2, <2>3 DEF Given
  <2>5. timer' \in 0 .. (MaxTime + TickInterval) \cup {Unarmed}
    BY <1>12 DEF HandleTick, TInv
  <2>6. rounds' \in Nat /\ {needsRefresh', missed'} \subseteq BOOLEAN
    <3>1. needsRefresh' = FALSE /\ (missed' = FALSE \/ missed' = missed)
      BY <1>12 DEF HandleTick
    <3>2. missed \in BOOLEAN /\ rounds \in Nat
      BY DEF TInv
    <3>3. needsRefresh' \in BOOLEAN /\ missed' \in BOOLEAN
      BY <3>1, <3>2, Zenon
    <3>4. rounds' \in Nat
      BY <2>2, <3>2
    <3> QED BY <3>3, <3>4, Zenon
  <2>7. UNCHANGED <<now, pressed, acting, view, shown, fetches, calls, effects, outcome, expired>>
    BY <1>12 DEF HandleTick
  <2> QED BY <2>4, <2>5, <2>6, <2>7 DEF TInv
<1>13. CASE HandleAnswer \/ RunBatch
  <2>1. PICK type \in {"answer", "batch"} : Take(type)
    BY <1>13 DEF HandleAnswer, RunBatch
  <2>2. /\ Head(inbox).source \in Sources /\ Head(inbox).number \in Nat
        /\ Head(inbox).library \in BOOLEAN
    <3>1. Head(inbox) = inbox[1] /\ inbox[1] \in Messages /\ inbox[1].type \in {"answer", "batch"}
      BY <2>1, Taken DEF TInv
    <3> QED BY <3>1, Fields
  <2>3. inbox' \in Seq(Messages) /\ \A k \in DOMAIN inbox' : Given(inbox'[k], pressed)
    BY <1>7, <2>1
  <2>4. CASE HandleAnswer
    BY <2>2, <2>3, <2>4 DEF HandleAnswer, TInv
  <2>5. CASE RunBatch
    <3>1. Fetch(Head(inbox).source, Head(inbox).number, Head(inbox).library) \in AllFetches
      BY <2>2 DEF Fetch, AllFetches, TInv
    <3>2. fetches' \subseteq AllFetches
      BY <2>5, <3>1 DEF RunBatch, Begin, TInv
    <3> QED BY <2>3, <2>5, <3>2 DEF RunBatch, TInv
  <2> QED BY <1>13, <2>4, <2>5
<1>14. CASE Tick
  BY <1>14 DEF Tick, TInv
<1> QED
  BY <1>1, <1>2, <1>3, <1>4, <1>5, <1>6, <1>8, <1>9, <1>11, <1>12, <1>13, <1>14 DEF Next, Update

-----------------------------------------------------------------------------
LEMMA OrderStep == TInv /\ OrderInv /\ [Next]_vars => OrderInv'
<1> SUFFICES ASSUME TInv, OrderInv, [Next]_vars PROVE OrderInv'
  OBVIOUS
<1> DEFINE Before(m) ==
      /\ acting.key < m.key
      /\ \A k \in calls : k < m.key
      /\ \A j \in DOMAIN effects : effects[j] < m.key
           Waiting ==
      /\ \A i, j \in DOMAIN inbox :
           i < j /\ Keyed(inbox[i]) /\ Keyed(inbox[j]) => inbox[i].key < inbox[j].key
      /\ \A i \in DOMAIN inbox : Keyed(inbox[i]) => Before(inbox[i])
           Calling ==
      /\ \A k \in calls : k = acting.key \/ k \in expired
      /\ acting # Ready => \A k \in calls : k <= acting.key
      /\ outcome # "none" => acting.key \notin calls
      /\ acting.key \in calls => \A j \in DOMAIN effects : effects[j] < acting.key
      /\ KeysTakeEffectInOrder
<1>0. /\ OrderInv <=> Waiting /\ Calling
      /\ OrderInv' <=> Waiting' /\ Calling'
  BY DEF OrderInv
<1>t. /\ \A i \in DOMAIN inbox : inbox[i] \in Messages /\ i \in Nat
      /\ \A j \in DOMAIN effects : effects[j] \in 1 .. pressed
      /\ acting.key \in 0 .. pressed /\ calls \subseteq 1 .. pressed /\ pressed \in Nat
  <2>1. inbox \in Seq(Messages) /\ effects \in Seq(1 .. pressed)
    BY DEF TInv
  <2>2. \A i \in DOMAIN inbox : inbox[i] \in Messages /\ i \in Nat
    BY <2>1
  <2>3. \A j \in DOMAIN effects : effects[j] \in 1 .. pressed
    <3>1. ASSUME NEW S, NEW e \in Seq(S)
          PROVE  \A j \in DOMAIN e : e[j] \in S
      OBVIOUS
    <3> QED BY <2>1, <3>1
  <2>4. acting.key \in 0 .. pressed /\ calls \subseteq 1 .. pressed /\ pressed \in Nat
    BY DEF TInv
  <2> QED BY <2>2, <2>3, <2>4
<1>1. CASE UNCHANGED <<inbox, acting, calls, effects, outcome, expired>>
  BY <1>1 DEF OrderInv, KeysTakeEffectInOrder
\* A message that is no key waits behind the others.
<1>2. ASSUME NEW m \in Messages, Send(m), ~Keyed(m),
             UNCHANGED <<acting, calls, effects, outcome, expired>>
      PROVE  OrderInv'
  <2>1. Waiting'
    BY <1>2, <1>0, Sent DEF TInv
  <2> QED BY <1>0, <1>2, <2>1 DEF KeysTakeEffectInOrder
<1>3. ASSUME NEW kind \in {"view", "act"}, PressKey(kind) PROVE OrderInv'
  <2> DEFINE m == [type |-> kind, key |-> pressed + 1]
  <2>1. m \in Messages /\ m.key = pressed + 1 /\ Send(m)
    BY <1>3, <1>t DEF Messages, PressKey
  <2> HIDE DEF m
  <2>2. UNCHANGED <<acting, calls, effects, outcome, expired>>
    BY <1>3 DEF PressKey
  <2>3. \A i \in DOMAIN inbox : Keyed(inbox[i]) => inbox[i].key < m.key /\ inbox[i].key \in Nat
    <3> SUFFICES ASSUME NEW i \in DOMAIN inbox, Keyed(inbox[i])
                 PROVE  inbox[i].key < m.key /\ inbox[i].key \in Nat
      OBVIOUS
    <3>1. Given(inbox[i], pressed)
      BY DEF TInv
    <3> QED BY <1>t, <2>1, <3>1 DEF Given
  <2>4. Before(m)
    BY <1>t, <2>1
  <2>5. Waiting'
    <3>1. \A i \in DOMAIN inbox' : Keyed(inbox'[i]) => Before(inbox'[i])
      BY <1>0, <2>1, <2>4, Sent DEF TInv
    <3>2. \A i, j \in DOMAIN inbox' :
            i < j /\ Keyed(inbox'[i]) /\ Keyed(inbox'[j]) => inbox'[i].key < inbox'[j].key
      <4>1. /\ \A i \in DOMAIN inbox' : \/ i \in DOMAIN inbox /\ inbox'[i] = inbox[i]
                                        \/ i = Len(inbox) + 1 /\ inbox'[i] = m
            /\ DOMAIN inbox = 1 .. Len(inbox) /\ Len(inbox) \in Nat
        BY <2>1, Sent DEF TInv
      <4> TAKE i, j \in DOMAIN inbox'
      <4>2. CASE j \in DOMAIN inbox /\ inbox'[j] = inbox[j]
        <5>1. i < j => i \in DOMAIN inbox /\ inbox'[i] = inbox[i]
          BY <4>1, <4>2
        <5> QED BY <1>0, <4>2, <5>1
      <4>3. CASE j = Len(inbox) + 1 /\ inbox'[j] = m
        <5>1. i < j => i \in DOMAIN inbox /\ inbox'[i] = inbox[i]
          BY <4>1, <4>3
        <5> QED BY <2>3, <4>3, <5>1
      <4> QED BY <4>1, <4>2, <4>3
    <3> QED BY <2>2, <3>1, <3>2
  <2> QED BY <1>0, <2>2, <2>5 DEF KeysTakeEffectInOrder
\* A message that is taken leaves the others in their order.
<1>4. ASSUME NEW type, Take(type)
      PROVE  /\ \A i, j \in DOMAIN inbox' :
                  i < j /\ Keyed(inbox'[i]) /\ Keyed(inbox'[j]) => inbox'[i].key < inbox'[j].key
             /\ \A i \in DOMAIN inbox' : Keyed(inbox'[i]) => Before(inbox'[i])
             /\ Keyed(inbox[1]) => Before(inbox[1]) /\ \A i \in DOMAIN inbox' :
                  Keyed(inbox'[i]) => inbox[1].key < inbox'[i].key
  <2>1. \A i \in DOMAIN inbox' : i + 1 \in DOMAIN inbox /\ inbox'[i] = inbox[i + 1] /\ i \in Nat \ {0}
    BY <1>4, Taken DEF TInv
  <2>2. 1 \in DOMAIN inbox
    BY <1>4, Taken DEF TInv
  <2> QED BY <1>0, <2>1, <2>2
<1>5. ASSUME NEW type, Take(type), UNCHANGED <<acting, calls, effects, outcome, expired>>
      PROVE  OrderInv'
  BY <1>0, <1>4, <1>5 DEF KeysTakeEffectInOrder
<1>6. CASE HandleAction
  <2> USE DEF Act
  <2>1. Take("act")
    BY <1>6 DEF HandleAction
  <2>2. CASE UNCHANGED <<acting, calls>>
    BY <1>5, <1>6, <2>1, <2>2 DEF HandleAction
  <2>3. CASE ~UNCHANGED <<acting, calls>>
    <3>1. PICK h \in 1 .. pressed : h = inbox[1].key /\ Before(inbox[1]) /\
            \A i \in DOMAIN inbox' : Keyed(inbox'[i]) => h < inbox'[i].key /\ Before(inbox'[i])
      <4>1. 1 \in DOMAIN inbox /\ inbox[1].type = "act"
        BY <2>1, Taken DEF TInv
      <4>2. Given(inbox[1], pressed) /\ Keyed(inbox[1])
        BY <4>1 DEF TInv, Keyed
      <4>3. inbox[1].key \in 1 .. pressed
        BY <4>2 DEF Given
      <4> QED BY <1>4, <2>1, <4>2, <4>3
    <3>2. /\ acting' = [key |-> h, deadline |-> now + ActionTimeout]
          /\ calls' = calls \cup {h} /\ UNCHANGED <<effects, outcome, expired>>
      BY <1>6, <2>1, <2>3, <3>1, Taken DEF HandleAction, TInv
    <3>3. acting'.key = h
      BY <3>2
    <3>4. acting = Ready /\ acting.key = 0 /\ outcome = "none"
      BY <2>1 DEF Take, Ready, TInv
    <3>5. Waiting'
      BY <1>4, <2>1, <3>1, <3>2, <3>3
    <3>6. Calling'
      <4>1. \A k \in calls' : k = h \/ k \in expired'
        BY <1>0, <1>t, <3>2, <3>4
      <4>2. \A k \in calls' : k <= h
        <5> SUFFICES ASSUME NEW k \in calls' PROVE k <= h
          OBVIOUS
        <5>1. CASE k = h
          BY <1>t, <5>1
        <5>2. CASE k \in calls
          <6>1. k < h /\ k \in 1 .. pressed
            BY <1>t, <3>1, <5>2
          <6> QED BY <6>1
        <5> QED BY <3>2, <5>1, <5>2
      <4>3. \A j \in DOMAIN effects' : effects'[j] < h
        BY <3>1, <3>2
      <4>4. KeysTakeEffectInOrder'
        BY <1>0, <3>2 DEF KeysTakeEffectInOrder
      <4> QED BY <3>2, <3>3, <3>4, <4>1, <4>2, <4>3, <4>4
    <3> QED BY <1>0, <3>5, <3>6
  <2> QED BY <2>2, <2>3
<1>7. ASSUME NEW k \in calls, NEW result \in {"ok", "error"}, Execute(k, result)
      PROVE  OrderInv'
  <2>1. k \in 1 .. pressed /\ effects \in Seq(1 .. pressed)
    BY <1>t DEF TInv
  <2>2. /\ calls' = calls \ {k} /\ UNCHANGED <<inbox, acting, expired>>
        /\ effects' = Append(effects, k)
        /\ outcome' # "none" => outcome # "none" \/ acting.key = k
    BY <1>7 DEF Execute
  <2>3. \A j \in DOMAIN effects' : \/ j \in DOMAIN effects /\ effects'[j] = effects[j] /\ j \in Nat
                                   \/ j = Len(effects) + 1 /\ effects'[j] = k
    BY <2>1, <2>2, NewEffect
  <2>4. \A j \in DOMAIN effects : j < Len(effects) + 1
    BY <2>1
  <2>5. Waiting'
    BY <1>0, <2>2, <2>3
  <2>6. k \in expired \/ \A j \in DOMAIN effects : effects[j] < k
    BY <1>0
  <2>7. KeysTakeEffectInOrder'
    <3> SUFFICES ASSUME NEW i \in DOMAIN effects', NEW j \in DOMAIN effects', i < j
                 PROVE  effects'[i] < effects'[j] \/ effects'[j] \in expired
      BY <2>2 DEF KeysTakeEffectInOrder
    <3>1. i \in DOMAIN effects /\ effects'[i] = effects[i]
      <4>1. Len(effects) \in Nat /\ \A n \in DOMAIN effects : n <= Len(effects)
        BY <2>1
      <4> QED BY <2>3, <4>1
    <3>2. CASE j \in DOMAIN effects /\ effects'[j] = effects[j]
      BY <1>0, <3>1, <3>2 DEF KeysTakeEffectInOrder
    <3>3. CASE effects'[j] = k
      BY <2>6, <3>1, <3>3
    <3> QED BY <2>3, <3>2, <3>3
  <2>8. acting.key \in calls' => acting.key # k /\ acting.key \in calls
    BY <2>2
  <2>9. acting.key \in calls' => acting # Ready /\ k < acting.key
    BY <1>0, <1>t, <2>1, <2>8 DEF Ready
  <2>10. Calling'
    BY <1>0, <2>2, <2>3, <2>7, <2>8, <2>9
  <2> QED BY <1>0, <2>5, <2>10
<1>8. ASSUME NEW failed, Return(failed), calls' \subseteq calls, expired \subseteq expired',
             acting.key \in calls' => acting.key \in expired', UNCHANGED <<inbox, effects>>
      PROVE  OrderInv'
  <2>1. acting' = Ready /\ Ready.key = 0 /\ outcome' = "none"
    BY <1>8 DEF Return, Ready
  <2>2. Waiting'
    <3> SUFFICES ASSUME NEW i \in DOMAIN inbox, Keyed(inbox[i]) PROVE 0 < inbox[i].key
      BY <1>0, <1>8, <2>1
    <3>1. Given(inbox[i], pressed)
      BY DEF TInv
    <3> QED BY <1>t, <3>1 DEF Given
  <2>3. 0 \notin calls'
    BY <1>8, <1>t
  <2>4. KeysTakeEffectInOrder'
    BY <1>0, <1>8 DEF KeysTakeEffectInOrder
  <2>5. Calling'
    BY <1>0, <1>8, <2>1, <2>3, <2>4
  <2> QED BY <1>0, <2>2, <2>5
<1>9. CASE ActionReturns \/ ActionFails \/ ActionTimesOut
  BY <1>0, <1>8, <1>9 DEF ActionReturns, ActionFails, ActionTimesOut, Return
<1>10. CASE TimerFires
  <2>1. [type |-> "tick"] \in Messages /\ ~Keyed([type |-> "tick"])
    BY DEF Messages, Keyed
  <2> QED BY <1>2, <1>10, <2>1 DEF TimerFires
<1>11. ASSUME NEW f \in fetches, FetchAnswered(f) PROVE OrderInv'
  <2> DEFINE m == [type |-> "answer", source |-> f.source, number |-> f.number,
                   library |-> f.library]
  <2>1. m \in Messages /\ ~Keyed(m) /\ Send(m)
    BY <1>11 DEF Messages, Keyed, TInv, AllFetches, FetchAnswered
  <2> QED BY <1>2, <1>11, <2>1 DEF FetchAnswered
<1>12. CASE HandleView \/ RunBatch \/ HandleAnswer
  BY <1>5, <1>12 DEF HandleView, RunBatch, HandleAnswer
<1>14. CASE HandleTick
  <2>1. UNCHANGED <<acting, calls, effects, outcome, expired>>
    BY <1>14 DEF HandleTick
  <2>2. \A i \in DOMAIN inbox' : Keyed(inbox'[i]) =>
          i + 1 \in DOMAIN inbox /\ inbox'[i] = inbox[i + 1] /\ i \in Nat
    BY <1>14, TickTaken DEF Keyed, Batch
  <2>3. \A i, j \in DOMAIN inbox' :
          i < j /\ Keyed(inbox'[i]) /\ Keyed(inbox'[j]) => inbox'[i].key < inbox'[j].key
    BY <1>0, <2>2
  <2>4. Waiting'
    BY <1>0, <2>1, <2>2, <2>3
  <2> QED BY <1>0, <2>1, <2>4 DEF KeysTakeEffectInOrder
<1>13. CASE UNCHANGED vars \/ Tick \/ \E f \in fetches : FetchFails(f)
  BY <1>1, <1>13 DEF vars, Tick, FetchFails
<1> QED
  BY <1>3, <1>6, <1>7, <1>9, <1>10, <1>11, <1>12, <1>13, <1>14 DEF Next, Update

\* Only a key behind all effects becomes a call (OrderInv).
LEMMA OnceStep == TInv /\ OrderInv /\ OnceInv /\ [Next]_vars => OnceInv'
<1> SUFFICES ASSUME TInv, OrderInv, OnceInv, [Next]_vars PROVE OnceInv'
  OBVIOUS
<1>1. ASSUME UNCHANGED effects, calls' \subseteq calls PROVE OnceInv'
  BY <1>1 DEF OnceInv, KeyActsOnce
<1>2. CASE HandleAction
  <2>1. Take("act") /\ UNCHANGED effects /\ calls' \subseteq calls \cup {Head(inbox).key}
    BY <1>2 DEF HandleAction, Act
  <2>2. 1 \in DOMAIN inbox /\ Keyed(inbox[1]) /\ Head(inbox) = inbox[1]
    BY <2>1, Taken DEF TInv, Keyed
  <2>3. Given(inbox[1], pressed)
    BY <2>2 DEF TInv
  <2>4. inbox[1].key \in Nat
    BY <2>2, <2>3 DEF Given, TInv
  <2>5. \A j \in DOMAIN effects : effects[j] < inbox[1].key /\ effects[j] \in Nat
    BY <2>2 DEF OrderInv, TInv
  <2>6. \A j \in DOMAIN effects : effects[j] # inbox[1].key
    BY <2>4, <2>5
  <2> QED BY <2>1, <2>2, <2>6 DEF OnceInv, KeyActsOnce
<1>3. ASSUME NEW k \in calls, NEW result \in {"ok", "error"}, Execute(k, result)
      PROVE  OnceInv'
  <2>1. calls' = calls \ {k} /\ effects' = Append(effects, k)
    BY <1>3 DEF Execute
  <2>2. \A j \in DOMAIN effects' : \/ j \in DOMAIN effects /\ effects'[j] = effects[j]
                                   \/ j = Len(effects) + 1 /\ effects'[j] = k
    BY <2>1, NewEffect DEF TInv
  <2> QED BY <2>1, <2>2 DEF OnceInv, KeyActsOnce
<1>4. ASSUME NEW kind \in {"view", "act"}, PressKey(kind) PROVE OnceInv'
  BY <1>1, <1>4 DEF PressKey
<1>5. ASSUME NEW f \in fetches, FetchAnswered(f) \/ FetchFails(f) PROVE OnceInv'
  BY <1>1, <1>5 DEF FetchAnswered, FetchFails
<1>6. CASE HandleView \/ HandleTick \/ RunBatch \/ HandleAnswer
  BY <1>1, <1>6 DEF HandleView, HandleTick, RunBatch, HandleAnswer
<1>7. CASE ActionReturns \/ ActionFails \/ ActionTimesOut
  BY <1>1, <1>7 DEF ActionReturns, ActionFails, ActionTimesOut, Return
<1>8. CASE UNCHANGED vars \/ Tick \/ TimerFires
  BY <1>1, <1>8 DEF vars, Tick, TimerFires
<1> QED BY <1>2, <1>3, <1>4, <1>5, <1>6, <1>7, <1>8 DEF Next, Update

-----------------------------------------------------------------------------
LEMMA TickStep == TInv /\ TickInv /\ [Next]_vars => TickInv'
<1> SUFFICES ASSUME TInv, TickInv, [Next]_vars PROVE TickInv'
  OBVIOUS
<1> USE NumbersAreApart DEF OneTickBehind, LateFetch, LateAnswer
<1>t. /\ inbox \in Seq(Messages) /\ now \in Nat /\ timer \in Nat /\ rounds \in Nat
      /\ \A i \in DOMAIN inbox : inbox[i] \in Messages /\ i \in Nat \ {0}
      /\ \A f \in fetches : f.deadline \in Nat /\ f.number \in Nat
      /\ \A i \in DOMAIN inbox : inbox[i].type \in {"answer", "batch"} => inbox[i].number \in Nat
  <2>1. \A i \in DOMAIN inbox : inbox[i] \in Messages /\ i \in Nat \ {0}
    BY DEF TInv
  <2>2. \A f \in fetches : f.deadline \in Nat /\ f.number \in Nat
    BY DEF TInv, AllFetches
  <2>3. inbox \in Seq(Messages) /\ now \in Nat /\ timer \in Nat /\ rounds \in Nat
    BY DEF TInv, Unarmed
  <2> QED BY <2>1, <2>2, <2>3, Fields
<1>1. CASE UNCHANGED <<now, inbox, timer, rounds, fetches>>
  BY <1>1 DEF TickInv
\* A message is sent that is no tick, and no batch.
<1>2. ASSUME NEW m \in Messages, Send(m), m.type \notin {"tick", "batch"}, ~LateAnswer(m),
             m.type = "answer" /\ m.source = "tick" => m.number + 1 >= rounds,
             UNCHANGED <<now, timer, rounds>>, fetches' \subseteq fetches
      PROVE  TickInv'
  <2>1. /\ \A i \in DOMAIN inbox : i \in DOMAIN inbox' /\ inbox'[i] = inbox[i]
        /\ \A i \in DOMAIN inbox' : (i \in DOMAIN inbox /\ inbox'[i] = inbox[i]) \/ inbox'[i] = m
    BY <1>2, <1>t, Sent
  <2>2. ASSUME timer = Unarmed
        PROVE  \E i \in DOMAIN inbox' : inbox'[i].type = "tick" /\ \A j \in DOMAIN inbox' :
                 /\ inbox'[j].type = "tick" => j = i
                 /\ LateAnswer(inbox'[j]) => j < i
    <3>1. PICK i \in DOMAIN inbox : inbox[i].type = "tick" /\ \A j \in DOMAIN inbox :
                 /\ inbox[j].type = "tick" => j = i
                 /\ LateAnswer(inbox[j]) => j < i
      BY <2>2 DEF TickInv
    <3> QED BY <1>2, <2>1, <3>1
  <2> QED BY <1>2, <2>1, <2>2 DEF TickInv
<1>3. ASSUME NEW kind \in {"view", "act"}, PressKey(kind) PROVE TickInv'
  <2> DEFINE m == [type |-> kind, key |-> pressed + 1]
  <2>1. m \in Messages /\ m.type \notin {"tick", "batch", "answer"} /\ Send(m)
    BY <1>3 DEF Messages, PressKey, TInv
  <2> QED BY <1>2, <1>3, <2>1 DEF PressKey
<1>4. CASE TimerFires
  <2> DEFINE m == [type |-> "tick"]
  <2>1. m \in Messages /\ m.type = "tick" /\ Send(m)
    BY <1>4 DEF Messages, TimerFires
  <2> HIDE DEF m
  <2>2. /\ timer # Unarmed /\ timer <= now /\ timer' = Unarmed /\ UNCHANGED <<now, rounds, fetches>>
        /\ \A i \in DOMAIN inbox : inbox[i].type # "batch"
    BY <1>4 DEF TimerFires, TInv, Unarmed, Waits
  <2>3. \A f \in fetches : ~LateFetch(f)
    BY <1>t, <2>2 DEF TickInv
  <2>4. \A i \in DOMAIN inbox : inbox[i].type # "tick"
    BY <2>2 DEF TickInv
  <2>5. /\ Len(inbox) \in Nat /\ DOMAIN inbox = 1 .. Len(inbox)
        /\ Len(inbox) + 1 \in DOMAIN inbox' /\ inbox'[Len(inbox) + 1] = m
        /\ \A i \in DOMAIN inbox' : \/ i \in DOMAIN inbox /\ inbox'[i] = inbox[i]
                                    \/ i = Len(inbox) + 1 /\ inbox'[i] = m
    BY <2>1, Sent DEF TInv
  <2>6. \A j \in DOMAIN inbox' :
          /\ inbox'[j].type # "batch"
          /\ inbox'[j].type = "tick" => j = Len(inbox) + 1
          /\ LateAnswer(inbox'[j]) => j < Len(inbox) + 1
    BY <2>1, <2>2, <2>4, <2>5
  <2>7. OneTickBehind'
    BY <2>1, <2>2, <2>5 DEF TickInv
  <2> QED BY <2>1, <2>2, <2>3, <2>5, <2>6, <2>7 DEF TickInv
<1>5. ASSUME NEW f \in fetches, FetchAnswered(f) PROVE TickInv'
  <2> DEFINE m == [type |-> "answer", source |-> f.source, number |-> f.number,
                   library |-> f.library]
  <2>1. /\ m \in Messages /\ m.type = "answer" /\ m.source = f.source /\ m.number = f.number
        /\ Send(m)
    BY <1>5 DEF Messages, TInv, AllFetches, FetchAnswered
  <2> HIDE DEF m
  <2>2. fetches' = fetches \ {f} /\ UNCHANGED <<now, timer, rounds>>
    BY <1>5 DEF FetchAnswered
  <2>3. m.source = "tick" => m.number + 1 >= rounds
    BY <2>1 DEF TickInv
  <2>4. CASE ~LateFetch(f)
    BY <1>2, <2>1, <2>2, <2>3, <2>4
  <2>5. CASE LateFetch(f)
    <3>1. timer # Unarmed /\ timer' # Unarmed
      BY <2>2, <2>5 DEF TickInv, Unarmed
    <3>2. \A i \in DOMAIN inbox' : \/ i \in DOMAIN inbox /\ inbox'[i] = inbox[i]
                                   \/ i = Len(inbox) + 1 /\ inbox'[i] = m
      BY <2>1, Sent DEF TInv
    <3> QED BY <2>1, <2>2, <2>3, <3>1, <3>2 DEF TickInv
  <2> QED BY <2>4, <2>5
<1>6. ASSUME NEW f \in fetches, FetchFails(f) PROVE TickInv'
  BY <1>6 DEF FetchFails, TickInv
\* A message that is not a tick is taken, and no fetch of a tick before the last
\* begins.
<1>7. ASSUME NEW type \in {"view", "act", "answer", "batch"}, Take(type),
             UNCHANGED <<now, timer, rounds>>,
             NEW new \in AllFetches, fetches' \subseteq fetches \cup {new}, ~LateFetch(new),
             new.deadline = now + FetchTimeout
      PROVE  TickInv'
  <2>1. /\ \A i \in DOMAIN inbox' : i + 1 \in DOMAIN inbox /\ inbox'[i] = inbox[i + 1]
                                    /\ i \in Nat \ {0}
        /\ \A i \in DOMAIN inbox : i # 1 => i - 1 \in DOMAIN inbox' /\ inbox'[i - 1] = inbox[i]
        /\ inbox[1].type # "tick"
    <3>1. /\ Len(inbox) \in Nat \ {0}
          /\ DOMAIN inbox = 1 .. Len(inbox) /\ DOMAIN inbox' = 1 .. (Len(inbox) - 1)
          /\ \A i \in DOMAIN inbox' : i + 1 \in DOMAIN inbox /\ inbox'[i] = inbox[i + 1]
          /\ \A i \in DOMAIN inbox : i # 1 => i - 1 \in DOMAIN inbox' /\ inbox'[i - 1] = inbox[i]
          /\ inbox[1].type = type
      BY <1>7, Taken DEF TInv
    <3>2. \A i \in DOMAIN inbox' : i \in Nat \ {0}
      BY <3>1
    <3> QED BY <1>7, <3>1, <3>2
  <2>2. ASSUME timer = Unarmed
        PROVE  \E i \in DOMAIN inbox' : inbox'[i].type = "tick" /\ \A j \in DOMAIN inbox' :
                 /\ inbox'[j].type = "tick" => j = i
                 /\ LateAnswer(inbox'[j]) => j < i
    <3>1. PICK i \in DOMAIN inbox : inbox[i].type = "tick" /\ \A j \in DOMAIN inbox :
                 /\ inbox[j].type = "tick" => j = i
                 /\ LateAnswer(inbox[j]) => j < i
      BY <2>2 DEF TickInv
    <3>2. i # 1 /\ i - 1 \in DOMAIN inbox' /\ inbox'[i - 1] = inbox[i] /\ i \in Nat
      BY <1>t, <2>1, <3>1
    <3>3. \A j \in DOMAIN inbox' :
                 /\ inbox'[j].type = "tick" => j = i - 1
                 /\ LateAnswer(inbox'[j]) => j < i - 1
      BY <1>7, <2>1, <3>1, <3>2
    <3> QED BY <3>1, <3>2, <3>3
  <2>3. /\ \A f \in fetches' : now <= f.deadline /\ f.deadline <= now + FetchTimeout
        /\ \A f \in fetches' : f \in fetches \/ ~LateFetch(f)
    BY <1>t, <1>7 DEF TickInv
  <2>4. \A f \in fetches' : f.source = "tick" => f.number + 1 >= rounds
    <3>1. new.number \in Nat
      BY DEF AllFetches
    <3> QED BY <1>t, <1>7, <3>1 DEF TickInv
  <2> QED BY <1>7, <2>1, <2>2, <2>3, <2>4 DEF TickInv
<1>8. CASE HandleTick
  <2>1. /\ inbox[1].type = "tick" /\ 1 \in DOMAIN inbox
        /\ \A i \in DOMAIN inbox' : i \in Nat \ {0} /\
             \/ i + 1 \in DOMAIN inbox /\ inbox'[i] = inbox[i + 1]
             \/ needsRefresh /\ inbox'[i] = Batch("tick", rounds + 1, view = "library")
    BY <1>8, TickTaken
  <2>2. timer = Unarmed /\ \A f \in fetches : ~LateFetch(f)
    BY <2>1 DEF TickInv
  <2>3. PICK n \in DOMAIN inbox : inbox[n].type = "tick" /\ \A j \in DOMAIN inbox :
               /\ inbox[j].type = "tick" => j = n
               /\ LateAnswer(inbox[j]) => j < n
    BY <2>2 DEF TickInv
  <2>4. \A j \in DOMAIN inbox : j # 1 =>
          inbox[j].type \notin {"tick", "batch"} /\ ~LateAnswer(inbox[j])
    BY <1>t, <2>1, <2>2, <2>3 DEF TickInv
  <2>5. /\ timer' = now + TickInterval /\ UNCHANGED <<now, fetches>> /\ timer' # Unarmed
        /\ rounds' \in {rounds, rounds + 1} /\ (needsRefresh => rounds' = rounds + 1)
    BY <1>8 DEF HandleTick, TInv
  <2>6. \A i \in DOMAIN inbox' :
          \/ inbox'[i] = Batch("tick", rounds', view = "library")
          \/ /\ inbox'[i].type \notin {"tick", "batch"}
             /\ inbox'[i].type = "answer" /\ inbox'[i].source = "tick" =>
                  inbox'[i].number + 1 >= rounds'
    <3> SUFFICES ASSUME NEW i \in DOMAIN inbox', i + 1 \in DOMAIN inbox,
                        inbox'[i] = inbox[i + 1]
                 PROVE  /\ inbox'[i].type \notin {"tick", "batch"}
                        /\ inbox'[i].type = "answer" /\ inbox'[i].source = "tick" =>
                             inbox'[i].number + 1 >= rounds'
      BY <2>1, <2>5
    <3>1. i + 1 # 1
      BY <2>1
    <3> QED BY <1>t, <2>4, <2>5, <3>1
  <2>7. \A f \in fetches' : f.deadline < timer'
    BY <1>t, <2>5 DEF TickInv
  <2>8. \A f \in fetches' : f.source = "tick" => f.number + 1 >= rounds'
    BY <1>t, <2>2, <2>5
  <2> QED BY <1>t, <2>5, <2>6, <2>7, <2>8 DEF TickInv, Batch
<1>9. CASE HandleView \/ HandleAction \/ HandleAnswer
  <2>1. PICK type \in {"view", "act", "answer"} : Take(type)
    BY <1>9 DEF HandleView, HandleAction, HandleAnswer
  <2>2. UNCHANGED <<now, timer, rounds, fetches>>
    BY <1>9 DEF HandleView, HandleAction, HandleAnswer
  <2>3. Fetch("init", 0, TRUE) \in AllFetches /\ ~LateFetch(Fetch("init", 0, TRUE))
        /\ Fetch("init", 0, TRUE).deadline = now + FetchTimeout
    BY <1>t DEF Fetch, AllFetches, Sources
  <2> QED BY <1>7, <2>1, <2>2, <2>3
<1>10. CASE RunBatch
  <2> DEFINE b == inbox[1]
             new == Fetch(b.source, b.number, b.library)
  <2>1. /\ Take("batch") /\ UNCHANGED <<now, timer, rounds>> /\ Head(inbox) = b
        /\ b \in Messages /\ b.type = "batch" /\ 1 \in DOMAIN inbox
    BY <1>10, <1>t, Taken DEF RunBatch
  <2>2. fetches' = fetches \cup {new}
    BY <1>10, <2>1 DEF RunBatch, Begin
  <2>3. /\ b.source \in Sources /\ b.library \in BOOLEAN /\ b.number \in Nat
        /\ b.source = "tick" => b.number >= rounds
    BY <2>1, Fields DEF TickInv
  <2> HIDE DEF b
  <2>4. new \in AllFetches /\ new.deadline = now + FetchTimeout /\ ~LateFetch(new)
    BY <1>t, <2>3 DEF Fetch, AllFetches
  <2> QED BY <1>7, <2>1, <2>2, <2>4
<1>11. CASE ActionReturns \/ ActionFails \/ ActionTimesOut
  <2>1. PICK failed : Return(failed)
    BY <1>11 DEF ActionReturns, ActionFails, ActionTimesOut
  <2>2. UNCHANGED <<now, inbox, timer, rounds>>
    BY <2>1 DEF Return
  <2>3. PICK new \in [source : {"action"}, number : {acting.key}, library : {FALSE},
                      deadline : {now + FetchTimeout}] : fetches' = fetches \cup {new}
    BY <2>1 DEF Return, Begin, Fetch
  <2>4. new.source # "tick" /\ new.deadline >= now /\ new.deadline <= now + FetchTimeout
    BY <1>t, <2>3
  <2> QED BY <2>2, <2>3, <2>4 DEF TickInv
<1>12. CASE Tick
  <2>1. /\ now' = now + 1 /\ UNCHANGED <<inbox, timer, rounds, fetches>>
        /\ \A f \in fetches : f.deadline > now
    BY <1>12 DEF Tick
  <2>2. \A f \in fetches : now' <= f.deadline /\ f.deadline <= now' + FetchTimeout
    BY <1>t, <2>1 DEF TickInv
  <2> QED BY <2>1, <2>2 DEF TickInv
<1>13. ASSUME NEW k \in calls, NEW result \in {"ok", "error"}, Execute(k, result) PROVE TickInv'
  BY <1>1, <1>13 DEF Execute
<1>14. CASE UNCHANGED vars
  BY <1>1, <1>14 DEF vars
<1> QED
  BY <1>3, <1>4, <1>5, <1>6, <1>8, <1>9, <1>10, <1>11, <1>12, <1>13, <1>14 DEF Next, Update

-----------------------------------------------------------------------------
LEMMA RespondingStep == TInv /\ RespondingInv /\ [Next]_vars => RespondingInv'
<1> SUFFICES ASSUME TInv, RespondingInv, [Next]_vars PROVE RespondingInv'
  OBVIOUS
<1> USE DEF RespondingInv, Waits
<1>1. CASE UNCHANGED <<inbox, shown, fetches, missed, needsRefresh, acting>>
  BY <1>1
<1>2. ASSUME NEW m \in Messages, Send(m), UNCHANGED <<shown, missed, needsRefresh, acting>>
      PROVE  /\ \A type : Waits(type) => Waits(type)'
             /\ Waits(m.type)'
  <2>1. /\ \A i \in DOMAIN inbox : i \in DOMAIN inbox' /\ inbox'[i] = inbox[i]
        /\ Len(inbox) + 1 \in DOMAIN inbox' /\ inbox'[Len(inbox) + 1] = m
    BY <1>2, Sent DEF TInv
  <2> QED BY <2>1
<1>3. ASSUME NEW kind \in {"view", "act"}, PressKey(kind) PROVE RespondingInv'
  <2>1. [type |-> kind, key |-> pressed + 1] \in Messages
    BY DEF Messages, TInv
  <2> QED BY <1>2, <1>3, <2>1 DEF PressKey
<1>4. CASE TimerFires
  <2>1. [type |-> "tick"] \in Messages
    BY DEF Messages
  <2> QED BY <1>2, <1>4, <2>1 DEF TimerFires
<1>5. ASSUME NEW f \in fetches, FetchAnswered(f) PROVE RespondingInv'
  <2> DEFINE m == [type |-> "answer", source |-> f.source, number |-> f.number,
                   library |-> f.library]
  <2>1. m \in Messages /\ m.type = "answer" /\ Send(m)
    BY <1>5 DEF Messages, TInv, AllFetches, FetchAnswered
  <2> HIDE DEF m
  <2>2. UNCHANGED <<shown, missed, needsRefresh, acting>>
    BY <1>5 DEF FetchAnswered
  <2> QED BY <1>2, <2>1, <2>2
<1>6. ASSUME NEW f \in fetches, FetchFails(f) PROVE RespondingInv'
  BY <1>6 DEF FetchFails
<1>7. ASSUME NEW type, Take(type), NEW other, other # type, Waits(other)
      PROVE  Waits(other)'
  <2>1. PICK i \in DOMAIN inbox : inbox[i].type = other
    BY <1>7
  <2>2. i # 1 /\ i - 1 \in DOMAIN inbox' /\ inbox'[i - 1] = inbox[i]
    BY <1>7, <2>1, Taken DEF TInv
  <2> QED BY <2>1, <2>2
<1>8. CASE HandleView \/ HandleAction
  BY <1>8 DEF HandleView, HandleAction
<1>9. CASE HandleTick
  <2>1. CASE needsRefresh
    <3>1. Waits("batch")'
      BY <1>9, <2>1, TickTaken DEF Batch
    <3>2. acting' = Ready
      BY <1>9 DEF HandleTick
    <3> QED BY <3>1, <3>2
  <2>2. CASE ~needsRefresh
    <3>1. inbox' = Tail(inbox) /\ acting = Ready /\ Take("tick")
      BY <1>9, <2>2 DEF HandleTick, Take
    <3>2. UNCHANGED <<shown, fetches, missed, acting>>
      BY <1>9, <2>2 DEF HandleTick
    <3>3. /\ Waits("answer") => Waits("answer")'
          /\ Waits("batch") => Waits("batch")'
      <4> HIDE DEF Waits
      <4> QED BY <1>7, <3>1
    <3> QED BY <2>2, <3>2, <3>3
  <2> QED BY <2>1, <2>2
<1>10. CASE HandleAnswer
  BY <1>10 DEF HandleAnswer, Take
<1>11. CASE RunBatch
  <2> DEFINE new == Fetch(Head(inbox).source, Head(inbox).number, Head(inbox).library)
  <2>1. Take("batch") /\ new \in fetches' /\ acting' = Ready
    BY <1>11 DEF RunBatch, Begin, Take
  <2>2. Head(inbox).source # "action"
    BY <2>1, Taken, Fields DEF TInv
  <2>3. new.source # "action"
    BY <2>2 DEF Fetch
  <2> QED BY <2>1, <2>3
<1>12. CASE ActionReturns \/ ActionFails \/ ActionTimesOut
  BY <1>12 DEF ActionReturns, ActionFails, ActionTimesOut, Return, Begin
<1>13. CASE UNCHANGED vars \/ Tick
  BY <1>1, <1>13 DEF vars, Tick
<1>14. ASSUME NEW k \in calls, NEW result \in {"ok", "error"}, Execute(k, result)
       PROVE  RespondingInv'
  BY <1>1, <1>14 DEF Execute
<1> QED
  BY <1>3, <1>4, <1>5, <1>6, <1>8, <1>9, <1>10, <1>11, <1>12, <1>13, <1>14 DEF Next, Update

-----------------------------------------------------------------------------
LEMMA Invariants == Spec => [](TInv /\ OrderInv /\ OnceInv /\ TickInv /\ RespondingInv)
<1>1. Init => OrderInv /\ OnceInv /\ TickInv /\ RespondingInv
  <2> SUFFICES ASSUME Init PROVE OrderInv /\ OnceInv /\ TickInv /\ RespondingInv
    OBVIOUS
  <2> DEFINE m == Batch("init", 0, TRUE)
  <2>1. m.type = "batch" /\ m.source = "init"
    BY DEF Batch
  <2>2. inbox = <<m>> /\ effects = <<>> /\ fetches = {} /\ calls = {} /\ outcome = "none"
        /\ timer = TickInterval /\ acting = Ready
    BY DEF Init
  <2> HIDE DEF m
  <2>3. DOMAIN inbox = {1} /\ inbox[1] = m /\ DOMAIN effects = {} /\ timer # Unarmed
    BY <2>2, NumbersAreApart DEF Unarmed
  <2>4. OrderInv /\ OnceInv
    BY <2>1, <2>2, <2>3 DEF OrderInv, KeysTakeEffectInOrder, OnceInv, KeyActsOnce, Keyed
  <2>5. TickInv
    BY <2>1, <2>2, <2>3 DEF TickInv, OneTickBehind
  <2>6. RespondingInv
    BY <2>1, <2>2, <2>3 DEF RespondingInv, Waits
  <2> QED BY <2>4, <2>5, <2>6
<1> QED BY <1>1, TypesInit, TypesStep, OrderStep, OnceStep, TickStep, RespondingStep, PTL DEF Spec

\* The variables have their types, and only an action has an outcome.
THEOREM TypeCorrect == Spec => []TypeOK
<1>1. TInv => TypeOK
  BY DEF TInv, TypeOK
<1> QED BY <1>1, Invariants, PTL

\* Update waits for an action, so the keys take effect in the order in which
\* they were pressed, except those it gave up (executeAction).
THEOREM KeysInOrder == Spec => []KeysTakeEffectInOrder
<1>1. OrderInv => KeysTakeEffectInOrder
  BY DEF OrderInv
<1> QED BY <1>1, Invariants, PTL

\* No key takes effect twice: a call that was given up is not made again, and
\* the daemon forgets what it has executed (executeAction, CallWithContext).
THEOREM KeysActOnce == Spec => []KeyActsOnce
<1>1. OnceInv => KeyActsOnce
  BY DEF OnceInv
<1> QED BY <1>1, Invariants, PTL

\* While "Daemon not responding" is on the screen, the next tick fetches, or an
\* answer is awaited, unless the fetch of a tick has failed since the last key
\* (executeAction, Update, View).
THEOREM NotRespondingChecked == Spec => []NotRespondingIsChecked
<1>1. TickInv => timer # Unarmed \/ Waits("tick")
  BY DEF TickInv, Waits
<1>2. TInv /\ TickInv /\ RespondingInv => NotRespondingIsChecked
  <2> SUFFICES ASSUME TInv, TickInv, RespondingInv, ~shown.responding
               PROVE  Awaited \/ NextTickAsks \/ missed
    BY DEF NotRespondingIsChecked, Screen, TInv
  <2>1. (\E f \in fetches : f.source # "action") => fetches # {}
    OBVIOUS
  <2> QED BY <1>1, <2>1 DEF RespondingInv, Awaited, NextTickAsks
<1> QED BY <1>2, Invariants, PTL

\* A fetch gives up before the timer of the next tick is due, so what a tick has
\* fetched is dealt with before the second tick after it, however long batches
\* and ticks wait behind actions (Update, tickCmd, fetchState).
THEOREM TicksInOrder == Spec => []OneTickBehind
<1>1. TickInv => OneTickBehind
  BY DEF TickInv
<1> QED BY <1>1, Invariants, PTL
=============================================================================
