-------------------------- MODULE SignalStreamProofs --------------------------
(* What signalling to one user guarantees for any number of rooms, senders *)
(* and streams: each signal is in one place, in order, no wake-up is lost, *)
(* and the queue with its readers implements the mailbox.                  *)
EXTENDS SignalStream, SequenceTheorems, TLAPS

Increasing(s) == \A i, j \in 1..Len(s) : i < j => s[i] < s[j]

(* The contents of an empty, a longer and a shorter sequence.               *)
LEMMA ContentsEmpty == Contents(<<>>) = {}
BY DEF Contents

LEMMA ContentsNonEmpty ==
  ASSUME NEW S, NEW s \in Seq(S), s # <<>>
  PROVE  Contents(s) # {}
<1>1. 1 \in 1..Len(s)
  BY EmptySeq, LenProperties
<1>2. QED
  BY <1>1 DEF Contents

LEMMA ContentsType ==
  ASSUME NEW S, NEW s \in Seq(S)
  PROVE  Contents(s) \subseteq S
BY ElementOfSeq DEF Contents

LEMMA ContentsAppend ==
  ASSUME NEW S, NEW s \in Seq(S), NEW e \in S
  PROVE  Contents(Append(s, e)) = Contents(s) \cup {e}
<1> DEFINE t == Append(s, e)
<1>1. /\ Len(s) \in Nat
      /\ Len(t) = Len(s) + 1
      /\ \A i \in 1..Len(s) : t[i] = s[i]
      /\ t[Len(s) + 1] = e
  BY AppendProperties, LenProperties
<1>2. 1..Len(s) + 1 = 1..Len(s) \cup {Len(s) + 1}
  BY <1>1
<1> HIDE DEF t
<1>3. Contents(t) = {t[i] : i \in 1..Len(s)} \cup {t[Len(s) + 1]}
  BY <1>1, <1>2 DEF Contents
<1>4. {t[i] : i \in 1..Len(s)} = Contents(s)
  BY <1>1 DEF Contents
<1>5. QED
  BY <1>1, <1>3, <1>4 DEF t

(* Taking the head of an increasing sequence: what is left is increasing,   *)
(* and does not have the head any more.                                     *)
LEMMA ContentsTail ==
  ASSUME NEW S, S \subseteq Nat, NEW s \in Seq(S), s # <<>>, Increasing(s)
  PROVE  /\ Head(s) \in S /\ Tail(s) \in Seq(S)
         /\ Contents(s) = {Head(s)} \cup Contents(Tail(s))
         /\ Head(s) \notin Contents(Tail(s))
         /\ Increasing(Tail(s))
         /\ Tail(s) # <<>> <=> Len(s) > 1
<1> DEFINE t == Tail(s)
<1>1. /\ Head(s) = s[1] /\ Head(s) \in S /\ t \in Seq(S)
      /\ Len(s) \in Nat \ {0} /\ Len(t) = Len(s) - 1
      /\ \A i \in 1..Len(t) : t[i] = s[i + 1]
  BY HeadTailProperties, LenProperties, EmptySeq
<1>2. t = <<>> <=> Len(t) = 0
  BY <1>1, EmptySeq
<1>3. \A i \in 1..Len(s) : s[i] \in Nat
  BY ElementOfSeq
<1> HIDE DEF t
<1>4. \A n : n \in Contents(s) <=> n = s[1] \/ n \in Contents(t)
  <2>1. ASSUME NEW n \in Contents(s), n # s[1]
        PROVE  n \in Contents(t)
    <3>1. PICK i \in 1..Len(s) : n = s[i]
      BY DEF Contents
    <3>2. i - 1 \in 1..Len(t) /\ t[i - 1] = s[i]
      BY <1>1, <2>1, <3>1
    <3>3. QED
      BY <3>1, <3>2 DEF Contents
  <2>2. ASSUME NEW n \in Contents(t)
        PROVE  n \in Contents(s)
    <3>1. PICK i \in 1..Len(t) : n = t[i]
      BY DEF Contents
    <3>2. i + 1 \in 1..Len(s) /\ n = s[i + 1]
      BY <1>1, <3>1
    <3>3. QED
      BY <3>2 DEF Contents
  <2>3. s[1] \in Contents(s)
    BY <1>1 DEF Contents
  <2>4. QED
    BY <2>1, <2>2, <2>3
<1>5. s[1] \notin Contents(t)
  BY <1>1, <1>3 DEF Contents, Increasing
<1>6. Increasing(t)
  BY <1>1 DEF Increasing
<1>7. t # <<>> <=> Len(s) > 1
  BY <1>1, <1>2
<1>8. QED
  BY <1>1, <1>4, <1>5, <1>6, <1>7 DEF t

(* A number larger than every element keeps a sequence increasing.          *)
LEMMA IncreasingAppend ==
  ASSUME NEW S, S \subseteq Nat, NEW s \in Seq(S), NEW e \in S, Increasing(s),
         \A n \in Contents(s) : n < e
  PROVE  Increasing(Append(s, e))
<1> DEFINE t == Append(s, e)
<1>1. /\ Len(s) \in Nat
      /\ Len(t) = Len(s) + 1
      /\ \A i \in 1..Len(s) : t[i] = s[i] /\ s[i] < e
      /\ t[Len(s) + 1] = e
  BY AppendProperties, LenProperties DEF Contents
<1> HIDE DEF t
<1>2. Increasing(t)
  BY <1>1 DEF Increasing
<1>3. QED
  BY <1>2 DEF t

-----------------------------------------------------------------------------
(* The inductive invariant.  A drain overwrites the stream's batch, so the *)
(* batch must be empty by then (Flow); a signal written to a client is not *)
(* in the rest of the batch because batches are increasing (OrderKept).    *)
(* Flow also carries the promise of NoLostWakeup through a drain: it holds *)
(* of the rooms the drain has behind it.                                   *)
Pending(r) == \E x \in Senders : sender[x].at \in {"hook", "notify"} /\ sender[x].room = r

Flow ==
  /\ \A s \in Streams : pc[s] = "write" <=> batch[s] # <<>>
  /\ \A s \in Streams : pc[s] \in {"closed", "list", "wait"} => todo[s] = {}
  /\ \A s \in Streams : \A r \in Rooms :
       /\ pc[s] \in {"drain", "write", "wait"} /\ tokens[s] = 0
       /\ r \in listed[s] /\ r \notin todo[s] /\ queue[r] # <<>>
       => Pending(r)

IInv == TypeOK /\ Flow /\ SignalConservation /\ OrderKept

LEMMA InitIInv == Init => IInv
<1> SUFFICES ASSUME Init
             PROVE  IInv
  OBVIOUS
<1>0. <<>> \in Seq(1..MaxSignals)
  OBVIOUS
<1>1. TypeOK
  BY <1>0, SignalAssumption DEF Init, TypeOK, IdleSender
<1>2. Flow
  BY DEF Init, Flow
<1>3. SignalConservation
  BY SignalAssumption DEF Init, SignalConservation, Handed, Contents
<1>4. OrderKept
  BY DEF Init, OrderKept
<1>5. QED
  BY <1>1, <1>2, <1>3, <1>4 DEF IInv

(* The type invariant.                                                     *)
LEMMA TypeStep ==
  ASSUME TypeOK, Flow, OrderKept, [Next]_vars
  PROVE  TypeOK'
<1> USE DEF senderVars, streamVars
<1>0. IdleSender.room \in Rooms /\ IdleSender.at = "idle" /\ IdleSender.relay = FALSE
      /\ IdleSender = [at |-> "idle", room |-> IdleSender.room, relay |-> FALSE]
  BY SignalAssumption DEF IdleSender
<1>t. ChanSize \in Nat \ {0} /\ 0 \in 0..ChanSize
  BY SignalAssumption
<1>n. ASSUME Notify
      PROVE  tokens' \in [Streams -> 0..ChanSize]
  BY <1>n, <1>t DEF Notify, TypeOK
<1> DEFINE At == {"idle", "queue", "hook", "notify"}
           SenderState == [at: At, room: Rooms, relay: BOOLEAN]
<1>s. ASSUME NEW x \in Senders, NEW a \in At, NEW r \in Rooms, NEW b \in BOOLEAN
      PROVE  [sender EXCEPT ![x] = [at |-> a, room |-> r, relay |-> b]]
               \in [Senders -> SenderState]
  BY DEF TypeOK
<1>a. ASSUME NEW x \in Senders, NEW a \in At
      PROVE  [sender EXCEPT ![x].at = a] \in [Senders -> SenderState]
  <2>1. sender[x] \in SenderState
    BY DEF TypeOK
  <2>2. [sender[x] EXCEPT !.at = a] \in SenderState
    BY <2>1
  <2>3. QED
    BY <2>2 DEF TypeOK
<1>1. ASSUME NEW x \in Senders, NEW r \in Rooms, CheckMember(x, r) \/ RelaySignal(x, r)
      PROVE  TypeOK'
  <2>1. [sender EXCEPT ![x] = [at |-> "queue", room |-> r, relay |-> FALSE]]
          \in [Senders -> SenderState]
    BY <1>s
  <2>2. [sender EXCEPT ![x] = [at |-> "queue", room |-> r, relay |-> TRUE]]
          \in [Senders -> SenderState]
    BY <1>s
  <2> HIDE DEF SenderState
  <2>3. sender' \in [Senders -> SenderState]
    BY <1>1, <2>1, <2>2 DEF CheckMember, RelaySignal
  <2>4. QED
    BY <1>1, <2>3 DEF CheckMember, RelaySignal, TypeOK, SenderState
<1>2. ASSUME NEW x \in Senders, QueueSignal(x)
      PROVE  TypeOK'
  <2>1. count + 1 \in 1..MaxSignals /\ sender[x].room \in Rooms
    BY <1>2, SignalAssumption DEF QueueSignal, TypeOK
  <2>2. queue' \in [Rooms -> Seq(1..MaxSignals)]
    BY <1>2, <2>1, AppendProperties DEF QueueSignal, TypeOK
  <2>3. sender' \in [Senders -> SenderState]
    BY <1>2, <1>a DEF QueueSignal
  <2>4. count' \in 0..MaxSignals
    BY <1>2, <2>1 DEF QueueSignal
  <2>5. QED
    BY <1>2, <2>2, <2>3, <2>4 DEF QueueSignal, TypeOK
<1>3. ASSUME NEW x \in Senders, HookNotify(x) \/ SenderNotify(x)
      PROVE  TypeOK'
  <2>1. IdleSender \in SenderState
    BY <1>0
  <2>2. [sender EXCEPT ![x] = IdleSender] \in [Senders -> SenderState]
    BY <2>1 DEF TypeOK
  <2>3. [sender[x] EXCEPT !.at = "notify"] \in SenderState
    BY DEF TypeOK
  <2>4. [sender EXCEPT ![x] = [sender[x] EXCEPT !.at = "notify"]] \in [Senders -> SenderState]
    BY <2>3 DEF TypeOK
  <2>5. sender' \in [Senders -> SenderState]
    BY <1>3, <2>2, <2>4 DEF HookNotify, SenderNotify
  <2>6. QED
    BY <1>3, <1>n, <2>5 DEF HookNotify, SenderNotify, TypeOK
<1>4. ASSUME NEW s \in Streams, Open(s) \/ Wake(s) \/ Close(s)
      PROVE  TypeOK'
  <2>1. tokens[s] > 0 => tokens[s] - 1 \in 0..ChanSize
    BY <1>t DEF TypeOK
  <2>2. tokens' \in [Streams -> 0..ChanSize]
    BY <1>4, <1>t, <2>1 DEF Open, Wake, Close, TypeOK
  <2>3. QED
    BY <1>4, <2>2 DEF Open, Wake, Close, TypeOK
<1>5. ASSUME NEW s \in Streams, ListChats(s)
      PROVE  TypeOK'
  BY <1>5 DEF ListChats, TypeOK
<1>6. ASSUME NEW s \in Streams, NEW r \in Rooms, DrainSignal(s, r)
      PROVE  TypeOK'
  BY <1>6 DEF DrainSignal, AfterDrain, TypeOK
<1>7. ASSUME NEW s \in Streams, WriteEvent(s)
      PROVE  TypeOK'
  <2>1. batch[s] \in Seq(1..MaxSignals) /\ batch[s] # <<>>
    BY <1>7 DEF WriteEvent, TypeOK, Flow
  <2>2. Head(batch[s]) \in 1..MaxSignals /\ Tail(batch[s]) \in Seq(1..MaxSignals)
    BY <2>1, HeadTailProperties
  <2>3. Append(delivered[s], Head(batch[s])) \in Seq(1..MaxSignals)
    BY <2>2, AppendProperties DEF TypeOK
  <2>4. QED
    BY <1>7, <2>2, <2>3 DEF WriteEvent, TypeOK
<1>8. ASSUME NEW s \in Streams, Disconnect(s)
      PROVE  TypeOK'
  BY <1>8 DEF Disconnect, TypeOK
<1>9. ASSUME NEW r \in Rooms, ChangeMembership(r)
      PROVE  TypeOK'
  BY <1>9 DEF ChangeMembership, TypeOK
<1>10. CASE UNCHANGED vars
  BY <1>10 DEF vars, TypeOK
<1>11. QED
  BY <1>1, <1>2, <1>3, <1>4, <1>5, <1>6, <1>7, <1>8, <1>9, <1>10
  DEF Next, SenderStep, DrainStep

(* A stream's batch is empty unless it is being written, and no wake-up of *)
(* a stream is lost for the rooms it has drained.                          *)
LEMMA FlowStep ==
  ASSUME TypeOK, Flow, OrderKept, [Next]_vars
  PROVE  Flow'
<1> USE DEF senderVars, streamVars
<1>1. ASSUME NEW x \in Senders, NEW r \in Rooms, CheckMember(x, r) \/ RelaySignal(x, r)
      PROVE  Flow'
  <2>1. \A q \in Rooms : Pending(q) => Pending(q)'
    BY <1>1 DEF CheckMember, RelaySignal, Pending, TypeOK
  <2>2. UNCHANGED <<pc, tokens, listed, todo, batch, queue>>
    BY <1>1 DEF CheckMember, RelaySignal
  <2>3. QED
    BY <2>1, <2>2 DEF Flow
<1>2. ASSUME NEW x \in Senders, QueueSignal(x)
      PROVE  Flow'
  <2>1. \A q \in Rooms : Pending(q) => Pending(q)'
    BY <1>2 DEF QueueSignal, Pending, TypeOK
  <2>2. \A q \in Rooms : q = sender[x].room => Pending(q)'
    BY <1>2 DEF QueueSignal, Pending, TypeOK
  <2>3. \A q \in Rooms : q # sender[x].room => queue'[q] = queue[q]
    BY <1>2 DEF QueueSignal, TypeOK
  <2>4. UNCHANGED <<pc, tokens, listed, todo, batch>>
    BY <1>2 DEF QueueSignal
  <2>5. \A q \in Rooms : Pending(q)' \/ (queue'[q] = queue[q] /\ (Pending(q) => Pending(q)'))
    BY <2>1, <2>2, <2>3
  <2>6. QED
    BY <2>4, <2>5 DEF Flow
<1>3. ASSUME NEW x \in Senders, HookNotify(x) \/ SenderNotify(x)
      PROVE  Flow'
  <2>0. ChanSize \in Nat \ {0} /\ \A s \in Streams : tokens[s] \in 0..ChanSize
    BY SignalAssumption DEF TypeOK
  <2>1. \A s \in Streams : pc[s] # "closed" => tokens'[s] # 0
    BY <1>3, <2>0 DEF HookNotify, SenderNotify, Notify, Subscribed
  <2>2. UNCHANGED <<pc, listed, todo, batch, queue>>
    BY <1>3 DEF HookNotify, SenderNotify
  <2>3. QED
    BY <2>1, <2>2 DEF Flow
<1>4. ASSUME NEW s \in Streams, Open(s) \/ Wake(s) \/ Close(s)
      PROVE  Flow'
  <2>1. UNCHANGED <<sender, todo, batch, queue>>
    BY <1>4 DEF Open, Wake, Close
  <2>2. \A t \in Streams : t # s =>
          pc'[t] = pc[t] /\ tokens'[t] = tokens[t] /\ listed'[t] = listed[t]
    BY <1>4 DEF Open, Wake, Close, TypeOK
  <2>3. pc'[s] \in {"list", "closed"} /\ pc[s] \in {"closed", "wait"}
    BY <1>4 DEF Open, Wake, Close, TypeOK
  <2>4. \A q \in Rooms : Pending(q)' = Pending(q)
    BY <2>1 DEF Pending
  <2>5. QED
    BY <2>1, <2>2, <2>3, <2>4 DEF Flow
<1>5. ASSUME NEW s \in Streams, ListChats(s)
      PROVE  Flow'
  <2>1. UNCHANGED <<sender, tokens, batch, queue>>
    BY <1>5 DEF ListChats
  <2>2. \A t \in Streams : t # s =>
          pc'[t] = pc[t] /\ todo'[t] = todo[t] /\ listed'[t] = listed[t]
    BY <1>5 DEF ListChats, TypeOK
  <2>3. /\ pc[s] = "list" /\ pc'[s] \in {"drain", "wait"}
        /\ listed'[s] \subseteq todo'[s]
        /\ pc'[s] = "wait" => todo'[s] = {}
    BY <1>5 DEF ListChats, TypeOK, Flow
  <2>4. \A q \in Rooms : Pending(q)' = Pending(q)
    BY <2>1 DEF Pending
  <2>5. QED
    BY <2>1, <2>2, <2>3, <2>4 DEF Flow
<1>6. ASSUME NEW s \in Streams, NEW r \in Rooms, DrainSignal(s, r)
      PROVE  Flow'
  <2>1. UNCHANGED <<sender, tokens, listed>>
    BY <1>6 DEF DrainSignal
  <2>2. \A t \in Streams : t # s =>
          pc'[t] = pc[t] /\ todo'[t] = todo[t] /\ batch'[t] = batch[t]
    BY <1>6 DEF DrainSignal, TypeOK
  <2>3. /\ pc[s] = "drain" /\ pc'[s] = AfterDrain(s, r)
        /\ todo'[s] = todo[s] \ {r} /\ batch'[s] = queue[r]
    BY <1>6 DEF DrainSignal, TypeOK
  <2>4. /\ pc'[s] = "write" <=> batch'[s] # <<>>
        /\ pc'[s] \in {"write", "wait", "drain"}
        /\ pc'[s] = "wait" => todo'[s] = {}
    BY <2>3 DEF AfterDrain
  <2>5. queue'[r] = <<>> /\ \A q \in Rooms : q # r => queue'[q] = queue[q]
    BY <1>6 DEF DrainSignal, TypeOK
  <2>6. \A q \in Rooms : Pending(q)' = Pending(q)
    BY <2>1 DEF Pending
  <2>7. QED
    BY <2>1, <2>2, <2>3, <2>4, <2>5, <2>6 DEF Flow
<1>7. ASSUME NEW s \in Streams, WriteEvent(s)
      PROVE  Flow'
  <2>1. UNCHANGED <<sender, tokens, listed, todo, queue>>
    BY <1>7 DEF WriteEvent
  <2>2. \A t \in Streams : t # s => pc'[t] = pc[t] /\ batch'[t] = batch[t]
    BY <1>7 DEF WriteEvent, TypeOK
  <2>3. batch[s] # <<>> /\ batch[s] \in Seq(1..MaxSignals) /\ Increasing(batch[s])
    BY <1>7 DEF WriteEvent, Flow, TypeOK, OrderKept, Increasing
  <2>4. Tail(batch[s]) # <<>> <=> Len(batch[s]) > 1
    <3>1. 1..MaxSignals \subseteq Nat
      OBVIOUS
    <3>2. QED
      BY <2>3, <3>1, ContentsTail
  <2>5. /\ pc[s] = "write" /\ pc'[s] \in {"write", "wait", "drain"}
        /\ pc'[s] = "write" <=> Len(batch[s]) > 1
        /\ pc'[s] = "wait" => todo[s] = {}
        /\ batch'[s] = Tail(batch[s])
    BY <1>7 DEF WriteEvent, TypeOK
  <2>6. \A q \in Rooms : Pending(q)' = Pending(q)
    BY <2>1 DEF Pending
  <2>7. QED
    BY <2>1, <2>2, <2>4, <2>5, <2>6 DEF Flow
<1>8. CASE UNCHANGED <<sender, pc, tokens, listed, todo, batch, queue>>
  BY <1>8 DEF Flow, Pending
<1>9. QED
  BY <1>1, <1>2, <1>3, <1>4, <1>5, <1>6, <1>7, <1>8
  DEF Next, SenderStep, DrainStep, Disconnect, ChangeMembership, vars

(* Queues and batches stay in the order in which signals were queued.      *)
LEMMA OrderStep ==
  ASSUME TypeOK, Flow, OrderKept, SignalConservation, [Next]_vars
  PROVE  OrderKept'
<1> USE DEF senderVars, streamVars
<1>0. SUFFICES /\ \A r \in Rooms : Increasing(queue'[r])
               /\ \A s \in Streams : Increasing(batch'[s])
  BY DEF OrderKept, Increasing
<1>1. /\ \A r \in Rooms : Increasing(queue[r]) /\ queue[r] \in Seq(1..MaxSignals)
      /\ \A s \in Streams : Increasing(batch[s]) /\ batch[s] \in Seq(1..MaxSignals)
  BY DEF OrderKept, Increasing, TypeOK
<1>2. 1..MaxSignals \subseteq Nat
  BY SignalAssumption
<1>3. ASSUME NEW x \in Senders, QueueSignal(x)
      PROVE  \A r \in Rooms : Increasing(queue'[r])
  <2> DEFINE q == sender[x].room
  <2>1. q \in Rooms /\ count + 1 \in 1..MaxSignals
    BY <1>3, SignalAssumption DEF QueueSignal, TypeOK
  <2>2. \A n \in Contents(queue[q]) : n < count + 1
    <3>1. Contents(queue[q]) \subseteq 1..count
      BY <2>1 DEF SignalConservation
    <3>2. QED
      BY <3>1 DEF TypeOK
  <2>3. Increasing(Append(queue[q], count + 1))
    BY <1>1, <1>2, <2>1, <2>2, IncreasingAppend
  <2>4. QED
    BY <1>1, <1>3, <2>1, <2>3 DEF QueueSignal, TypeOK
<1>4. ASSUME NEW s \in Streams, NEW r \in Rooms, DrainSignal(s, r)
      PROVE  /\ \A q \in Rooms : Increasing(queue'[q])
             /\ \A t \in Streams : Increasing(batch'[t])
  <2>1. Increasing(<<>>)
    BY DEF Increasing
  <2>2. QED
    BY <1>1, <1>4, <2>1 DEF DrainSignal, TypeOK
<1>5. ASSUME NEW s \in Streams, WriteEvent(s)
      PROVE  \A t \in Streams : Increasing(batch'[t])
  <2>1. Increasing(Tail(batch[s]))
    BY <1>1, <1>2, <1>5, ContentsTail DEF WriteEvent, Flow
  <2>2. QED
    BY <1>1, <1>5, <2>1 DEF WriteEvent, TypeOK
<1>6. CASE UNCHANGED <<queue, batch>>
  BY <1>1, <1>6
<1>7. ASSUME NEW x \in Senders, QueueSignal(x)
      PROVE  UNCHANGED batch
  BY <1>7 DEF QueueSignal
<1>8. ASSUME NEW s \in Streams, WriteEvent(s)
      PROVE  UNCHANGED queue
  BY <1>8 DEF WriteEvent
<1>9. QED
  BY <1>1, <1>3, <1>4, <1>5, <1>6, <1>7, <1>8
  DEF Next, SenderStep, DrainStep, CheckMember, RelaySignal, HookNotify, SenderNotify, Open,
      ListChats, Wake, Close, Disconnect, ChangeMembership, vars

(* SignalConservation, signal by signal.                                   *)
Covered ==
  \A n : n \in 1..count <=>
    \/ \E r \in Rooms : n \in Contents(queue[r])
    \/ \E s \in Streams : n \in Contents(batch[s]) \/ n \in Contents(delivered[s])
    \/ n \in lost

QueuedOnce ==
  \A n : \A r \in Rooms : n \in Contents(queue[r]) =>
    /\ n \notin lost
    /\ \A s \in Streams : n \notin Contents(batch[s]) /\ n \notin Contents(delivered[s])
    /\ \A q \in Rooms : q # r => n \notin Contents(queue[q])

HandedOnce ==
  \A n : \A s \in Streams : n \in Contents(batch[s]) \/ n \in Contents(delivered[s]) =>
    /\ n \notin lost
    /\ n \in Contents(batch[s]) => n \notin Contents(delivered[s])
    /\ \A t \in Streams : t # s => n \notin Contents(batch[t]) /\ n \notin Contents(delivered[t])

Places == Covered /\ QueuedOnce /\ HandedOnce

LEMMA PlacesOfSignals == SignalConservation => Places
<1> SUFFICES ASSUME SignalConservation
             PROVE  Places
  OBVIOUS
<1>1. \A n : n \in Handed <=>
        \/ n \in lost
        \/ \E s \in Streams : n \in Contents(batch[s]) \/ n \in Contents(delivered[s])
  BY DEF Handed
<1>2. \A n : n \in UNION {Contents(queue[r]) : r \in Rooms} <=>
        \E r \in Rooms : n \in Contents(queue[r])
  OBVIOUS
<1>3. QED
  BY <1>1, <1>2 DEF SignalConservation, Places, Covered, QueuedOnce, HandedOnce

LEMMA SignalsInPlaces == ASSUME Places' PROVE SignalConservation'
<1>1. \A n : n \in Handed' <=>
        \/ n \in lost'
        \/ \E s \in Streams : n \in Contents(batch'[s]) \/ n \in Contents(delivered'[s])
  BY DEF Handed
<1>2. \A n : n \in UNION {Contents(queue'[r]) : r \in Rooms} <=>
        \E r \in Rooms : n \in Contents(queue'[r])
  OBVIOUS
<1>3. QED
  BY <1>1, <1>2 DEF SignalConservation, Places, Covered, QueuedOnce, HandedOnce

(* Each signal stays in one place.                                         *)
LEMMA ConservationStep ==
  ASSUME TypeOK, Flow, OrderKept, SignalConservation, [Next]_vars
  PROVE  SignalConservation'
<1> USE DEF senderVars, streamVars
<1>0. Places
  BY PlacesOfSignals
<1>1. SUFFICES Places'
  BY SignalsInPlaces
<1>2. ASSUME NEW x \in Senders, QueueSignal(x)
      PROVE  Places'
  <2> DEFINE q == sender[x].room
  <2>1. q \in Rooms /\ count \in Nat /\ count + 1 \in 1..MaxSignals
    BY <1>2, SignalAssumption DEF QueueSignal, TypeOK
  <2>2. Contents(queue'[q]) = Contents(queue[q]) \cup {count + 1}
    <3> DEFINE S == 1..MaxSignals
               e == count + 1
    <3>1. queue'[q] = Append(queue[q], e) /\ queue[q] \in Seq(S) /\ e \in S
      BY <1>2, <2>1 DEF QueueSignal, TypeOK
    <3> HIDE DEF S, e, q
    <3>2. Contents(Append(queue[q], e)) = Contents(queue[q]) \cup {e}
      BY <3>1, ContentsAppend
    <3>3. QED
      BY <3>1, <3>2 DEF e
  <2>3. \A r \in Rooms : r # q => queue'[r] = queue[r]
    BY <1>2 DEF QueueSignal, TypeOK
  <2>4. UNCHANGED <<batch, delivered, lost>> /\ count' = count + 1
    BY <1>2 DEF QueueSignal
  <2>5. count + 1 \notin 1..count /\ 1..count' = 1..count \cup {count + 1}
    BY <2>1, <2>4
  <2> HIDE DEF q
  <2>6. QED
    BY <1>0, <2>1, <2>2, <2>3, <2>4, <2>5 DEF Places, Covered, QueuedOnce, HandedOnce
<1>3. ASSUME NEW s \in Streams, NEW r \in Rooms, DrainSignal(s, r)
      PROVE  Places'
  <2>1. UNCHANGED <<count, delivered, lost>>
    BY <1>3 DEF DrainSignal
  <2>2. queue'[r] = <<>> /\ \A q \in Rooms : q # r => queue'[q] = queue[q]
    BY <1>3 DEF DrainSignal, TypeOK
  <2>3. batch'[s] = queue[r] /\ \A t \in Streams : t # s => batch'[t] = batch[t]
    BY <1>3 DEF DrainSignal, TypeOK
  <2>4. batch[s] = <<>>
    BY <1>3 DEF DrainSignal, Flow
  <2>5. Contents(queue'[r]) = {} /\ Contents(batch[s]) = {}
    BY <2>2, <2>4, ContentsEmpty
  <2>6. \A n : \A q \in Rooms : n \in Contents(queue'[q]) <=> q # r /\ n \in Contents(queue[q])
    BY <2>2, <2>5
  <2>7. \A n : \A t \in Streams : n \in Contents(batch'[t]) <=>
          \/ t = s /\ n \in Contents(queue[r])
          \/ n \in Contents(batch[t])
    BY <2>3, <2>5
  <2>8. QED
    <3> USE <1>0, <2>1, <2>6, <2>7 DEF Places
    <3>1. Covered'
      BY DEF Covered
    <3>2. QueuedOnce'
      BY DEF QueuedOnce
    <3>3. HandedOnce'
      BY DEF QueuedOnce, HandedOnce
    <3>4. QED
      BY <3>1, <3>2, <3>3
<1>4. ASSUME NEW s \in Streams, WriteEvent(s)
      PROVE  Places'
  <2> DEFINE n == Head(batch[s])
  <2>1. 1..MaxSignals \subseteq Nat
    OBVIOUS
  <2>2. batch[s] # <<>> /\ batch[s] \in Seq(1..MaxSignals) /\ Increasing(batch[s])
    BY <1>4 DEF WriteEvent, Flow, TypeOK, OrderKept, Increasing
  <2>3. /\ n \in 1..MaxSignals
        /\ Contents(batch[s]) = {n} \cup Contents(Tail(batch[s]))
        /\ n \notin Contents(Tail(batch[s]))
    BY <2>1, <2>2, ContentsTail
  <2>4. Contents(Append(delivered[s], n)) = Contents(delivered[s]) \cup {n}
    <3> DEFINE S == 1..MaxSignals
    <3>1. delivered[s] \in Seq(S) /\ n \in S
      BY <2>3 DEF TypeOK
    <3> HIDE DEF S, n
    <3>2. QED
      BY <3>1, ContentsAppend
  <2>5. UNCHANGED <<count, queue>>
    BY <1>4 DEF WriteEvent
  <2>6. batch'[s] = Tail(batch[s]) /\ \A t \in Streams : t # s => batch'[t] = batch[t]
    BY <1>4 DEF WriteEvent, TypeOK
  <2>7. \/ /\ delivered'[s] = Append(delivered[s], n)
           /\ \A t \in Streams : t # s => delivered'[t] = delivered[t]
           /\ UNCHANGED lost
        \/ lost' = lost \cup {n} /\ UNCHANGED delivered
    BY <1>4 DEF WriteEvent, TypeOK
  <2> HIDE DEF n
  <2>8. \A m : \A t \in Streams : m \in Contents(batch'[t]) <=>
          m \in Contents(batch[t]) /\ ~(t = s /\ m = n)
    BY <2>3, <2>6
  <2>9. n \in Contents(batch[s])
    BY <2>3
  <2>10. CASE /\ delivered'[s] = Append(delivered[s], n)
              /\ \A t \in Streams : t # s => delivered'[t] = delivered[t]
              /\ UNCHANGED lost
    <3>1. \A m : \A t \in Streams : m \in Contents(delivered'[t]) <=>
            m \in Contents(delivered[t]) \/ (t = s /\ m = n)
      BY <2>4, <2>10
    <3> USE <1>0, <2>5, <2>8, <2>9, <3>1 DEF Places
    <3>2. UNCHANGED lost
      BY <2>10
    <3>3. Covered'
      BY <3>2 DEF Covered
    <3>4. QueuedOnce'
      BY <3>2 DEF QueuedOnce
    <3>5. HandedOnce'
      BY <3>2 DEF HandedOnce
    <3>6. QED
      BY <3>3, <3>4, <3>5
  <2>11. CASE lost' = lost \cup {n} /\ UNCHANGED delivered
    BY <1>0, <2>5, <2>8, <2>9, <2>11 DEF Places, Covered, QueuedOnce, HandedOnce
  <2>12. QED
    BY <2>7, <2>10, <2>11
<1>5. CASE UNCHANGED <<queue, count, batch, delivered, lost>>
  BY <1>0, <1>5 DEF Places, Covered, QueuedOnce, HandedOnce
<1>6. QED
  BY <1>2, <1>3, <1>4, <1>5
  DEF Next, SenderStep, DrainStep, CheckMember, RelaySignal, HookNotify, SenderNotify, Open,
      ListChats, Wake, Close, Disconnect, ChangeMembership, vars

LEMMA StepIInv == IInv /\ [Next]_vars => IInv'
BY TypeStep, FlowStep, OrderStep, ConservationStep DEF IInv

(* Every behaviour of senders and streams satisfies the invariant.         *)
THEOREM StreamInvariant == Spec => []IInv
BY InitIInv, StepIInv, PTL DEF Spec

(* Type correctness of the queue and its streams.                          *)
THEOREM StreamTypes == Spec => []TypeOK
<1>1. IInv => TypeOK
  BY DEF IInv
<1>2. QED
  BY <1>1, StreamInvariant, PTL

(* For any number of senders and streams a signal is in exactly one place: *)
(* its queue, one stream's batch, one client, or lost with a failed write. *)
THEOREM StreamConservation == Spec => []SignalConservation
<1>1. IInv => SignalConservation
  BY DEF IInv
<1>2. QED
  BY <1>1, StreamInvariant, PTL

(* Signals of one queue, and of one batch, keep the order of queueing.     *)
THEOREM StreamOrder == Spec => []OrderKept
<1>1. IInv => OrderKept
  BY DEF IInv
<1>2. QED
  BY <1>1, StreamInvariant, PTL

(* For a channel of any capacity of at least one: a stream sleeps without  *)
(* a wake-up only when its rooms are empty or their sender will wake it.   *)
THEOREM StreamWakeup == Spec => []NoLostWakeup
<1>1. IInv => NoLostWakeup
  BY DEF IInv, Flow, NoLostWakeup, Pending
<1>2. QED
  BY <1>1, StreamInvariant, PTL

-----------------------------------------------------------------------------
(* What a step does to the set of signals handed over.                     *)
LEMMA HandedByDrain ==
  ASSUME IInv, NEW s \in Streams, NEW r \in Rooms, DrainSignal(s, r)
  PROVE  Handed' = Handed \cup Contents(queue[r])
<1>1. UNCHANGED <<delivered, lost>>
  BY DEF DrainSignal
<1>2. batch'[s] = queue[r] /\ \A t \in Streams : t # s => batch'[t] = batch[t]
  BY DEF DrainSignal, IInv, TypeOK
<1>3. Contents(batch[s]) = {}
  BY ContentsEmpty DEF DrainSignal, IInv, Flow
<1>4. \A n : n \in Handed' <=> n \in Handed \/ n \in Contents(queue[r])
  BY <1>1, <1>2, <1>3 DEF Handed
<1>5. QED
  BY <1>4

LEMMA HandedByWrite ==
  ASSUME IInv, NEW s \in Streams, WriteEvent(s)
  PROVE  Handed' = Handed
<1> DEFINE n == Head(batch[s])
<1>1. /\ n \in 1..MaxSignals
      /\ Contents(batch[s]) = {n} \cup Contents(Tail(batch[s]))
  <2>1. 1..MaxSignals \subseteq Nat
    OBVIOUS
  <2>2. batch[s] # <<>> /\ batch[s] \in Seq(1..MaxSignals) /\ Increasing(batch[s])
    BY DEF WriteEvent, IInv, Flow, TypeOK, OrderKept, Increasing
  <2>3. QED
    BY <2>1, <2>2, ContentsTail
<1>2. Contents(Append(delivered[s], n)) = Contents(delivered[s]) \cup {n}
  <2> DEFINE S == 1..MaxSignals
  <2>1. delivered[s] \in Seq(S) /\ n \in S
    BY <1>1 DEF IInv, TypeOK
  <2> HIDE DEF S, n
  <2>2. QED
    BY <2>1, ContentsAppend
<1>3. batch'[s] = Tail(batch[s]) /\ \A t \in Streams : t # s => batch'[t] = batch[t]
  BY DEF WriteEvent, IInv, TypeOK
<1>4. \/ /\ delivered'[s] = Append(delivered[s], n)
         /\ \A t \in Streams : t # s => delivered'[t] = delivered[t]
         /\ UNCHANGED lost
      \/ lost' = lost \cup {n} /\ UNCHANGED delivered
  BY DEF WriteEvent, IInv, TypeOK
<1> HIDE DEF n
<1>5. \A m : \A t \in Streams :
        m \in Contents(batch[t]) <=> m \in Contents(batch'[t]) \/ (t = s /\ m = n)
  BY <1>1, <1>3
<1>6. CASE /\ delivered'[s] = Append(delivered[s], n)
           /\ \A t \in Streams : t # s => delivered'[t] = delivered[t]
           /\ UNCHANGED lost
  <2>1. \A m : \A t \in Streams :
          m \in Contents(delivered'[t]) <=> m \in Contents(delivered[t]) \/ (t = s /\ m = n)
    BY <1>2, <1>6
  <2>2. \A m : m \in Handed <=>
          m \in lost \/ \E t \in Streams : m \in Contents(batch[t]) \/ m \in Contents(delivered[t])
    BY DEF Handed
  <2>3. \A m : m \in Handed' <=>
          m \in lost' \/ \E t \in Streams : m \in Contents(batch'[t]) \/ m \in Contents(delivered'[t])
    BY DEF Handed
  <2>4. \A m : m \in Handed' <=> m \in Handed
    BY <1>5, <1>6, <2>1, <2>2, <2>3
  <2>5. QED
    BY <2>4
<1>7. CASE lost' = lost \cup {n} /\ UNCHANGED delivered
  <2>1. \A m : m \in Handed' <=> m \in Handed
    BY <1>5, <1>7 DEF Handed
  <2>2. QED
    BY <2>1
<1>8. QED
  BY <1>4, <1>6, <1>7

(* The queue and its readers implement the mailbox: queueing is Put, a     *)
(* drain that finds something is HandOver, and no other step shows.        *)
THEOREM StreamImplementsMailbox == Spec => ImplementsMailbox
<1> USE DEF senderVars, streamVars
<1>1. Init => MB!Init
  <2> SUFFICES ASSUME Init
               PROVE  MB!Init
    OBVIOUS
  <2>1. Handed = {}
    BY ContentsEmpty DEF Init, Handed
  <2>2. QED
    BY <2>1 DEF Init, MB!Init
<1>2. IInv /\ [Next]_vars => [MB!Next]_<<queue, Handed, count>>
  <2> SUFFICES ASSUME IInv, [Next]_vars
               PROVE  MB!Next \/ UNCHANGED <<queue, Handed, count>>
    OBVIOUS
  <2>1. ASSUME NEW x \in Senders, QueueSignal(x)
        PROVE  MB!Next
    <3>1. sender[x].room \in Rooms
      BY DEF IInv, TypeOK
    <3>2. UNCHANGED Handed
      BY <2>1 DEF QueueSignal, Handed
    <3>3. MB!Put(sender[x].room)
      BY <2>1, <3>2 DEF QueueSignal, MB!Put
    <3>4. QED
      BY <3>1, <3>3 DEF MB!Next
  <2>2. ASSUME NEW s \in Streams, NEW r \in Rooms, DrainSignal(s, r)
        PROVE  MB!Next \/ UNCHANGED <<queue, Handed, count>>
    <3>1. Handed' = Handed \cup Contents(queue[r])
      BY <2>2, HandedByDrain
    <3>2. CASE queue[r] = <<>>
      <4>1. UNCHANGED <<queue, count>>
        BY <2>2, <3>2 DEF DrainSignal, IInv, TypeOK
      <4>2. QED
        BY <3>1, <3>2, <4>1, ContentsEmpty
    <3>3. CASE queue[r] # <<>>
      <4>1. Contents(queue[r]) \cap Handed = {}
        BY DEF IInv, SignalConservation
      <4>2. MB!Contents(queue[r]) = Contents(queue[r])
        BY DEF MB!Contents, Contents
      <4>3. MB!HandOver(r)
        BY <2>2, <3>1, <3>3, <4>1, <4>2 DEF DrainSignal, MB!HandOver
      <4>4. QED
        BY <4>3 DEF MB!Next
    <3>4. QED
      BY <3>2, <3>3
  <2>3. ASSUME NEW s \in Streams, WriteEvent(s)
        PROVE  UNCHANGED <<queue, Handed, count>>
    BY <2>3, HandedByWrite DEF WriteEvent
  <2>4. CASE UNCHANGED <<queue, count, batch, delivered, lost>>
    BY <2>4 DEF Handed
  <2>5. QED
    BY <2>1, <2>2, <2>3, <2>4
    DEF Next, SenderStep, DrainStep, CheckMember, RelaySignal, HookNotify, SenderNotify, Open,
        ListChats, Wake, Close, Disconnect, ChangeMembership, vars
<1>3. QED
  BY <1>1, <1>2, StreamInvariant, PTL DEF Spec, ImplementsMailbox, MB!Spec

=============================================================================
