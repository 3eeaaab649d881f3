----------------------- MODULE QueuedNotifier_proofs -----------------------
(***************************************************************************)
(* What holds of the notifier for every size of the ring and any number of *)
(* threads and messages: the ring is sound, no message waits for ever, and *)
(* the notifier implements the queue of NotificationQueue.                 *)
(***************************************************************************)
EXTENDS QueuedNotifier, TLAPS, SequenceTheorems

\* Where the two ends of the ring are after an addition at the end.
LEMMA RingGrows ==
  ASSUME NEW e \in Indices, NEW s \in Indices,
         NEW n, n = (IF e >= s THEN e - s ELSE MaxSize - (s - e)),
         NEW m, m = (IF Wrap(e + 1) >= s THEN Wrap(e + 1) - s ELSE MaxSize - (s - Wrap(e + 1))),
         MaxSize - n - 1 > 0
  PROVE  /\ n \in Nat /\ m = n + 1
         /\ Wrap(e + 1) \in Indices
         /\ Wrap(s + n) = e
         /\ \A i \in 0 .. n - 1 : Wrap(s + i) \in Indices /\ Wrap(s + i) # e
BY SizeAssumption DEF Wrap, Indices

\* What takes a message out of the ring, or empties it, leaves nothing ready.
LEMMA NothingReady ==
  end = start /\ start \in Nat => NumReady = 0 /\ ReadySlots = {} /\ Waiting = << >>
<1> SUFFICES ASSUME end = start, start \in Nat
             PROVE  NumReady = 0 /\ ReadySlots = {} /\ Waiting = << >>
  OBVIOUS
<1>1. NumReady = 0
  BY SizeAssumption DEF NumReady
<1>2. 0 .. NumReady - 1 = {} /\ 1 .. NumReady = {}
  BY <1>1
<1>3. ReadySlots = {}
  BY <1>2 DEF ReadySlots
<1>4. Waiting = << >>
  BY <1>2 DEF Waiting
<1>5. QED
  BY <1>1, <1>3, <1>4

LEMMA NothingReadyPrimed ==
  end' = start' /\ start' \in Nat
      => NumReady' = 0 /\ ReadySlots' = {} /\ Waiting' = << >>
<1>1. (end = start /\ start \in Nat
           => NumReady = 0 /\ ReadySlots = {} /\ Waiting = << >>)'
  BY NothingReady, PTL
<1>2. QED
  BY <1>1

-----------------------------------------------------------------------------
\* Messages in the ring and in the message thread's hands were added by
\* background threads, and only a living notifier has any in its hands.
Origin == /\ \A i \in Indices : slots[i] # Null => slots[i] \in Senders \X Nat
          /\ taken \in Seq(Senders \X Nat)
          /\ mt = "calling" <=> taken # << >>
          /\ mt # "idle" => life = "alive"

\* The coalesced listeners are about to hear what the others heard last.
LastIsHeard ==
    /\ mt = "calling" => lastMessage = taken[Len(taken)]
    /\ mt = "coalescing" => /\ lastMessage \in Senders \X Nat
                            /\ lastMessage[2] = heard[lastMessage[1]]

IInv == TypeOK /\ SlotsSound /\ NoLostWakeup /\ Origin /\ LastIsHeard

LEMMA Types == /\ MessageThread \in Threads /\ Senders \subseteq Threads
               /\ 0 \in Indices /\ 0 \in 0 .. MaxSize
               /\ Senders \X Nat \subseteq Message
               /\ NoMessage \in Message /\ Null \notin Message
BY SizeAssumption, NullAssumption DEF Threads, Indices, Message, NoMessage

LEMMA InitIInv == Init => IInv
<1> SUFFICES ASSUME Init PROVE IInv
  OBVIOUS
<1>1. NumReady = 0 /\ ReadySlots = {}
  BY NothingReady DEF Init
<1>2. TypeOK
  <2>1. sent \in [Threads -> Nat] /\ heard \in [Threads -> Nat]
    BY DEF Init
  <2>2. pc \in [Senders -> {"idle", "check", "lock", "trigger"}]
    BY DEF Init
  <2>3. slots \in [Indices -> Message \cup {Null}] /\ taken \in Seq(Message)
    BY DEF Init
  <2>4. listening \in BOOLEAN /\ dropMessageOnOverflow \in BOOLEAN /\ posted \in BOOLEAN
    BY DEF Init
  <2>5. QED
    BY <2>1, <2>2, <2>3, <2>4, Types DEF Init, TypeOK
<1>3. SlotsSound /\ NoLostWakeup
  BY <1>1 DEF Init, SlotsSound, NoLostWakeup
<1>4. Origin /\ LastIsHeard
  BY DEF Init, Origin, LastIsHeard
<1>5. QED
  BY <1>2, <1>3, <1>4 DEF IInv

\* Steps that leave the ring alone leave what is ready alone.
LEMMA RingUnchanged ==
  UNCHANGED ring => /\ NumReady' = NumReady /\ ReadySlots' = ReadySlots
                    /\ Waiting' = Waiting /\ (SlotsSound => SlotsSound')
BY DEF ring, NumReady, ReadySlots, Waiting, SlotsSound

\* A background thread's steps that do not write.
LEMMA AddMessageIInv ==
  ASSUME IInv, NEW s \in Senders,
         AddMessage(s) \/ CheckDestroyed(s) \/ Overflow(s) \/ TriggerAsyncUpdate(s)
  PROVE  IInv'
<1>1. UNCHANGED <<ring, calls, life, ears>>
  BY DEF AddMessage, CheckDestroyed, Overflow, TriggerAsyncUpdate
<1>2. TypeOK'
  <2>1. UNCHANGED <<slots, size, start, end, mt, taken, lastMessage, life, listening, heard,
                    latest, dropMessageOnOverflow>>
    BY <1>1 DEF ring, calls, ears, AddMessage, CheckDestroyed, Overflow, TriggerAsyncUpdate
  <2>2. sent' \in [Threads -> Nat]
    BY Types DEF IInv, TypeOK, AddMessage, CheckDestroyed, Overflow, TriggerAsyncUpdate,
       Ignored, Decided
  <2>3. pc' \in [Senders -> {"idle", "check", "lock", "trigger"}]
    BY DEF IInv, TypeOK, AddMessage, CheckDestroyed, Overflow, TriggerAsyncUpdate, Ignored, Goto
  <2>4. posted' \in BOOLEAN
    BY DEF IInv, TypeOK, AddMessage, CheckDestroyed, Overflow, TriggerAsyncUpdate, TriggerUpdate
  <2>5. QED
    BY <2>1, <2>2, <2>3, <2>4 DEF IInv, TypeOK
<1>3. SlotsSound' /\ NumReady' = NumReady
  BY <1>1, RingUnchanged DEF IInv
<1>4. NoLostWakeup'
  <2>1. CASE TriggerAsyncUpdate(s)
    BY <2>1 DEF NoLostWakeup, TriggerAsyncUpdate, TriggerUpdate
  <2>2. CASE AddMessage(s) \/ CheckDestroyed(s) \/ Overflow(s)
    <3>1. \A t \in Senders : pc[t] = "trigger" => pc'[t] = "trigger"
      BY <2>2 DEF IInv, TypeOK, AddMessage, CheckDestroyed, Overflow, Ignored, Goto
    <3>2. UNCHANGED posted
      BY <2>2 DEF AddMessage, CheckDestroyed, Overflow
    <3>3. QED
      BY <1>1, <1>3, <3>1, <3>2 DEF IInv, NoLostWakeup
  <2>3. QED
    BY <2>1, <2>2
<1>5. Origin' /\ LastIsHeard'
  BY <1>1 DEF IInv, Origin, LastIsHeard, ring, calls, ears
<1>6. QED
  BY <1>2, <1>3, <1>4, <1>5 DEF IInv

\* The message written goes to the slot at the end, which was empty.
LEMMA WriteRing ==
  ASSUME IInv, NEW s \in Senders, Write(s)
  PROVE  /\ NumReady \in Nat /\ NumReady' = NumReady + 1
         /\ end' \in Indices /\ end \notin ReadySlots
         /\ Wrap(start + NumReady) = end
         /\ ReadySlots' = ReadySlots \cup {end}
         /\ \A i \in 0 .. NumReady - 1 : Wrap(start + i) \in Indices /\ Wrap(start + i) # end
<1>1. start \in Indices /\ end \in Indices /\ start' = start /\ end' = Wrap(end + 1)
  BY DEF IInv, TypeOK, Write
<1>2. MaxSize - NumReady - 1 > 0
  BY DEF Write, FreeSpace
<1>3. NumReady' = (IF Wrap(end + 1) >= start THEN Wrap(end + 1) - start
                   ELSE MaxSize - (start - Wrap(end + 1)))
  BY <1>1 DEF NumReady
<1>4. /\ NumReady \in Nat /\ NumReady' = NumReady + 1
      /\ end' \in Indices
      /\ Wrap(start + NumReady) = end
      /\ \A i \in 0 .. NumReady - 1 : Wrap(start + i) \in Indices /\ Wrap(start + i) # end
  BY <1>1, <1>2, <1>3, RingGrows DEF NumReady
<1>5. end \notin ReadySlots
  BY <1>4 DEF ReadySlots
<1>6. ReadySlots' = {Wrap(start + i) : i \in 0 .. NumReady}
  <2>1. ReadySlots' = {Wrap(start + i) : i \in 0 .. NumReady' - 1}
    BY <1>1 DEF ReadySlots, Wrap
  <2>2. NumReady' - 1 = NumReady
    BY <1>4
  <2>3. QED
    BY <2>1, <2>2
<1>7. 0 .. NumReady = (0 .. NumReady - 1) \cup {NumReady}
  BY <1>4
<1>8. ReadySlots' = ReadySlots \cup {Wrap(start + NumReady)}
  BY <1>6, <1>7 DEF ReadySlots
<1>9. QED
  BY <1>4, <1>5, <1>8

LEMMA WriteIInv == ASSUME IInv, NEW s \in Senders, Write(s) PROVE IInv'
<1>1. /\ NumReady \in Nat /\ NumReady' = NumReady + 1
      /\ end' \in Indices /\ ReadySlots' = ReadySlots \cup {end}
  BY WriteRing
<1>2. Adding(s) \in Senders \X Nat
  BY Types DEF IInv, TypeOK, Adding
<1>3. slots' \in [Indices -> Message \cup {Null}]
  BY <1>2, Types DEF IInv, TypeOK, Write
<1>4. size' \in 0 .. MaxSize
  BY SizeAssumption DEF IInv, TypeOK, Write, Grown, Indices
<1>5. TypeOK'
  <2>1. sent' \in [Threads -> Nat]
    BY Types DEF IInv, TypeOK, Write, Decided
  <2>2. pc' \in [Senders -> {"idle", "check", "lock", "trigger"}]
    BY DEF IInv, TypeOK, Write, Goto
  <2>3. QED
    BY <1>1, <1>3, <1>4, <2>1, <2>2 DEF IInv, TypeOK, Write, ears, calls
<1>6. SlotsSound'
  <2> SUFFICES ASSUME NEW i \in Indices
               PROVE  IF i \in ReadySlots' THEN i < size' /\ slots'[i] # Null
                      ELSE slots'[i] = Null
    BY DEF SlotsSound
  <2>1. CASE i = end
    <3>1. slots'[i] = Adding(s)
      BY <2>1 DEF IInv, TypeOK, Write
    <3>2. i < size'
      BY <2>1, SizeAssumption DEF IInv, TypeOK, Write, Grown, Indices
    <3>3. QED
      BY <1>1, <1>2, <2>1, <3>1, <3>2, Types
  <2>2. CASE i # end
    <3>1. slots'[i] = slots[i] /\ (i \in ReadySlots' <=> i \in ReadySlots)
      BY <1>1, <2>2 DEF IInv, TypeOK, Write
    <3>2. i < size => i < size'
      BY SizeAssumption DEF IInv, TypeOK, Write, Grown, Indices
    <3>3. QED
      BY <3>1, <3>2 DEF IInv, SlotsSound
  <2>3. QED
    BY <2>1, <2>2
<1>7. NoLostWakeup'
  <2>1. pc'[s] = "trigger"
    BY DEF IInv, TypeOK, Write, Goto
  <2>2. QED
    BY <2>1 DEF NoLostWakeup
<1>8. Origin'
  <2>1. \A i \in Indices : slots'[i] # Null => slots'[i] \in Senders \X Nat
    BY <1>2 DEF IInv, TypeOK, Origin, Write
  <2>2. QED
    BY <2>1 DEF IInv, Origin, Write, calls
<1>9. LastIsHeard'
  BY DEF IInv, LastIsHeard, Write, calls, ears
<1>10. QED
  BY <1>5, <1>6, <1>7, <1>8, <1>9 DEF IInv

-----------------------------------------------------------------------------
\* The update takes exactly what waits, in order.
LEMMA HandleTakes ==
  ASSUME IInv, HandleAsyncUpdate
  PROVE  /\ taken' = Waiting /\ taken' \in Seq(Senders \X Nat)
         /\ NumReady' = 0 /\ ReadySlots' = {} /\ Waiting' = << >>
         /\ start' = end /\ end' = end /\ size' = size
         /\ slots' = [i \in Indices |-> IF i \in ReadySlots THEN Null ELSE slots[i]]
         /\ IF taken' = << >> THEN UNCHANGED <<mt, lastMessage>>
            ELSE mt' = "calling" /\ lastMessage' = taken'[Len(taken')]
<1>1. start \in Indices /\ end \in Indices
  BY DEF IInv, TypeOK
<1>2. NumReady \in Nat
  BY <1>1, SizeAssumption DEF NumReady, Indices
<1>3. \A i \in 0 .. NumReady - 1 : Wrap(start + i) \in Indices
  BY <1>1, SizeAssumption DEF NumReady, Indices, Wrap
<1>4. ReadySlots \subseteq Indices
  BY <1>3 DEF ReadySlots
<1>5. ~(\E i \in ReadySlots : i >= size)
  BY <1>4 DEF IInv, SlotsSound, TypeOK, Indices
<1>6. \A i \in ReadySlots : slots[i] # Null
  BY <1>4 DEF IInv, SlotsSound
<1>7. /\ taken' = Waiting /\ start' = end /\ end' = end /\ size' = size
      /\ slots' = [i \in Indices |-> IF i \in ReadySlots THEN Null ELSE slots[i]]
      /\ IF taken' = << >> THEN UNCHANGED <<mt, lastMessage>>
         ELSE mt' = "calling" /\ lastMessage' = taken'[Len(taken')]
  BY <1>5, <1>6 DEF HandleAsyncUpdate, Read, Freed, LastOf
<1>8. \A i \in 1 .. NumReady : slots[Wrap(start + i - 1)] \in Senders \X Nat
  <2> SUFFICES ASSUME NEW i \in 1 .. NumReady
               PROVE  slots[Wrap(start + i - 1)] \in Senders \X Nat
    OBVIOUS
  <2>1. i - 1 \in 0 .. NumReady - 1 /\ start + i - 1 = start + (i - 1)
    BY <1>1, <1>2 DEF Indices
  <2>2. Wrap(start + i - 1) \in ReadySlots
    BY <2>1 DEF ReadySlots
  <2>3. QED
    BY <2>2, <1>4, <1>6 DEF IInv, Origin
<1>9. Waiting \in Seq(Senders \X Nat)
  BY <1>2, <1>8 DEF Waiting
<1>10. start' \in Nat
  BY <1>1, <1>7 DEF Indices
<1>11. NumReady' = 0 /\ ReadySlots' = {} /\ Waiting' = << >>
  BY <1>7, <1>10, NothingReadyPrimed
<1>12. QED
  BY <1>7, <1>9, <1>11

LEMMA HandleIInv == ASSUME IInv, HandleAsyncUpdate PROVE IInv'
<1>1. /\ taken' \in Seq(Senders \X Nat)
      /\ NumReady' = 0 /\ ReadySlots' = {}
      /\ start' = end /\ end' = end /\ size' = size
      /\ slots' = [i \in Indices |-> IF i \in ReadySlots THEN Null ELSE slots[i]]
      /\ IF taken' = << >> THEN UNCHANGED <<mt, lastMessage>>
         ELSE mt' = "calling" /\ lastMessage' = taken'[Len(taken')]
  BY HandleTakes
<1>2. mt = "idle" /\ taken = << >> /\ life = "alive"
  BY DEF IInv, Origin, TypeOK, HandleAsyncUpdate
<1>3. \A i \in Indices : slots'[i] = Null
  BY <1>1 DEF IInv, SlotsSound
<1>4. taken' # << >> => taken'[Len(taken')] \in Senders \X Nat
  BY <1>1
<1>5. TypeOK'
  <2>1. slots' \in [Indices -> Message \cup {Null}]
    BY <1>1 DEF IInv, TypeOK
  <2>2. taken' \in Seq(Message) /\ lastMessage' \in Message
    BY <1>1, <1>4, Types DEF IInv, TypeOK
  <2>3. mt' \in {"idle", "calling", "coalescing"}
    BY <1>1, <1>2
  <2>4. QED
    BY <1>1, <2>1, <2>2, <2>3 DEF IInv, TypeOK, HandleAsyncUpdate, ears
<1>6. SlotsSound'
  BY <1>1, <1>3 DEF SlotsSound
<1>7. NoLostWakeup'
  BY <1>1 DEF NoLostWakeup
<1>8. Origin'
  BY <1>1, <1>2, <1>3 DEF Origin, HandleAsyncUpdate
<1>9. LastIsHeard'
  BY <1>1, <1>2 DEF LastIsHeard
<1>10. QED
  BY <1>5, <1>6, <1>7, <1>8, <1>9 DEF IInv

\* Emptying the ring.
LEMMA ResetIInv ==
  ASSUME IInv, Reset, life' = "alive" \/ life' = "gone", mt = "idle",
         UNCHANGED <<sent, pc, dropMessageOnOverflow, calls, heard, latest>>,
         posted' \in BOOLEAN, listening' \in BOOLEAN
  PROVE  IInv'
<1>1. start' \in Nat /\ end' = start'
  BY DEF Reset
<1>2. NumReady' = 0 /\ ReadySlots' = {}
  BY <1>1, NothingReadyPrimed
<1>3. TypeOK'
  <2>1. /\ slots' \in [Indices -> Message \cup {Null}]
        /\ size' \in 0 .. MaxSize /\ start' \in Indices /\ end' \in Indices
    BY Types DEF Reset
  <2>2. QED
    BY <2>1 DEF IInv, TypeOK, calls
<1>4. SlotsSound'
  BY <1>2 DEF SlotsSound, Reset
<1>5. NoLostWakeup'
  BY <1>2 DEF NoLostWakeup
<1>6. Origin' /\ LastIsHeard'
  BY DEF IInv, Origin, LastIsHeard, Reset, calls
<1>7. QED
  BY <1>3, <1>4, <1>5, <1>6 DEF IInv

LEMMA CallListenersIInv == ASSUME IInv, CallListeners PROVE IInv'
<1>1. /\ taken \in Seq(Senders \X Nat) /\ taken # << >> /\ life = "alive"
      /\ lastMessage = taken[Len(taken)]
  BY DEF IInv, Origin, LastIsHeard, CallListeners
<1>2. Head(taken) \in Senders \X Nat /\ taken' \in Seq(Senders \X Nat)
  BY <1>1 DEF CallListeners
<1>3. UNCHANGED ring /\ UNCHANGED <<posted, pc, life, lastMessage>>
  BY DEF CallListeners
<1>4. SlotsSound' /\ NumReady' = NumReady
  BY <1>3, RingUnchanged DEF IInv
<1>5. TypeOK'
  <2>1. heard' \in [Threads -> Nat]
    BY <1>2, Types DEF IInv, TypeOK, CallListeners
  <2>2. taken' \in Seq(Message)
    BY <1>2, Types
  <2>3. QED
    BY <2>1, <2>2 DEF IInv, TypeOK, CallListeners, ring
<1>6. NoLostWakeup'
  BY <1>3, <1>4 DEF IInv, NoLostWakeup
<1>7. Origin'
  BY <1>1, <1>2 DEF IInv, Origin, CallListeners, ring
<1>8. LastIsHeard'
  <2>1. CASE taken' = << >>
    <3>1. Len(taken) = 1 /\ lastMessage = Head(taken)
      <4>1. Tail(taken) = << >> /\ Len(Tail(taken)) = Len(taken) - 1
        BY <1>1, <2>1 DEF CallListeners
      <4>2. Len(taken) = 1
        BY <1>1, <4>1
      <4>3. QED
        BY <1>1, <4>2
    <3>2. heard'[lastMessage[1]] = lastMessage[2]
      BY <1>2, <3>1, Types DEF IInv, TypeOK, CallListeners
    <3>3. QED
      BY <1>2, <1>3, <2>1, <3>1, <3>2 DEF LastIsHeard, CallListeners
  <2>2. CASE taken' # << >>
    <3>1. taken'[Len(taken')] = taken[Len(taken)]
      BY <1>1, <2>2 DEF CallListeners
    <3>2. QED
      BY <1>1, <1>3, <2>2, <3>1 DEF LastIsHeard, CallListeners
  <2>3. QED
    BY <2>1, <2>2
<1>9. QED
  BY <1>4, <1>5, <1>6, <1>7, <1>8 DEF IInv

\* The message thread's other steps leave the ring alone.
LEMMA SendNowIInv == ASSUME IInv, SendNow PROVE IInv'
<1>1. UNCHANGED ring /\ UNCHANGED <<posted, pc, life, calls>>
  BY DEF SendNow
<1>2. SlotsSound' /\ NumReady' = NumReady
  BY <1>1, RingUnchanged DEF IInv
<1>3. TypeOK'
  <2>1. sent[MessageThread] + 1 \in Nat
    BY Types DEF IInv, TypeOK
  <2>2. sent' \in [Threads -> Nat] /\ heard' \in [Threads -> Nat]
    BY <2>1, Types DEF IInv, TypeOK, SendNow, Decided
  <2>3. latest' \in Message
    BY <2>1, Types DEF IInv, TypeOK, SendNow, Adding, Message
  <2>4. QED
    BY <2>2, <2>3 DEF IInv, TypeOK, SendNow, ring, calls
<1>4. NoLostWakeup' /\ Origin'
  BY <1>1, <1>2 DEF IInv, NoLostWakeup, Origin, ring, calls
<1>5. LastIsHeard'
  <2>1. \A s \in Senders : heard'[s] = heard[s]
    BY ThreadAssumption, Types DEF IInv, TypeOK, SendNow
  <2>2. QED
    BY <1>1, <2>1 DEF IInv, LastIsHeard, calls
<1>6. QED
  BY <1>2, <1>3, <1>4, <1>5 DEF IInv

LEMMA CallLastListenersIInv == ASSUME IInv, CallLastListeners PROVE IInv'
<1>1. UNCHANGED ring /\ UNCHANGED <<posted, pc, life>>
  BY DEF CallLastListeners
<1>2. SlotsSound' /\ NumReady' = NumReady
  BY <1>1, RingUnchanged DEF IInv
<1>3. TypeOK'
  BY Types DEF IInv, TypeOK, CallLastListeners, ring
<1>4. NoLostWakeup' /\ Origin' /\ LastIsHeard'
  BY <1>1, <1>2 DEF IInv, NoLostWakeup, Origin, LastIsHeard, CallLastListeners, ring
<1>5. QED
  BY <1>2, <1>3, <1>4 DEF IInv

LEMMA ListenIInv == ASSUME IInv, Listen PROVE IInv'
<1>1. UNCHANGED ring /\ UNCHANGED <<posted, pc, life, calls, heard>>
  BY DEF Listen
<1>2. SlotsSound' /\ NumReady' = NumReady
  BY <1>1, RingUnchanged DEF IInv
<1>3. TypeOK'
  <2>1. listening' \in BOOLEAN
    BY DEF IInv, TypeOK, Listen
  <2>2. QED
    BY <2>1, Types DEF IInv, TypeOK, Listen, ring, calls
<1>4. NoLostWakeup' /\ Origin' /\ LastIsHeard'
  BY <1>1, <1>2 DEF IInv, NoLostWakeup, Origin, LastIsHeard, ring, calls
<1>5. QED
  BY <1>2, <1>3, <1>4 DEF IInv

LEMMA DestroyIInv == ASSUME IInv, Destroy PROVE IInv'
<1>1. CASE life = "cancelled" /\ Reset
  BY <1>1, ResetIInv DEF Destroy
<1>2. CASE ~(life = "cancelled" /\ Reset)
  <2>1. UNCHANGED ring /\ UNCHANGED <<sent, pc, calls, ears, dropMessageOnOverflow>>
    BY <1>2 DEF Destroy, ears
  <2>2. SlotsSound' /\ NumReady' = NumReady
    BY <2>1, RingUnchanged DEF IInv
  <2>3. TypeOK'
    <3>1. posted' \in BOOLEAN /\ life' \in {"alive", "flagged", "cancelled", "gone"}
      BY DEF IInv, TypeOK, Destroy
    <3>2. QED
      BY <2>1, <3>1 DEF IInv, TypeOK, ring, calls, ears
  <2>4. NoLostWakeup'
    BY <1>2 DEF Destroy, NoLostWakeup
  <2>5. Origin' /\ LastIsHeard'
    BY <2>1 DEF IInv, Origin, LastIsHeard, Destroy, ring, calls, ears
  <2>6. QED
    BY <2>2, <2>3, <2>4, <2>5 DEF IInv
<1>3. QED
  BY <1>1, <1>2

LEMMA StepIInv == IInv /\ [Next]_vars => IInv'
<1> SUFFICES ASSUME IInv, [Next]_vars PROVE IInv'
  OBVIOUS
<1>1. ASSUME NEW s \in Senders, AddMessage(s) \/ Send(s) PROVE IInv'
  BY <1>1, AddMessageIInv, WriteIInv DEF Send
<1>2. CASE SendNow
  BY <1>2, SendNowIInv
<1>3. CASE Handle
  BY <1>3, HandleIInv, CallListenersIInv, CallLastListenersIInv DEF Handle
<1>4. CASE ClearQueue
  <2>1. posted' \in BOOLEAN /\ listening' \in BOOLEAN
    BY <1>4 DEF ClearQueue, IInv, TypeOK, ears
  <2>2. QED
    BY <1>4, <2>1, ResetIInv DEF ClearQueue, ears
<1>5. CASE Listen
  BY <1>5, ListenIInv
<1>6. CASE Destroy
  BY <1>6, DestroyIInv
<1>7. CASE UNCHANGED vars
  <2>1. UNCHANGED ring
    BY <1>7 DEF vars
  <2>2. SlotsSound' /\ NumReady' = NumReady
    BY <2>1, RingUnchanged DEF IInv
  <2>3. QED
    BY <1>7, <2>2 DEF vars, ring, calls, ears, IInv, TypeOK, NoLostWakeup, Origin, LastIsHeard
<1>8. QED
  BY <1>1, <1>2, <1>3, <1>4, <1>5, <1>6, <1>7 DEF Next

LEMMA AlwaysIInv == Spec => []IInv
<1>1. Init => IInv
  BY InitIInv
<1>2. IInv /\ [Next]_vars => IInv'
  BY StepIInv
<1>3. QED
  BY <1>1, <1>2, PTL DEF Spec

\* Every variable of the notifier keeps its type: the two ends stay in the ring
\* and the array never outgrows it.
THEOREM TypeCorrect == Spec => []TypeOK
<1>1. IInv => TypeOK
  BY DEF IInv
<1>2. QED
  BY <1>1, AlwaysIInv, PTL

\* The ring is sound: every ready slot is in the array and holds a message, and
\* every other one is empty, so that handleAsyncUpdate never runs out of range
\* and no writer deletes a message that listeners are reading.
THEOREM RingIsSound == Spec => []SlotsSound
<1>1. IInv => SlotsSound
  BY DEF IInv
<1>2. QED
  BY <1>1, AlwaysIInv, PTL

\* While the notifier lives, a message in the ring has an update posted for it,
\* or a thread that has just released the lock and is about to post one.
THEOREM WakeupIsNotLost == Spec => []NoLostWakeup
<1>1. IInv => NoLostWakeup
  BY DEF IInv
<1>2. QED
  BY <1>1, AlwaysIInv, PTL

-----------------------------------------------------------------------------
\* Nobody listens without having forgotten what the coalesced listener heard.
Forgotten == ~listening => latest = NoMessage \/ life = "gone"

LEMMA CoalescedStep ==
  IInv /\ CoalescedIsLast /\ Forgotten /\ [Next]_vars => (CoalescedIsLast /\ Forgotten)'
<1> SUFFICES ASSUME IInv, CoalescedIsLast, Forgotten, [Next]_vars
             PROVE  CoalescedIsLast' /\ Forgotten'
  OBVIOUS
<1>1. ASSUME NEW s \in Senders, AddMessage(s) \/ Send(s)
      PROVE  CoalescedIsLast' /\ Forgotten'
  <2>1. UNCHANGED <<calls, life, ears>>
    BY <1>1 DEF AddMessage, Send, CheckDestroyed, Write, Overflow, TriggerAsyncUpdate
  <2>2. QED
    BY <2>1 DEF calls, ears, CoalescedIsLast, Forgotten
<1>2. CASE SendNow
  <2>1. Forgotten'
    BY <1>2 DEF SendNow, Forgotten
  <2>2. CASE listening
    <3>1. latest' = <<MessageThread, sent[MessageThread] + 1>>
          /\ heard'[MessageThread] = sent[MessageThread] + 1
      BY <1>2, <2>2, Types DEF SendNow, Adding, IInv, TypeOK
    <3>2. QED
      BY <2>1, <3>1 DEF CoalescedIsLast
  <2>3. CASE ~listening
    BY <1>2, <2>1, <2>3 DEF SendNow, CoalescedIsLast, calls
  <2>4. QED
    BY <2>2, <2>3
<1>3. CASE HandleAsyncUpdate
  BY <1>3 DEF HandleAsyncUpdate, CoalescedIsLast, Forgotten, ears, calls
<1>4. CASE CallListeners
  BY <1>4 DEF CallListeners, CoalescedIsLast, Forgotten
<1>5. CASE CallLastListeners
  <2>1. Forgotten'
    BY <1>5 DEF CallLastListeners, Forgotten
  <2>2. CASE listening
    BY <1>5, <2>1, <2>2 DEF CallLastListeners, CoalescedIsLast, IInv, LastIsHeard
  <2>3. CASE ~listening
    BY <1>5, <2>1, <2>3 DEF CallLastListeners, CoalescedIsLast, Forgotten, IInv, Origin
  <2>4. QED
    BY <2>2, <2>3
<1>6. CASE ClearQueue
  BY <1>6 DEF ClearQueue, CoalescedIsLast, Forgotten, ears, calls
<1>7. CASE Listen
  BY <1>7 DEF Listen, CoalescedIsLast, Forgotten, calls, IInv, TypeOK
<1>8. CASE Destroy
  BY <1>8 DEF Destroy, CoalescedIsLast, Forgotten, calls
<1>9. CASE UNCHANGED vars
  BY <1>9 DEF vars, CoalescedIsLast, Forgotten, ears, calls
<1>10. QED
  BY <1>1, <1>2, <1>3, <1>4, <1>5, <1>6, <1>7, <1>8, <1>9 DEF Next, Handle

\* Whenever the message thread has finished with a batch, a coalesced listener
\* has heard the last message of some thread, never one that a later message of
\* that thread had replaced.
THEOREM CoalescedHearsTheLast == Spec => []CoalescedIsLast
<1>1. Init => CoalescedIsLast /\ Forgotten
  BY DEF Init, CoalescedIsLast, Forgotten
<1>2. IInv /\ (CoalescedIsLast /\ Forgotten) /\ [Next]_vars => (CoalescedIsLast /\ Forgotten)'
  BY CoalescedStep
<1>3. QED
  BY <1>1, <1>2, AlwaysIInv, PTL DEF Spec

-----------------------------------------------------------------------------
\* What waits in the ring is a sequence as long as the ring is full.
LEMMA WaitingIsSeq ==
  IInv => /\ NumReady \in 0 .. MaxSize - 1
          /\ Waiting \in Seq(Senders \X Nat) /\ Len(Waiting) = NumReady
          /\ taken \in Seq(Senders \X Nat)
<1> SUFFICES ASSUME IInv
             PROVE  /\ NumReady \in 0 .. MaxSize - 1
                    /\ Waiting \in Seq(Senders \X Nat) /\ Len(Waiting) = NumReady
                    /\ taken \in Seq(Senders \X Nat)
  OBVIOUS
<1>1. start \in Indices /\ end \in Indices
  BY DEF IInv, TypeOK
<1>2. NumReady \in 0 .. MaxSize - 1
  BY <1>1, SizeAssumption DEF NumReady, Indices
<1>3. \A i \in 0 .. NumReady - 1 : Wrap(start + i) \in Indices
  BY <1>1, <1>2, SizeAssumption DEF Indices, Wrap
<1>4. \A i \in 1 .. NumReady : slots[Wrap(start + i - 1)] \in Senders \X Nat
  <2> SUFFICES ASSUME NEW i \in 1 .. NumReady
               PROVE  slots[Wrap(start + i - 1)] \in Senders \X Nat
    OBVIOUS
  <2>1. i - 1 \in 0 .. NumReady - 1 /\ start + i - 1 = start + (i - 1)
    BY <1>1, <1>2 DEF Indices
  <2>2. Wrap(start + i - 1) \in ReadySlots /\ Wrap(start + i - 1) \in Indices
    BY <1>3, <2>1 DEF ReadySlots
  <2>3. QED
    BY <2>2 DEF IInv, Origin, SlotsSound
<1>5. Waiting \in Seq(Senders \X Nat) /\ Len(Waiting) = NumReady
  BY <1>2, <1>4 DEF Waiting
<1>6. QED
  BY <1>2, <1>5 DEF IInv, Origin

\* A message written is the last that waits.
LEMMA WriteAppends ==
  ASSUME IInv, NEW s \in Senders, Write(s)
  PROVE  Waiting' = Append(Waiting, Adding(s))
<1>1. /\ NumReady \in Nat /\ NumReady' = NumReady + 1
      /\ Wrap(start + NumReady) = end
      /\ \A i \in 0 .. NumReady - 1 : Wrap(start + i) \in Indices /\ Wrap(start + i) # end
  BY WriteRing
<1>2. start \in Nat /\ end \in Indices /\ slots \in [Indices -> Message \cup {Null}]
  BY DEF IInv, TypeOK, Indices
<1>3. Waiting' = [i \in 1 .. NumReady + 1 |-> slots'[Wrap(start + i - 1)]]
  BY <1>1 DEF Waiting, Write, Wrap
<1>4. \A i \in 1 .. NumReady : slots'[Wrap(start + i - 1)] = slots[Wrap(start + i - 1)]
  <2> SUFFICES ASSUME NEW i \in 1 .. NumReady
               PROVE  slots'[Wrap(start + i - 1)] = slots[Wrap(start + i - 1)]
    OBVIOUS
  <2>1. i - 1 \in 0 .. NumReady - 1 /\ start + i - 1 = start + (i - 1)
    BY <1>1, <1>2
  <2>2. Wrap(start + i - 1) \in Indices /\ Wrap(start + i - 1) # end
    BY <1>1, <2>1
  <2>3. QED
    BY <1>2, <2>2 DEF Write
<1>5. slots'[Wrap(start + (NumReady + 1) - 1)] = Adding(s)
  <2>1. start + (NumReady + 1) - 1 = start + NumReady
    BY <1>1, <1>2
  <2>2. QED
    BY <1>1, <1>2, <2>1 DEF Write
<1>6. Waiting \in Seq(Senders \X Nat) /\ Len(Waiting) = NumReady
  BY WaitingIsSeq
<1>7. Adding(s) \in Senders \X Nat
  BY Types DEF IInv, TypeOK, Adding
<1>8. \A i \in 1 .. NumReady : Waiting[i] = slots[Wrap(start + i - 1)]
  BY DEF Waiting
<1>9. Waiting' \in Seq(Senders \X Nat) /\ Len(Waiting') = NumReady + 1
  <2>1. \A i \in 1 .. NumReady : Waiting[i] \in Senders \X Nat
    BY <1>6
  <2>2. \A i \in 1 .. NumReady + 1 : slots'[Wrap(start + i - 1)] \in Senders \X Nat
    BY <1>1, <1>4, <1>5, <1>7, <1>8, <2>1
  <2>3. QED
    BY <1>1, <1>3, <2>2
<1>10. /\ Append(Waiting, Adding(s)) \in Seq(Senders \X Nat)
       /\ Len(Append(Waiting, Adding(s))) = NumReady + 1
       /\ \A i \in 1 .. NumReady : Append(Waiting, Adding(s))[i] = Waiting[i]
       /\ Append(Waiting, Adding(s))[NumReady + 1] = Adding(s)
  BY <1>6, <1>7, AppendProperties
<1>11. \A i \in 1 .. NumReady + 1 : Waiting'[i] = Append(Waiting, Adding(s))[i]
  BY <1>1, <1>3, <1>4, <1>5, <1>8, <1>10
<1>12. QED
  BY <1>9, <1>10, <1>11, SeqEqual

-----------------------------------------------------------------------------
\* Steps that the abstract queue does not see.
LEMMA HiddenStep ==
  UNCHANGED <<sent, taken, Waiting, life, heard, latest, listening>>
      => UNCHANGED Queue!vars
BY DEF Queue!vars, isBeingDestroyed

LEMMA AddMessageImplements ==
  ASSUME IInv, NEW s \in Senders,
         AddMessage(s) \/ CheckDestroyed(s) \/ Overflow(s) \/ TriggerAsyncUpdate(s)
  PROVE  [Queue!Next]_(Queue!vars)
<1>1. UNCHANGED <<ring, calls, life, ears>>
  BY DEF AddMessage, CheckDestroyed, Overflow, TriggerAsyncUpdate
<1>2. UNCHANGED <<taken, Waiting, life, heard, latest, listening>>
  BY <1>1, RingUnchanged DEF calls, ears
<1>3. CASE UNCHANGED sent
  BY <1>2, <1>3, HiddenStep
<1>4. CASE Ignored(s)
  <2>1. isBeingDestroyed \/ ~listening \/ Len(Waiting) >= MaxSize - 1 \/ UNCHANGED sent
    <3>1. CASE Overflow(s)
      <4>1. NumReady \in 0 .. MaxSize - 1 /\ MaxSize - NumReady - 1 = 0
        BY <3>1, WaitingIsSeq DEF Overflow, FreeSpace
      <4>2. Len(Waiting) = MaxSize - 1
        BY <4>1, WaitingIsSeq, SizeAssumption
      <4>3. QED
        BY <4>2, SizeAssumption
    <3>2. QED
      BY <3>1 DEF AddMessage, CheckDestroyed, TriggerAsyncUpdate
  <2>2. CASE UNCHANGED sent
    BY <1>3, <2>2
  <2>3. CASE isBeingDestroyed \/ ~listening \/ Len(Waiting) >= MaxSize - 1
    <3>1. Queue!Drop(s)
      BY <1>2, <1>4, <2>3 DEF Queue!Drop, Ignored, Decided, isBeingDestroyed
    <3>2. s \in Queue!Threads
      BY DEF Queue!Threads
    <3>3. QED
      BY <3>1, <3>2 DEF Queue!Next
  <2>4. QED
    BY <2>1, <2>2, <2>3
<1>5. QED
  BY <1>3, <1>4 DEF AddMessage, CheckDestroyed, Overflow, TriggerAsyncUpdate

LEMMA WriteImplements ==
  ASSUME IInv, NEW s \in Senders, Write(s) PROVE Queue!Next
<1>1. Waiting' = Append(Waiting, Adding(s))
  BY WriteAppends
<1>4. Queue!Accept(s)
  BY <1>1 DEF Queue!Accept, Write, Decided, Adding, calls, ears, isBeingDestroyed
<1>5. QED
  BY <1>4 DEF Queue!Next

LEMMA HandleImplements ==
  ASSUME IInv, Handle PROVE [Queue!Next]_(Queue!vars)
<1>1. CASE HandleAsyncUpdate
  <2>1. taken' = Waiting /\ Waiting' = << >>
    BY <1>1, HandleTakes
  <2>2. taken = << >>
    BY <1>1 DEF IInv, Origin, HandleAsyncUpdate
  <2>3. UNCHANGED <<sent, heard, latest, listening, life>> /\ life = "alive"
    BY <1>1 DEF HandleAsyncUpdate, ears
  <2>4. CASE Waiting = << >>
    <3>1. UNCHANGED <<sent, taken, Waiting, life, heard, latest, listening>>
      BY <2>1, <2>2, <2>3, <2>4
    <3>2. QED
      BY <3>1, HiddenStep
  <2>5. CASE Waiting # << >>
    <3>1. Queue!Take
      BY <2>1, <2>2, <2>3, <2>5 DEF Queue!Take, isBeingDestroyed
    <3>2. QED
      BY <3>1 DEF Queue!Next
  <2>6. QED
    BY <2>4, <2>5
<1>2. CASE CallListeners
  <2>1. taken # << >> /\ life = "alive"
    BY <1>2 DEF IInv, Origin, CallListeners
  <2>2. Waiting' = Waiting
    BY <1>2, RingUnchanged DEF CallListeners
  <2>3. Queue!Deliver
    BY <1>2, <2>1, <2>2 DEF Queue!Deliver, CallListeners, isBeingDestroyed
  <2>4. QED
    BY <2>3 DEF Queue!Next
<1>3. CASE CallLastListeners
  <2>1. /\ lastMessage \in Senders \X Nat /\ lastMessage[2] = heard[lastMessage[1]]
        /\ life = "alive" /\ taken = << >>
    BY <1>3 DEF IInv, Origin, LastIsHeard, CallLastListeners
  <2>2. Waiting' = Waiting
    BY <1>3, RingUnchanged DEF CallLastListeners
  <2>3. CASE listening
    <3>1. lastMessage = <<lastMessage[1], heard[lastMessage[1]]>> /\ lastMessage[1] \in Senders
      BY <2>1
    <3>2. Queue!Coalesce
      BY <1>3, <2>1, <2>2, <2>3, <3>1
      DEF Queue!Coalesce, CallLastListeners, isBeingDestroyed
    <3>3. QED
      BY <3>2 DEF Queue!Next
  <2>4. CASE ~listening
    <3>1. UNCHANGED <<sent, taken, Waiting, life, heard, latest, listening>>
      BY <1>3, <2>2, <2>4 DEF CallLastListeners
    <3>2. QED
      BY <3>1, HiddenStep
  <2>5. QED
    BY <2>3, <2>4
<1>4. QED
  BY <1>1, <1>2, <1>3 DEF Handle

LEMMA SendNowImplements == ASSUME IInv, SendNow PROVE Queue!Next
<1>1. UNCHANGED <<taken, Waiting, life, listening>>
  BY RingUnchanged DEF SendNow, calls
<1>2. CASE listening
  <2>1. Queue!Direct
    BY <1>1, <1>2 DEF Queue!Direct, SendNow, Decided, Adding, isBeingDestroyed
  <2>2. QED
    BY <2>1 DEF Queue!Next
<1>3. CASE ~listening
  <2>1. Queue!Drop(MessageThread)
    BY <1>1, <1>3 DEF Queue!Drop, SendNow, Decided, isBeingDestroyed
  <2>2. QED
    BY <2>1 DEF Queue!Next, Queue!Threads
<1>4. QED
  BY <1>2, <1>3

\* Emptying the ring while the message thread is idle leaves nothing that waits.
LEMMA ResetEmpties ==
  ASSUME IInv, Reset, mt = "idle", UNCHANGED calls
  PROVE  taken = << >> /\ taken' = << >> /\ Waiting' = << >>
<1>1. start' \in Nat /\ end' = start'
  BY DEF Reset
<1>2. QED
  BY <1>1, NothingReadyPrimed DEF calls, IInv, Origin

LEMMA ListenImplements == ASSUME IInv, Listen PROVE Queue!Next
<1>1. UNCHANGED <<taken, Waiting, life>>
  BY RingUnchanged DEF Listen, calls
<1>2. Queue!Listen
  BY <1>1 DEF Queue!Listen, Listen, Queue!NoMessage, NoMessage, isBeingDestroyed
<1>3. QED
  BY <1>2 DEF Queue!Next

LEMMA DestroyImplements == ASSUME IInv, Destroy PROVE [Queue!Next]_(Queue!vars)
<1>1. taken = << >> /\ UNCHANGED <<taken, sent, heard, latest>>
  BY DEF Destroy, IInv, Origin, calls
<1>2. CASE life = "cancelled"
  <2>1. Waiting' = << >> /\ listening' = FALSE /\ isBeingDestroyed'
    BY <1>2, ResetEmpties DEF Destroy, isBeingDestroyed
  <2>2. Queue!Close
    BY <1>1, <2>1 DEF Queue!Close
  <2>3. QED
    BY <2>2 DEF Queue!Next
<1>3. CASE life = "flagged"
  <2>1. UNCHANGED <<Waiting, listening, isBeingDestroyed>>
    BY <1>3, RingUnchanged DEF Destroy, isBeingDestroyed
  <2>2. QED
    BY <1>1, <2>1 DEF Queue!vars
<1>4. CASE life = "alive"
  <2>1. UNCHANGED <<Waiting, listening>> /\ isBeingDestroyed'
    BY <1>4, RingUnchanged DEF Destroy, isBeingDestroyed
  <2>2. Queue!Close
    BY <1>1, <2>1 DEF Queue!Close
  <2>3. QED
    BY <2>2 DEF Queue!Next
<1>5. QED
  BY <1>2, <1>3, <1>4 DEF Destroy

LEMMA StepImplements == IInv /\ [Next]_vars => [Queue!Next]_(Queue!vars)
<1> SUFFICES ASSUME IInv, [Next]_vars PROVE [Queue!Next]_(Queue!vars)
  OBVIOUS
<1>1. ASSUME NEW s \in Senders, AddMessage(s) \/ Send(s) PROVE [Queue!Next]_(Queue!vars)
  BY <1>1, AddMessageImplements, WriteImplements DEF Send
<1>2. CASE ClearQueue
  <2>1. taken = << >> /\ Waiting' = << >>
    BY <1>2, ResetEmpties DEF ClearQueue
  <2>2. UNCHANGED <<sent, taken, heard, latest, listening, isBeingDestroyed>>
    BY <1>2 DEF ClearQueue, ears, calls, isBeingDestroyed
  <2>3. Queue!Clear
    BY <2>1, <2>2 DEF Queue!Clear
  <2>4. QED
    BY <2>3 DEF Queue!Next
<1>3. CASE UNCHANGED vars
  <2>1. UNCHANGED <<sent, taken, Waiting, life, heard, latest, listening>>
    BY <1>3, RingUnchanged DEF vars, calls, ears
  <2>2. QED
    BY <2>1, HiddenStep
<1>4. QED
  BY <1>1, <1>2, <1>3, HandleImplements, SendNowImplements, ListenImplements,
     DestroyImplements DEF Next

LEMMA InitImplements == Init => Queue!Init
<1> SUFFICES ASSUME Init PROVE Queue!Init
  OBVIOUS
<1>1. taken = << >> /\ Waiting = << >>
  BY NothingReady DEF Init
<1>2. QED
  BY <1>1 DEF Init, Queue!Init, Queue!Threads, Threads, Queue!NoMessage, NoMessage,
     isBeingDestroyed

\* The ring, the lock and the posted update implement the queue: what a
\* background thread adds is delivered once and in order, whatever the size of the
\* ring and the number of threads, and a message is dropped only when MaxSize - 1
\* of them wait, when nobody listens or when the notifier is being destroyed.
THEOREM ImplementsQueue == Spec => Implements
<1>1. Init => Queue!Init
  BY InitImplements
<1>2. IInv /\ [Next]_vars => [Queue!Next]_(Queue!vars)
  BY StepImplements
<1>3. QED
  BY <1>1, <1>2, AlwaysIInv, PTL DEF Spec, Implements, Queue!Safety
=============================================================================
