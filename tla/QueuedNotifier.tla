--------------------------- MODULE QueuedNotifier ---------------------------
(***************************************************************************)
(* The queue between any thread and the message thread                     *)
(* (juce_organicui/helpers/QueuedNotifier.h): a ring of MaxSize slots in   *)
(* an array that grows on demand, a lock, and an asynchronous update of    *)
(* the message thread that empties the ring and calls the listeners.       *)
(*                                                                         *)
(* A critical section of queueLock is one step.  What is between two of    *)
(* them, the check of isBeingDestroyed, triggerAsyncUpdate and the calls   *)
(* of listeners, are steps of their own.  juce::AbstractFifo and           *)
(* juce::AsyncUpdater are outside the repository: they are modelled from   *)
(* how this class uses them.                                               *)
(***************************************************************************)
EXTENDS Naturals, Sequences

CONSTANTS Senders,        \* background threads that add messages
          MessageThread,
          Null,           \* an empty slot
          MaxSize,        \* slots of the ring, one of which stays empty
          MaxMessages     \* bound: messages that each thread adds

Threads == Senders \cup {MessageThread}

ASSUME SizeAssumption == MaxSize \in Nat /\ MaxSize >= 2
ASSUME ThreadAssumption == MessageThread \notin Senders /\ MaxMessages \in Nat
ASSUME NullAssumption == Null \notin Threads \X Nat

VARIABLES sent,          \* messages of each thread whose addMessage is decided
          pc,            \* where each background thread is in addMessage
          slots,         \* messageQueue
          size,          \* messageQueue.size(): slots allocated
          start, end,    \* validStart and validEnd of the fifo
          dropMessageOnOverflow,
          posted,        \* an asynchronous update is pending
          mt,            \* what the message thread is doing with the notifier
          taken,         \* messagesToDeliver that listeners have not heard
          lastMessage,   \* the last of messagesToDeliver
          life,          \* how far the destructor has come
          listening,     \* listeners or lastListeners is not empty
          heard,         \* history: the last message of each thread that was delivered
          latest         \* history: the last message of a coalesced listener

ring == <<slots, size, start, end>>
ears == <<listening, heard, latest>>
calls == <<mt, taken, lastMessage>>
vars == <<sent, pc, ring, dropMessageOnOverflow, posted, calls, life, ears>>

NoMessage == <<MessageThread, 0>>
Message == Threads \X Nat
Indices == 0 .. MaxSize - 1
isBeingDestroyed == life # "alive"

\* The message that thread t is adding.
Adding(t) == <<t, sent[t] + 1>>

-----------------------------------------------------------------------------
\* juce::AbstractFifo

Wrap(i) == IF i >= MaxSize THEN i - MaxSize ELSE i
NumReady == IF end >= start THEN end - start ELSE MaxSize - (start - end)
FreeSpace == MaxSize - NumReady - 1
ReadySlots == {Wrap(start + i) : i \in 0 .. NumReady - 1}
Waiting == [i \in 1 .. NumReady |-> slots[Wrap(start + i - 1)]]

Reset == /\ slots' = [i \in Indices |-> Null]
         /\ size' = 0
         /\ start' = 0
         /\ end' = 0

\* Ownership of what was read leaves the ring.
\* Mutant: the ring keeps it, as before the fix that handleAsyncUpdate tells of.
Freed_None == slots
Freed == [i \in Indices |-> IF i \in ReadySlots THEN Null ELSE slots[i]]

\* The array grows until it has the slot at the end.
\* Mutant: by one more.
Grown_OneMore == IF size <= end + 1 THEN end + 2 ELSE size
Grown == IF size <= end THEN end + 1 ELSE size

\* The messages in the ready slots.
\* Mutant: when the ring wraps, only those up to its last slot.
Read_FirstBlock == SubSeq(Waiting, 1, IF end >= start THEN NumReady ELSE MaxSize - start)
Read == IF \A i \in ReadySlots : slots[i] # Null
        THEN Waiting ELSE SelectSeq(Waiting, LAMBDA m : m # Null)

\* juce::AsyncUpdater
\* Mutant: only the first message of a batch triggers.
TriggerUpdate_OnFirst == posted' = (posted \/ NumReady = 1)
TriggerUpdate == posted' = TRUE

\* Mutant: the first message taken stands for the last.
LastOf_First(q) == q[1]
LastOf(q) == q[Len(q)]

-----------------------------------------------------------------------------
Init == /\ sent = [t \in Threads |-> 0]
        /\ pc = [s \in Senders |-> "idle"]
        /\ slots = [i \in Indices |-> Null]
        /\ size = 0 /\ start = 0 /\ end = 0
        /\ dropMessageOnOverflow \in BOOLEAN
        /\ posted = FALSE
        /\ mt = "idle" /\ taken = << >> /\ lastMessage = NoMessage
        /\ life = "alive"
        /\ listening \in BOOLEAN
        /\ heard = [t \in Threads |-> 0]
        /\ latest = NoMessage

Goto(s, l) == pc' = [pc EXCEPT ![s] = l]
Decided(t) == sent' = [sent EXCEPT ![t] = @ + 1]
Ignored(s) == Goto(s, "idle") /\ Decided(s)

\* addMessage on a background thread: nothing to do without listeners.
AddMessage(s) ==
    /\ pc[s] = "idle"
    /\ sent[s] < MaxMessages
    /\ life # "gone"
    /\ IF isBeingDestroyed \/ ~listening
       THEN Ignored(s)
       ELSE Goto(s, "check") /\ UNCHANGED sent
    /\ UNCHANGED <<ring, dropMessageOnOverflow, posted, calls, life, ears>>

\* Each turn of the loop looks at isBeingDestroyed before it locks.
CheckDestroyed(s) ==
    /\ pc[s] = "check"
    /\ life # "gone"
    /\ IF isBeingDestroyed
       THEN Ignored(s)
       ELSE Goto(s, "lock") /\ UNCHANGED sent
    /\ UNCHANGED <<ring, dropMessageOnOverflow, posted, calls, life, ears>>

\* Under the lock, the message takes the slot at the end if there is room.
Write(s) ==
    /\ pc[s] = "lock"
    /\ life # "gone"
    /\ FreeSpace > 0
    /\ slots' = [slots EXCEPT ![end] = Adding(s)]
    /\ size' = Grown
    /\ end' = Wrap(end + 1)
    /\ Goto(s, "trigger")
    /\ Decided(s)
    /\ UNCHANGED <<start, dropMessageOnOverflow, posted, calls, life, ears>>

\* There is no room: the message is dropped, or the thread sleeps and retries.
Overflow(s) ==
    /\ pc[s] = "lock"
    /\ life # "gone"
    /\ FreeSpace = 0
    /\ IF dropMessageOnOverflow
       THEN Ignored(s)
       ELSE Goto(s, "check") /\ UNCHANGED sent
    /\ UNCHANGED <<ring, dropMessageOnOverflow, posted, calls, life, ears>>

\* triggerAsyncUpdate, once the lock is released.
TriggerAsyncUpdate(s) ==
    /\ pc[s] = "trigger"
    /\ life # "gone"
    /\ TriggerUpdate
    /\ Goto(s, "idle")
    /\ UNCHANGED <<sent, ring, dropMessageOnOverflow, calls, life, ears>>

-----------------------------------------------------------------------------
\* addMessage on the message thread, possibly from a listener it is calling:
\* the listeners are called at once.
SendNow ==
    /\ life = "alive"
    /\ sent[MessageThread] < MaxMessages
    /\ Decided(MessageThread)
    /\ IF listening
       THEN /\ heard' = [heard EXCEPT ![MessageThread] = sent[MessageThread] + 1]
            /\ latest' = Adding(MessageThread)
       ELSE UNCHANGED <<heard, latest>>
    /\ UNCHANGED <<pc, ring, dropMessageOnOverflow, posted, calls, life, listening>>

\* The update runs: it takes the messages out of the ring under the lock.
HandleAsyncUpdate ==
    /\ mt = "idle"
    /\ life = "alive"
    /\ posted
    /\ posted' = FALSE
    /\ IF \E i \in ReadySlots : i >= size
       THEN Reset /\ UNCHANGED calls
       ELSE /\ taken' = Read
            /\ slots' = Freed
            /\ start' = end
            /\ UNCHANGED <<size, end>>
            /\ IF taken' = << >>
               THEN UNCHANGED <<mt, lastMessage>>
               ELSE mt' = "calling" /\ lastMessage' = LastOf(taken')
    /\ UNCHANGED <<sent, pc, dropMessageOnOverflow, life, ears>>

\* Whoever listens hears the next message taken.
CallListeners ==
    /\ mt = "calling"
    /\ heard' = [heard EXCEPT ![Head(taken)[1]] = Head(taken)[2]]
    /\ taken' = Tail(taken)
    /\ mt' = IF taken' = << >> THEN "coalescing" ELSE "calling"
    /\ UNCHANGED <<sent, pc, ring, dropMessageOnOverflow, posted, lastMessage, life,
                   listening, latest>>

\* The coalesced listeners hear the last one.
CallLastListeners ==
    /\ mt = "coalescing"
    /\ latest' = IF listening THEN lastMessage ELSE latest
    /\ mt' = "idle"
    /\ lastMessage' = NoMessage
    /\ UNCHANGED <<sent, pc, ring, dropMessageOnOverflow, posted, taken, life, listening,
                   heard>>

\* clearQueue, from the destructors of parameters and containers.
ClearQueue ==
    /\ mt = "idle"
    /\ life = "alive"
    /\ Reset
    /\ UNCHANGED <<sent, pc, dropMessageOnOverflow, posted, calls, life, ears>>

\* addListener, addAsyncCoalescedListener, removeListener.
Listen ==
    /\ life = "alive"
    /\ listening' = ~listening
    /\ latest' = IF listening' THEN latest ELSE NoMessage
    /\ UNCHANGED <<sent, pc, ring, dropMessageOnOverflow, posted, calls, life, heard>>

\* The destructor: the flag, the pending update, then the queue.
Destroy ==
    /\ mt = "idle"
    /\ \/ /\ life = "alive"
          /\ life' = "flagged"
          /\ UNCHANGED <<ring, posted, listening>>
       \/ /\ life = "flagged"
          /\ life' = "cancelled"
          /\ posted' = FALSE
          /\ UNCHANGED <<ring, listening>>
       \/ /\ life = "cancelled"
          /\ life' = "gone"
          /\ Reset
          /\ listening' = FALSE
          /\ posted' = FALSE
    /\ UNCHANGED <<sent, pc, dropMessageOnOverflow, calls, heard, latest>>

-----------------------------------------------------------------------------
Send(s) == CheckDestroyed(s) \/ Write(s) \/ Overflow(s) \/ TriggerAsyncUpdate(s)
Handle == HandleAsyncUpdate \/ CallListeners \/ CallLastListeners

Next == \/ \E s \in Senders : AddMessage(s) \/ Send(s)
        \/ SendNow \/ Handle \/ ClearQueue \/ Listen \/ Destroy

\* A thread inside addMessage goes on, and the message thread runs its updates.
Fairness == /\ \A s \in Senders : WF_vars(Send(s))
            /\ WF_vars(Handle)

Spec == Init /\ [][Next]_vars /\ Fairness
-----------------------------------------------------------------------------
TypeOK ==
    /\ sent \in [Threads -> Nat] /\ heard \in [Threads -> Nat]
    /\ pc \in [Senders -> {"idle", "check", "lock", "trigger"}]
    /\ slots \in [Indices -> Message \cup {Null}]
    /\ size \in 0 .. MaxSize /\ start \in Indices /\ end \in Indices
    /\ dropMessageOnOverflow \in BOOLEAN
    /\ posted \in BOOLEAN
    /\ mt \in {"idle", "calling", "coalescing"}
    /\ taken \in Seq(Message) /\ lastMessage \in Message
    /\ life \in {"alive", "flagged", "cancelled", "gone"}
    /\ listening \in BOOLEAN
    /\ latest \in Message

\* A ready slot is inside the array and holds a message, and no other slot
\* does: the read never runs out of range, and a writer never deletes a message
\* that a listener may be reading (what the comment of handleAsyncUpdate fears).
SlotsSound == \A i \in Indices : IF i \in ReadySlots
                                  THEN i < size /\ slots[i] # Null
                                  ELSE slots[i] = Null

\* No message waits without an update that will come for it: one is posted, or
\* a thread that has released the lock is about to post one.
NoLostWakeup == (NumReady > 0 /\ life = "alive")
                    => posted \/ \E s \in Senders : pc[s] = "trigger"

\* A coalesced listener that has heard anything has heard the last message of
\* that thread to be delivered, never one that others of the batch replaced.
CoalescedIsLast == (mt = "idle" /\ latest # NoMessage)
                       => latest[2] = heard[latest[1]]

\* The notifier implements NotificationQueue: what is added is delivered in order
\* and once, and nothing is dropped without a reason.
Queue == INSTANCE NotificationQueue
           WITH waiting <- Waiting, open <- ~isBeingDestroyed, Capacity <- MaxSize - 1
Implements == Queue!Safety

\* A message that waits is delivered in the end, unless the notifier is cleared or
\* destroyed; and a thread that does not drop its message, and sleeps on the full
\* queue, gets out of addMessage.
Delivered == /\ Queue!Liveness
             /\ \A s \in Senders : pc[s] # "idle" ~> (pc[s] = "idle" \/ life = "gone")
=============================================================================
