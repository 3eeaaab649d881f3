------------------------- MODULE NotificationQueue -------------------------
(***************************************************************************)
(* What a QueuedNotifier (juce_organicui/helpers/QueuedNotifier.h)         *)
(* promises, without its ring, its lock and its posted update.  The        *)
(* messages a background thread adds are heard in the order it added them, *)
(* each at most once; one is dropped only when Capacity of them wait, when *)
(* nobody listens or when the notifier is being destroyed; those that wait *)
(* are taken all together and then heard one by one, unless the queue is   *)
(* cleared first, which loses none that was taken.  What the message       *)
(* thread adds is heard at once, so it overtakes.                          *)
(*                                                                         *)
(* A message is <<thread, number>>, numbered in the order its thread adds. *)
(***************************************************************************)
EXTENDS Naturals, Sequences

CONSTANTS Senders,        \* background threads
          MessageThread,
          Capacity        \* messages that may wait before one is dropped

VARIABLES sent,       \* how many messages each thread has added
          waiting,    \* the messages accepted, oldest first
          taken,      \* the messages being delivered, oldest first
          heard,      \* the last message of each thread that was delivered
          latest,     \* the last message that a coalesced listener heard
          listening,  \* somebody listens
          open        \* the notifier is not being destroyed

vars == <<sent, waiting, taken, heard, latest, listening, open>>

Threads == Senders \cup {MessageThread}
NoMessage == <<MessageThread, 0>>

Init == /\ sent = [t \in Threads |-> 0]
        /\ waiting = << >> /\ taken = << >>
        /\ heard = [t \in Threads |-> 0]
        /\ latest = NoMessage
        /\ listening \in BOOLEAN
        /\ open = TRUE

\* A background thread adds a message, which waits.
Accept(s) == /\ sent' = [sent EXCEPT ![s] = @ + 1]
             /\ waiting' = Append(waiting, <<s, sent[s] + 1>>)
             /\ UNCHANGED <<taken, heard, latest, listening, open>>

\* A message is dropped.
Drop(t) == /\ \/ Len(waiting) >= Capacity
              \/ ~listening
              \/ ~open
           /\ sent' = [sent EXCEPT ![t] = @ + 1]
           /\ UNCHANGED <<waiting, taken, heard, latest, listening, open>>

\* The message thread calls the listeners of what it adds at once.
Direct == /\ open
          /\ listening
          /\ sent' = [sent EXCEPT ![MessageThread] = @ + 1]
          /\ heard' = [heard EXCEPT ![MessageThread] = sent[MessageThread] + 1]
          /\ latest' = <<MessageThread, sent[MessageThread] + 1>>
          /\ UNCHANGED <<waiting, taken, listening, open>>

\* All the messages that wait are taken, once those before them were heard.
Take == /\ open
        /\ taken = << >> /\ waiting # << >>
        /\ taken' = waiting /\ waiting' = << >>
        /\ UNCHANGED <<sent, heard, latest, listening, open>>

\* The oldest message taken is delivered to whoever listens.
Deliver == /\ open
           /\ taken # << >>
           /\ taken' = Tail(taken)
           /\ heard' = [heard EXCEPT ![Head(taken)[1]] = Head(taken)[2]]
           /\ UNCHANGED <<sent, waiting, latest, listening, open>>

\* A coalesced listener hears the last message of some thread.
Coalesce == /\ open
            /\ listening
            /\ taken = << >>
            /\ \E t \in Senders : latest' = <<t, heard[t]>>
            /\ UNCHANGED <<sent, waiting, taken, heard, listening, open>>

\* The queue is cleared, or the notifier destroyed, when no message is being delivered.
Clear == /\ taken = << >>
         /\ waiting' = << >>
         /\ UNCHANGED <<sent, taken, heard, latest, listening, open>>

Close == /\ taken = << >>
         /\ open' = FALSE
         /\ \/ UNCHANGED <<waiting, listening>>
            \/ waiting' = << >> /\ listening' = FALSE
         /\ UNCHANGED <<sent, taken, heard, latest>>

Listen == /\ listening' = ~listening
          /\ latest' = IF listening' THEN latest ELSE NoMessage
          /\ UNCHANGED <<sent, waiting, taken, heard, open>>

Next == \/ \E s \in Senders : Accept(s)
        \/ \E t \in Threads : Drop(t)
        \/ Direct \/ Take \/ Deliver \/ Coalesce \/ Clear \/ Close \/ Listen

Safety == Init /\ [][Next]_vars
Liveness == WF_vars(Take) /\ WF_vars(Deliver)
Spec == Safety /\ Liveness
=============================================================================
