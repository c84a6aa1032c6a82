------------------------- MODULE AsyncDriverProofs -------------------------
(***************************************************************************)
(* Proofs about the asynchronous driver, for any clients, commands, buffer *)
(* capacity and number of items.                                           *)
(***************************************************************************)
EXTENDS AsyncDriver, Integers, SequenceTheorems, TLAPS

(* The inductive invariant: the protocol of commands and replies *)

\* The channels whose senders are in q, and the one whose sender the owner
\* holds; Unanswered once it has completed it.
Senders(q) == {q[i].reply : i \in 1..Len(q)}
Hand == IF driver.command = None THEN {} ELSE {driver.command.reply}
Unanswered == IF driver.at = "sent" THEN {} ELSE Hand

OnceEach(q) == \A i, j \in 1..Len(q) : q[i].reply = q[j].reply => i = j

Mine(c) == <<c, client[c].turn>>

\* Where the owner is, the completion of a reply counted to what follows it.
Stage == IF driver.at \in {"reply", "sent"} THEN driver.then ELSE driver.at

Quiet(m) == m.execution_events = <<>> /\ m.pending_lifecycle = None /\ m.succeeded = 0

\* A client that waits has a command of its own, on the channel of its turn.
ClientInv ==
    \A c \in Clients :
        /\ client[c].at = "idle" <=> client[c].command = None
        /\ client[c].at # "idle" => client[c].command.reply = Mine(c)
        /\ client[c].at = "rejected" => closed

\* What the owner holds at each stage, and what the mailbox shows of it.
PhaseInv ==
    /\ driver.at \in {"handle", "effect", "reply", "sent"} => driver.command # None
    /\ driver.command # None => driver.at \in {"handle", "effect", "reply", "sent", "unwind"}
    /\ driver.result # None <=> driver.at = "reply"
    /\ closed <=> Stage \in {"closing", "return", "exited", "lost"}
    /\ owner_dropped <=> Stage = "lost"
    /\ closed => commands = <<>>
    /\ driver.rest # <<>> => Stage \in {"closing", "lost"}
    /\ Stage \in {"close", "closing", "return", "exited"} => Quiet(runtime)
    /\ driver.final # <<>> => Stage = "close"
    /\ shutdown_execution_events # <<>> => Stage \in {"closing", "return", "exited"}

\* A sender is in one place.
SenderInv ==
    /\ OnceEach(commands) /\ OnceEach(driver.rest)
    /\ Hand \cap (Senders(commands) \cup Senders(driver.rest)) = {}

\* A client's response is there exactly when its sender has completed it.
AnswerInv ==
    \A c \in Clients :
        /\ client[c].at = "rejected" =>
              /\ response[Mine(c)].result = None
              /\ Mine(c) \notin Senders(commands) \cup Senders(driver.rest) \cup Hand
        /\ client[c].at \in {"wake", "poll", "parked"} =>
              (response[Mine(c)].result = None
                 <=> Mine(c) \in Senders(commands) \cup Senders(driver.rest) \cup Unanswered)

\* The two halves of NoLostWakeup, up to the senders that AnswerInv counts.
OwnerInv ==
    driver.at = "parked" /\ ~driver.woken =>
        \/ commands = <<>> /\ waker
        \/ \E c \in Clients : client[c].at = "wake"
SleepInv ==
    \A c \in Clients : client[c].at = "parked" /\ ~client[c].woken =>
        response[Mine(c)].result = None /\ response[Mine(c)].waker

\* The reply in the owner's hand is as truthful as the ones delivered.
TruthInv ==
    driver.result # None =>
        /\ driver.result.tag = "OwnerDropped" => owner_dropped
        /\ driver.result.tag = "ShuttingDown" => closed /\ ~owner_dropped

Protocol ==
    /\ TypeOK /\ ClientInv /\ PhaseInv /\ SenderInv /\ AnswerInv
    /\ OwnerInv /\ SleepInv /\ TruthfulAnswers /\ TruthInv
----------------------------------------------------------------------------
(* Queues of commands *)

\* Appending a command whose channel is new keeps the channels apart.
LEMMA AppendSender ==
    ASSUME NEW q \in Seq(Command), NEW x \in Command
    PROVE  /\ Append(q, x) \in Seq(Command)
           /\ Senders(Append(q, x)) = Senders(q) \cup {x.reply}
           /\ OnceEach(q) /\ x.reply \notin Senders(q) => OnceEach(Append(q, x))
<1>1. Append(q, x) \in Seq(Command) /\ Len(Append(q, x)) = Len(q) + 1
  OBVIOUS
<1>2. \A i \in 1..Len(q) : Append(q, x)[i] = q[i]
  OBVIOUS
<1>3. Append(q, x)[Len(q) + 1] = x
  OBVIOUS
<1>n. Len(q) \in Nat
  OBVIOUS
<1> DEFINE p == Append(q, x)
<1> HIDE DEF p
<1>4. /\ Len(p) = Len(q) + 1 /\ p[Len(q) + 1] = x
      /\ \A i \in 1..Len(q) : p[i] = q[i]
  BY <1>1, <1>2, <1>3 DEF p
<1>5. Senders(p) = Senders(q) \cup {x.reply}
  BY <1>4, <1>n DEF Senders
<1>6. OnceEach(q) /\ x.reply \notin Senders(q) => OnceEach(p)
  BY <1>4, <1>n DEF Senders, OnceEach
<1> QED  BY <1>1, <1>5, <1>6 DEF p

\* Taking the first command out takes its channel out.
LEMMA TakeSender ==
    ASSUME NEW q \in Seq(Command), q # <<>>
    PROVE  /\ Head(q) \in Command /\ Tail(q) \in Seq(Command)
           /\ Senders(q) = Senders(Tail(q)) \cup {Head(q).reply}
           /\ OnceEach(q) => /\ OnceEach(Tail(q))
                             /\ Head(q).reply \notin Senders(Tail(q))
<1>1. /\ Head(q) \in Command /\ Tail(q) \in Seq(Command)
      /\ Len(Tail(q)) = Len(q) - 1 /\ Head(q) = q[1] /\ Len(q) \in Nat /\ Len(q) > 0
  OBVIOUS
<1>2. \A i \in 1..Len(Tail(q)) : Tail(q)[i] = q[i + 1]
  OBVIOUS
<1> DEFINE p == Tail(q)  x == Head(q)
<1> HIDE DEF p, x
<1>3. /\ Len(p) = Len(q) - 1 /\ x = q[1] /\ Len(q) \in Nat /\ Len(q) > 0
      /\ \A i \in 1..Len(p) : p[i] = q[i + 1]
  BY <1>1, <1>2 DEF p, x
<1>4. ASSUME NEW ch PROVE ch \in Senders(q) <=> ch \in Senders(p) \cup {x.reply}
  <2>1. ASSUME ch \in Senders(q) PROVE ch \in Senders(p) \cup {x.reply}
    <3>1. PICK i \in 1..Len(q) : ch = q[i].reply  BY <2>1 DEF Senders
    <3>2. CASE i = 1  BY <3>1, <3>2, <1>3
    <3>3. CASE i # 1
      <4>1. i - 1 \in 1..Len(p) /\ p[i - 1] = q[i]  BY <3>1, <3>3, <1>3
      <4> QED  BY <4>1, <3>1 DEF Senders
    <3> QED  BY <3>2, <3>3
  <2>2. ASSUME ch \in Senders(p) PROVE ch \in Senders(q)
    <3>1. PICK i \in 1..Len(p) : ch = p[i].reply  BY <2>2 DEF Senders
    <3>2. i + 1 \in 1..Len(q) /\ p[i] = q[i + 1]  BY <3>1, <1>3
    <3> QED  BY <3>1, <3>2 DEF Senders
  <2>3. x.reply \in Senders(q)  BY <1>3 DEF Senders
  <2> QED  BY <2>1, <2>2, <2>3
<1>5. OnceEach(q) => OnceEach(p)
  <2> SUFFICES ASSUME OnceEach(q), NEW i \in 1..Len(p), NEW j \in 1..Len(p),
                      p[i].reply = p[j].reply
               PROVE  i = j
    BY DEF OnceEach
  <2>1. i + 1 \in 1..Len(q) /\ j + 1 \in 1..Len(q)  BY <1>3
  <2>2. q[i + 1].reply = q[j + 1].reply  BY <1>3
  <2> QED  BY <2>1, <2>2 DEF OnceEach
<1>6. OnceEach(q) => x.reply \notin Senders(p)
  <2> SUFFICES ASSUME OnceEach(q), NEW i \in 1..Len(p), p[i].reply = x.reply PROVE FALSE
    BY DEF Senders
  <2>1. i + 1 \in 1..Len(q) /\ 1 \in 1..Len(q) /\ i + 1 # 1  BY <1>3
  <2> QED  BY <2>1, <1>3 DEF OnceEach
<1> QED  BY <1>1, <1>4, <1>5, <1>6 DEF p, x

\* No sender is in an empty queue.
LEMMA NoSenders == Senders(<<>>) = {} /\ OnceEach(<<>>) /\ <<>> \in Seq(Command)
BY DEF Senders, OnceEach

\* An answer without items is a result.
LEMMA AnswerType ==
    ASSUME NEW tag \in {"Ok", "Error", "Backpressured", "OwnerDropped", "ShuttingDown"}
    PROVE  Answer(tag) \in Result /\ Answer(tag).tag = tag /\ Answer(tag).items = <<>>
           /\ Answer(tag) # None
<1>1. <<>> \in Seq(1..MaxItems)
  OBVIOUS
<1>2. Answer(tag) \in Result
  BY <1>1 DEF Answer, Result
<1> QED  BY <1>2, NoneAssumption DEF Answer

\* The items of a sequence of items are items.
LEMMA ItemsType == ASSUME NEW s \in Seq(1..MaxItems) PROVE ItemsIn(s) \subseteq 1..MaxItems
<1> SUFFICES ASSUME NEW i \in 1..Len(s) PROVE s[i] \in 1..MaxItems
  BY DEF ItemsIn
<1> QED  BY ElementOfSeq
----------------------------------------------------------------------------
(* The steps of the clients keep the protocol *)

\* The fields of the records, one by one.
LEMMA Fields ==
    ASSUME TypeOK
    PROVE  /\ \A c \in Clients : /\ client[c].at \in {"idle", "wake", "rejected", "poll", "parked"}
                                 /\ client[c].turn \in {0, 1}
                                 /\ client[c].command \in Command \cup {None}
                                 /\ client[c].woken \in BOOLEAN
                                 /\ Mine(c) \in Channel
           /\ \A ch \in Channel : /\ response[ch].result \in Result \cup {None}
                                  /\ response[ch].waker \in BOOLEAN
BY DEF TypeOK, ClientState, Mine, Channel

\* A submission, to an open or to a closed mailbox.
LEMMA SubmitProtocol ==
    ASSUME Protocol, NEW c \in Clients, NEW kind \in Kinds, submit(c, kind)
    PROVE  Protocol'
<1> DEFINE ch == <<c, 1 - client[c].turn>>
           command == [kind |-> kind, reply |-> ch]
<1>1. /\ ch \in Channel /\ command \in Command /\ command # None /\ ch[2] \in {0, 1}
      /\ client[c].at = "idle" /\ ch = <<c, ch[2]>> /\ ch # Mine(c)
  <2>1. client[c].turn \in {0, 1} /\ client[c].at = "idle"
    BY Fields DEF Protocol, submit
  <2>2. 1 - client[c].turn \in {0, 1} /\ 1 - client[c].turn # client[c].turn
    BY <2>1
  <2>3. ch \in Channel /\ ch[2] = 1 - client[c].turn /\ ch # Mine(c)
    BY <2>2 DEF Channel, Mine
  <2>4. command \in Command
    BY <2>3 DEF Command
  <2> QED  BY <2>1, <2>2, <2>3, <2>4, NoneAssumption
<1>2. ch \notin Senders(commands) \cup Senders(driver.rest) \cup Hand
  BY <1>1, Fields DEF Protocol, submit, MaySubmit, Queued, InHand, Senders, Hand
<1>a. PICK to \in {"rejected", "wake", "poll"} :
        /\ client' = [client EXCEPT ![c] = [at |-> to, turn |-> ch[2], command |-> command,
                                            woken |-> FALSE]]
        /\ to = "rejected" <=> closed
        /\ to = "wake" <=> ~closed /\ waker
  BY DEF submit
<1>b. /\ response' = [response EXCEPT ![ch] = NoResponse]
      /\ UNCHANGED <<driver, runtime, received, forgotten, closed, owner_dropped,
                     shutdown_execution_events>>
  BY DEF submit, mailbox
<1>c. IF closed THEN UNCHANGED <<commands, waker>>
      ELSE commands' = Append(commands, command) /\ waker' = FALSE
  BY DEF submit, mailbox
<1> HIDE DEF ch, command
<1>3. /\ Senders(commands') = IF closed THEN Senders(commands) ELSE Senders(commands) \cup {ch}
      /\ OnceEach(commands') /\ commands' \in Seq(Command)
  <2>1. commands \in Seq(Command) /\ OnceEach(commands) /\ command.reply = ch
    BY DEF Protocol, TypeOK, SenderInv, command
  <2> QED  BY <1>1, <1>2, <1>c, <2>1, AppendSender
<1>d. Hand' = Hand /\ Unanswered' = Unanswered
  BY <1>b DEF Hand, Unanswered
<1>4. TypeOK'
  <2>1. client' \in [Clients -> ClientState]
    BY <1>1, <1>a DEF Protocol, TypeOK, ClientState
  <2>2. response' \in [Channel -> [result : Result \cup {None}, waker : BOOLEAN]]
    BY <1>1, <1>b DEF Protocol, TypeOK, NoResponse
  <2> QED  BY <2>1, <2>2, <1>3, <1>b, <1>c DEF Protocol, TypeOK
<1>5. /\ client'[c].at = to /\ Mine(c)' = ch /\ client'[c].command = command
      /\ ~client'[c].woken /\ command.reply = ch
      /\ \A e \in Clients : e # c => client'[e] = client[e] /\ Mine(e)' = Mine(e) /\ Mine(e) # ch
  BY <1>1, <1>a DEF Protocol, TypeOK, Mine, command
<1>6. /\ response'[ch] = NoResponse
      /\ \A e \in Clients : e # c => response'[Mine(e)] = response[Mine(e)]
  BY <1>1, <1>b, <1>5 DEF Protocol, TypeOK
<1>7. ClientInv'
  BY <1>1, <1>5, <1>a, <1>b DEF Protocol, ClientInv
<1>8. PhaseInv'
  BY <1>b, <1>c DEF Protocol, PhaseInv, Stage, Quiet
<1>9. SenderInv'
  BY <1>2, <1>3, <1>b, <1>d DEF Protocol, SenderInv
<1>10. AnswerInv'
  <2>1. SUFFICES ASSUME NEW e \in Clients
                 PROVE  AnswerInv!(e)'
    BY DEF AnswerInv
  <2>2. CASE e = c
    BY <2>2, <1>a, <1>2, <1>3, <1>5, <1>6, <1>b, <1>d DEF NoResponse, Unanswered
  <2>3. CASE e # c
    BY <2>3, <1>3, <1>5, <1>6, <1>b, <1>d DEF Protocol, AnswerInv
  <2> QED  BY <2>2, <2>3
<1>11. OwnerInv'
  BY <1>a, <1>1, <1>5, <1>b, <1>c DEF Protocol, OwnerInv, PhaseInv, Stage
<1>12. SleepInv'
  BY <1>a, <1>5, <1>6 DEF Protocol, SleepInv
<1>13. TruthfulAnswers'
  BY <1>5, <1>6, <1>b DEF Protocol, TruthfulAnswers, Mine, NoResponse
<1>14. TruthInv'
  BY <1>b DEF Protocol, TruthInv
<1> QED  BY <1>4, <1>7, <1>8, <1>9, <1>10, <1>11, <1>12, <1>13, <1>14 DEF Protocol

\* The waker of the owner is called.
LEMMA WakeProtocol ==
    ASSUME Protocol, NEW c \in Clients, wake(c)
    PROVE  Protocol'
<1>1. /\ client' = [client EXCEPT ![c].at = "poll"]
      /\ driver' = [driver EXCEPT !.woken = TRUE] /\ client[c].at = "wake"
      /\ UNCHANGED <<commands, closed, owner_dropped, waker, shutdown_execution_events,
                     response, runtime, received, forgotten>>
  BY DEF wake, mailbox
<1>2. /\ driver'.at = driver.at /\ driver'.command = driver.command /\ driver'.woken
      /\ driver'.rest = driver.rest /\ driver'.result = driver.result
      /\ driver'.then = driver.then /\ driver'.final = driver.final
  BY <1>1 DEF Protocol, TypeOK, DriverState
<1>3. /\ client'[c].at = "poll"
      /\ \A e \in Clients : /\ client'[e].turn = client[e].turn
                            /\ client'[e].command = client[e].command
                            /\ client'[e].woken = client[e].woken
                            /\ e # c => client'[e] = client[e]
                            /\ Mine(e)' = Mine(e)
  BY <1>1 DEF Protocol, TypeOK, ClientState, Mine
<1>4. TypeOK'
  BY <1>1 DEF Protocol, TypeOK, ClientState, DriverState
<1>5. Hand' = Hand /\ Unanswered' = Unanswered /\ Stage' = Stage
  BY <1>2 DEF Hand, Unanswered, Stage
<1>6. ClientInv'
  BY <1>1, <1>3 DEF Protocol, ClientInv
<1>7. PhaseInv'
  BY <1>1, <1>2, <1>5 DEF Protocol, PhaseInv
<1>8. SenderInv'
  BY <1>1, <1>2, <1>5 DEF Protocol, SenderInv
<1>9. AnswerInv'
  BY <1>1, <1>2, <1>3, <1>5 DEF Protocol, AnswerInv
<1>10. OwnerInv'
  BY <1>2 DEF OwnerInv
<1>11. SleepInv'
  BY <1>1, <1>3 DEF Protocol, SleepInv
<1>12. TruthfulAnswers' /\ TruthInv'
  BY <1>1, <1>2, <1>3 DEF Protocol, TruthfulAnswers, TruthInv
<1> QED  BY <1>4, <1>6, <1>7, <1>8, <1>9, <1>10, <1>11, <1>12 DEF Protocol

\* A step of one client that touches its own response and, once the mailbox
\* is closed, the events left in it.
ClientLocal(c) ==
    /\ UNCHANGED <<commands, closed, owner_dropped, waker, driver, runtime>>
    /\ \A e \in Clients \ {c} :
          client'[e] = client[e] /\ response'[Mine(e)] = response[Mine(e)]
    /\ client'[c].turn = client[c].turn
    /\ client[c].at # "wake" /\ client'[c].at \notin {"wake", "rejected"}
    /\ shutdown_execution_events' \in {shutdown_execution_events, <<>>}
    /\ IF client'[c].at = "idle" THEN client'[c].command = None
       ELSE client[c].at # "idle" /\ client'[c].command = client[c].command

\* Such a step keeps the protocol if it leaves the client's answer right.
LEMMA ClientLocalProtocol ==
    ASSUME Protocol, TypeOK', NEW c \in Clients, ClientLocal(c),
           AnswerInv!(c)', SleepInv!(c)', TruthfulAnswers!(c)'
    PROVE  Protocol'
<1>1. \A e \in Clients : Mine(e)' = Mine(e) /\ (e # c => client'[e] = client[e])
  BY DEF ClientLocal, Mine
<1>2. Hand' = Hand /\ Unanswered' = Unanswered /\ Stage' = Stage
  BY DEF ClientLocal, Hand, Unanswered, Stage
<1>3. ClientInv'
  BY <1>1 DEF Protocol, ClientInv, ClientLocal
<1>4. PhaseInv'
  BY <1>2 DEF Protocol, PhaseInv, ClientLocal
<1>5. SenderInv'
  BY <1>2 DEF Protocol, SenderInv, ClientLocal
<1>6. AnswerInv'
  <2> SUFFICES ASSUME NEW e \in Clients PROVE AnswerInv!(e)'
    BY DEF AnswerInv
  <2>1. CASE e # c
    BY <2>1, <1>1, <1>2 DEF Protocol, AnswerInv, ClientLocal
  <2> QED  BY <2>1
<1>7. OwnerInv'
  BY <1>1 DEF Protocol, OwnerInv, ClientLocal
<1>8. SleepInv'
  <2> SUFFICES ASSUME NEW e \in Clients PROVE SleepInv!(e)'
    BY DEF SleepInv
  <2>1. CASE e # c
    BY <2>1, <1>1, <1>2 DEF Protocol, SleepInv, ClientLocal
  <2> QED  BY <2>1
<1>9. TruthfulAnswers'
  <2> SUFFICES ASSUME NEW e \in Clients PROVE TruthfulAnswers!(e)'
    BY DEF TruthfulAnswers
  <2>1. CASE e # c
    BY <2>1, <1>1, <1>2 DEF Protocol, TruthfulAnswers, ClientLocal, Mine
  <2> QED  BY <2>1
<1>10. TruthInv'
  BY DEF Protocol, TruthInv, ClientLocal
<1> QED  BY <1>3, <1>4, <1>5, <1>6, <1>7, <1>8, <1>9, <1>10 DEF Protocol

\* What is left for a drain after the shutdown is a result.
LEMMA AfterCloseType ==
    ASSUME Protocol, closed, NEW kind
    PROVE  /\ AfterClose(kind) \in Result /\ AfterClose(kind) # None
           /\ AfterClose(kind).tag = "OwnerDropped" => owner_dropped
           /\ AfterClose(kind).tag = "ShuttingDown" => ~owner_dropped
           /\ AfterClose(kind).items \in {<<>>, shutdown_execution_events}
<1>1. [tag |-> "Ok", items |-> shutdown_execution_events] \in Result
  BY DEF Protocol, TypeOK, Result
<1>2. CASE owner_dropped
  BY <1>2, AnswerType DEF AfterClose
<1>3. CASE ~owner_dropped /\ kind = "DrainExecutionEvents"
  BY <1>1, <1>3, NoneAssumption DEF AfterClose
<1>4. CASE ~owner_dropped /\ kind # "DrainExecutionEvents"
  BY <1>4, AnswerType DEF AfterClose
<1> QED  BY <1>2, <1>3, <1>4

\* A command that missed the mailbox is answered on the client's thread.
LEMMA RejectedProtocol ==
    ASSUME Protocol, NEW c \in Clients, answer_rejected(c)
    PROVE  Protocol'
<1> DEFINE r == AfterClose(client[c].command.kind)
<1>1. /\ client[c].at = "rejected" /\ closed /\ client[c].command.reply = Mine(c)
      /\ Mine(c) \in Channel
  BY Fields DEF Protocol, answer_rejected, ClientInv
<1>2. /\ client' = [client EXCEPT ![c].at = "poll"]
      /\ response' = [response EXCEPT ![Mine(c)].result = r]
      /\ UNCHANGED <<commands, closed, owner_dropped, waker, driver, runtime, received, forgotten>>
  BY <1>1 DEF answer_rejected
<1>3. shutdown_execution_events' \in {shutdown_execution_events, <<>>}
  BY DEF answer_rejected, take_shutdown_execution_events
<1>4. /\ r \in Result /\ r # None
      /\ r.tag = "OwnerDropped" => owner_dropped
      /\ r.tag = "ShuttingDown" => ~owner_dropped
  BY <1>1, AfterCloseType
<1> HIDE DEF r
<1>5. TypeOK'
  <2>1. client' \in [Clients -> ClientState]
    BY <1>2 DEF Protocol, TypeOK, ClientState
  <2>2. response' \in [Channel -> [result : Result \cup {None}, waker : BOOLEAN]]
    BY <1>2, <1>4 DEF Protocol, TypeOK
  <2>3. shutdown_execution_events' \in Seq(1..MaxItems)
    <3>1. <<>> \in Seq(1..MaxItems)  OBVIOUS
    <3> QED  BY <3>1, <1>3 DEF Protocol, TypeOK
  <2> QED  BY <2>1, <2>2, <2>3, <1>2 DEF Protocol, TypeOK
<1>6. /\ client'[c].at = "poll" /\ client'[c].turn = client[c].turn
      /\ client'[c].command = client[c].command
      /\ response'[Mine(c)].result = r /\ Mine(c)' = Mine(c)
      /\ \A e \in Clients \ {c} : /\ client'[e] = client[e] /\ Mine(e) # Mine(c)
                                  /\ response'[Mine(e)] = response[Mine(e)]
  BY <1>1, <1>2, Fields DEF Protocol, TypeOK, ClientState, Mine
<1>7. ClientLocal(c)
  BY <1>1, <1>2, <1>3, <1>6 DEF ClientLocal
<1>8. AnswerInv!(c)'
  BY <1>1, <1>2, <1>4, <1>6 DEF Protocol, AnswerInv, Hand, Unanswered
<1>9. SleepInv!(c)'
  BY <1>6
<1>10. TruthfulAnswers!(c)'
  BY <1>1, <1>2, <1>4, <1>6 DEF Mine
<1> QED  BY <1>5, <1>7, <1>8, <1>9, <1>10, ClientLocalProtocol

\* A future is polled: it resolves, or it registers and sleeps.
LEMMA PollProtocol ==
    ASSUME Protocol, NEW c \in Clients, poll(c)
    PROVE  Protocol'
<1>1. /\ client[c].at \in {"poll", "parked"} /\ client[c].command.reply = Mine(c)
      /\ Mine(c) \in Channel
  BY Fields DEF Protocol, poll, ClientInv
<1>2. UNCHANGED <<commands, closed, owner_dropped, waker, shutdown_execution_events,
                  driver, runtime, forgotten>>
  BY DEF poll, mailbox
<1>3. CASE response[Mine(c)].result # None
  <2>1. /\ received' = received \cup ItemsIn(response[Mine(c)].result.items)
        /\ response' = [response EXCEPT ![Mine(c)].result = None]
        /\ client' = [client EXCEPT ![c] = Idle(@)]
    BY <1>1, <1>3 DEF poll
  <2>2. /\ client'[c].at = "idle" /\ client'[c].turn = client[c].turn
        /\ client'[c].command = None
        /\ response'[Mine(c)].result = None /\ Mine(c)' = Mine(c)
        /\ \A e \in Clients \ {c} : /\ client'[e] = client[e] /\ Mine(e) # Mine(c)
                                    /\ response'[Mine(e)] = response[Mine(e)]
    BY <1>1, <2>1, Fields DEF Protocol, TypeOK, ClientState, Mine, Idle
  <2>3. TypeOK'
    <3>1. client' \in [Clients -> ClientState]
      BY <2>1 DEF Protocol, TypeOK, ClientState, Idle
    <3>2. response' \in [Channel -> [result : Result \cup {None}, waker : BOOLEAN]]
      BY <2>1 DEF Protocol, TypeOK
    <3>3. response[Mine(c)].result.items \in Seq(1..MaxItems)
      BY <1>1, <1>3, Fields DEF Protocol, Result
    <3>4. received' \subseteq 1..MaxItems
      BY <2>1, <3>3, ItemsType DEF Protocol, TypeOK
    <3> QED  BY <3>1, <3>2, <3>4, <1>2 DEF Protocol, TypeOK
  <2>4. ClientLocal(c)
    BY <1>1, <1>2, <2>2 DEF ClientLocal
  <2>5. AnswerInv!(c)' /\ SleepInv!(c)' /\ TruthfulAnswers!(c)'
    BY <2>2
  <2> QED  BY <2>3, <2>4, <2>5, ClientLocalProtocol
<1>4. CASE response[Mine(c)].result = None
  <2>1. /\ response' = [response EXCEPT ![Mine(c)].waker = TRUE]
        /\ client' = [client EXCEPT ![c].at = "parked", ![c].woken = FALSE]
        /\ received' = received
    BY <1>1, <1>4 DEF poll
  <2>2. /\ client'[c].at = "parked" /\ client'[c].turn = client[c].turn
        /\ client'[c].command = client[c].command
        /\ response'[Mine(c)].result = None /\ response'[Mine(c)].waker /\ Mine(c)' = Mine(c)
        /\ \A e \in Clients \ {c} : /\ client'[e] = client[e] /\ Mine(e) # Mine(c)
                                    /\ response'[Mine(e)] = response[Mine(e)]
    BY <1>1, <1>4, <2>1, Fields DEF Protocol, TypeOK, ClientState, Mine
  <2>3. TypeOK'
    <3>1. client' \in [Clients -> ClientState]
      BY <2>1 DEF Protocol, TypeOK, ClientState
    <3>2. response' \in [Channel -> [result : Result \cup {None}, waker : BOOLEAN]]
      BY <2>1 DEF Protocol, TypeOK
    <3> QED  BY <2>1, <3>1, <3>2, <1>2 DEF Protocol, TypeOK
  <2>4. ClientLocal(c)
    BY <1>1, <1>2, <2>2 DEF ClientLocal
  <2>5. AnswerInv!(c)'
    BY <1>1, <1>2, <1>4, <2>2 DEF Protocol, AnswerInv, Unanswered, Hand
  <2>6. SleepInv!(c)' /\ TruthfulAnswers!(c)'
    BY <2>2 DEF Mine
  <2> QED  BY <2>3, <2>4, <2>5, <2>6, ClientLocalProtocol
<1> QED  BY <1>3, <1>4

\* A future is dropped.
LEMMA AbandonProtocol ==
    ASSUME Protocol, NEW c \in Clients, abandon(c)
    PROVE  Protocol'
<1>1. /\ client[c].at \in {"poll", "parked"} /\ client[c].command.reply = Mine(c)
      /\ Mine(c) \in Channel
  BY Fields DEF Protocol, abandon, ClientInv
<1>2. /\ UNCHANGED <<commands, closed, owner_dropped, waker, shutdown_execution_events,
                     driver, runtime, received>>
      /\ response' = [response EXCEPT ![Mine(c)] = NoResponse]
      /\ client' = [client EXCEPT ![c] = Idle(@)]
      /\ forgotten' = IF response[Mine(c)].result = None THEN forgotten
                      ELSE forgotten \cup ItemsIn(response[Mine(c)].result.items)
  BY <1>1 DEF abandon, mailbox
<1>3. /\ client'[c].at = "idle" /\ client'[c].turn = client[c].turn
      /\ client'[c].command = None /\ Mine(c)' = Mine(c)
      /\ \A e \in Clients \ {c} : /\ client'[e] = client[e] /\ Mine(e) # Mine(c)
                                  /\ response'[Mine(e)] = response[Mine(e)]
  BY <1>1, <1>2, Fields DEF Protocol, TypeOK, ClientState, Mine, Idle
<1>4. TypeOK'
  <2>1. client' \in [Clients -> ClientState]
    BY <1>2 DEF Protocol, TypeOK, ClientState, Idle
  <2>2. response' \in [Channel -> [result : Result \cup {None}, waker : BOOLEAN]]
    BY <1>2 DEF Protocol, TypeOK, NoResponse
  <2>3. response[Mine(c)].result # None => response[Mine(c)].result.items \in Seq(1..MaxItems)
    BY <1>1, Fields DEF Protocol, Result
  <2>4. forgotten' \subseteq 1..MaxItems
    BY <1>2, <2>3, ItemsType DEF Protocol, TypeOK
  <2> QED  BY <2>1, <2>2, <2>4, <1>2 DEF Protocol, TypeOK
<1>5. ClientLocal(c)
  BY <1>1, <1>2, <1>3 DEF ClientLocal
<1>6. AnswerInv!(c)' /\ SleepInv!(c)' /\ TruthfulAnswers!(c)'
  BY <1>3
<1> QED  BY <1>4, <1>5, <1>6, ClientLocalProtocol
----------------------------------------------------------------------------
(* The steps of the owner keep the protocol *)

\* A step of the owner alone: commands move between the mailbox and its hands.
OwnerLocal ==
    /\ UNCHANGED <<response, client, received, forgotten>>
    /\ driver.at # "sent" /\ driver'.at # "sent"
    /\ Senders(commands') \cup Senders(driver'.rest) \cup Hand'
         = Senders(commands) \cup Senders(driver.rest) \cup Hand
    /\ closed => closed' /\ owner_dropped' = owner_dropped
    /\ owner_dropped \/ driver.at = "unwind" => owner_dropped' \/ driver'.at = "unwind"

\* Such a step keeps the protocol if it leaves the owner's side right.
LEMMA OwnerLocalProtocol ==
    ASSUME Protocol, TypeOK', OwnerLocal, PhaseInv', SenderInv', TruthInv', OwnerInv'
    PROVE  Protocol'
<1>1. Hand = Unanswered /\ Hand' = Unanswered'
  BY DEF OwnerLocal, Unanswered
<1>2. \A c \in Clients : Mine(c)' = Mine(c)
  BY DEF OwnerLocal, Mine
<1>3. ClientInv'
  BY <1>2 DEF Protocol, OwnerLocal, ClientInv
<1>4. AnswerInv'
  BY <1>1, <1>2 DEF Protocol, OwnerLocal, AnswerInv
<1>5. SleepInv'
  BY <1>2 DEF Protocol, OwnerLocal, SleepInv
<1>6. TruthfulAnswers'
  BY DEF Protocol, OwnerLocal, TruthfulAnswers
<1> QED  BY <1>3, <1>4, <1>5, <1>6 DEF Protocol

\* The owner takes the next command, or sleeps.
LEMMA NextProtocol == ASSUME Protocol, next(driver) PROVE Protocol'
<1>1. /\ UNCHANGED <<closed, owner_dropped, shutdown_execution_events, response, client,
                     runtime, received, forgotten>>
      /\ driver.at \in {"next", "parked"}
  BY DEF next
<1>2. /\ driver.command = None /\ Hand = {} /\ driver.rest = <<>> /\ driver.result = None
      /\ driver.final = <<>> /\ shutdown_execution_events = <<>> /\ ~closed /\ ~owner_dropped
  BY <1>1 DEF Protocol, PhaseInv, Stage, Hand
<1>3. CASE commands # <<>>
  <2>1. /\ driver' = [driver EXCEPT !.at = "handle", !.command = Head(commands), !.woken = FALSE]
        /\ commands' = Tail(commands) /\ waker' = waker
    BY <1>3 DEF next
  <2> DEFINE x == Head(commands)  q == Tail(commands)
  <2>2. /\ x \in Command /\ q \in Seq(Command) /\ OnceEach(q)
        /\ Senders(commands) = Senders(q) \cup {x.reply} /\ x.reply \notin Senders(q)
    BY <1>3, TakeSender DEF Protocol, TypeOK, SenderInv
  <2> HIDE DEF x, q
  <2>3. driver' = [driver EXCEPT !.at = "handle", !.command = x, !.woken = FALSE]
        /\ commands' = q
    BY <2>1 DEF x, q
  <2>4. TypeOK'
    <3>1. driver' \in DriverState
      BY <2>2, <2>3 DEF Protocol, TypeOK, DriverState
    <3> QED  BY <1>1, <2>1, <2>2, <2>3, <3>1 DEF Protocol, TypeOK
  <2>5. /\ driver'.at = "handle" /\ driver'.command = x /\ driver'.rest = <<>>
        /\ driver'.result = None /\ driver'.final = <<>>
    BY <1>2, <2>3 DEF Protocol, TypeOK, DriverState
  <2>6. Hand' = {x.reply}
    BY <2>2, <2>5, NoneAssumption DEF Hand
  <2>7. OwnerLocal
    BY <1>1, <1>2, <2>2, <2>3, <2>5, <2>6 DEF OwnerLocal
  <2>8. PhaseInv'
    BY <1>1, <1>2, <2>2, <2>5, NoneAssumption DEF PhaseInv, Stage
  <2>9. SenderInv'
    BY <1>2, <2>2, <2>3, <2>5, <2>6, NoSenders DEF SenderInv
  <2>10. TruthInv' /\ OwnerInv'
    BY <2>5 DEF TruthInv, OwnerInv
  <2> QED  BY <2>4, <2>7, <2>8, <2>9, <2>10, OwnerLocalProtocol
<1>4. CASE commands = <<>>
  <2>1. /\ driver' = [driver EXCEPT !.at = "parked", !.woken = FALSE]
        /\ commands' = commands /\ waker' = TRUE
    BY <1>4 DEF next
  <2>2. TypeOK'
    <3>1. driver' \in DriverState
      BY <2>1 DEF Protocol, TypeOK, DriverState
    <3> QED  BY <1>1, <2>1, <3>1 DEF Protocol, TypeOK
  <2>3. /\ driver'.at = "parked" /\ driver'.command = None /\ driver'.rest = <<>>
        /\ driver'.result = None /\ driver'.final = <<>>
    BY <1>2, <2>1 DEF Protocol, TypeOK, DriverState
  <2>4. Hand' = {}
    BY <2>3 DEF Hand
  <2>5. OwnerLocal
    BY <1>1, <1>2, <2>1, <2>3, <2>4 DEF OwnerLocal
  <2>6. PhaseInv'
    BY <1>1, <1>2, <2>1, <2>3 DEF PhaseInv, Stage
  <2>7. SenderInv'
    BY <1>4, <2>1, <2>3, <2>4, NoSenders DEF SenderInv
  <2>8. TruthInv' /\ OwnerInv'
    BY <1>4, <2>1, <2>3 DEF TruthInv, OwnerInv
  <2> QED  BY <2>2, <2>5, <2>6, <2>7, <2>8, OwnerLocalProtocol
<1> QED  BY <1>3, <1>4

\* The sender that the owner holds, and the one client it can belong to.
LEMMA HandFacts ==
    ASSUME Protocol, driver.command # None
    PROVE  /\ driver.command \in Command /\ driver.command.reply \in Channel
           /\ Hand = {driver.command.reply}
           /\ driver.command.reply \notin Senders(commands) \cup Senders(driver.rest)
           /\ \A c \in Clients : Mine(c) = driver.command.reply =>
                 /\ client[c].at # "rejected"
                 /\ client[c].at # "idle" <=> Awaited(driver.command.reply)
           /\ Awaited(driver.command.reply) =>
                 \E c \in Clients : Mine(c) = driver.command.reply /\ client[c].at # "idle"
<1> DEFINE ch == driver.command.reply
<1>1. driver.command \in Command /\ ch \in Channel
  BY DEF Protocol, TypeOK, DriverState, Command
<1>2. Hand = {ch}
  BY DEF Hand
<1> HIDE DEF ch
<1>3. ch \notin Senders(commands) \cup Senders(driver.rest)
  BY <1>2 DEF Protocol, SenderInv
<1>4. ASSUME NEW c \in Clients, Mine(c) = ch
      PROVE  client[c].at # "rejected" /\ (client[c].at # "idle" <=> Awaited(ch))
  <2>1. ch[1] = c  BY <1>4 DEF Mine
  <2> QED  BY <2>1, <1>2, <1>4 DEF Protocol, AnswerInv, ClientInv, Awaited
<1>5. ASSUME Awaited(ch) PROVE \E c \in Clients : Mine(c) = ch /\ client[c].at # "idle"
  <2>1. ch[1] \in Clients  BY <1>1 DEF Channel
  <2> QED  BY <2>1, <1>5 DEF Protocol, ClientInv, Awaited
<1> QED  BY <1>1, <1>2, <1>3, <1>4, <1>5 DEF ch

\* The waker of a response only wakes the client that registered it.
LEMMA WokenFacts ==
    ASSUME Protocol, NEW ch \in Channel, client' = Woken(ch)
    PROVE  /\ client' \in [Clients -> ClientState]
           /\ \A c \in Clients :
                 /\ client'[c].at = client[c].at /\ client'[c].turn = client[c].turn
                 /\ client'[c].command = client[c].command /\ Mine(c)' = Mine(c)
                 /\ client[c].woken => client'[c].woken
                 /\ Mine(c) = ch /\ Awaited(ch) /\ response[ch].waker => client'[c].woken
<1>0. ch[1] \in Clients  BY DEF Channel
<1>1. CASE response[ch].waker /\ Awaited(ch)
  <2>1. client' = [client EXCEPT ![ch[1]].woken = TRUE]
    BY <1>1 DEF Woken
  <2>2. \A c \in Clients : Mine(c) = ch => c = ch[1]
    BY DEF Mine
  <2>3. client' \in [Clients -> ClientState]
    BY <1>0, <2>1 DEF Protocol, TypeOK, ClientState
  <2>4. ASSUME NEW c \in Clients
        PROVE  /\ client'[c].at = client[c].at /\ client'[c].turn = client[c].turn
               /\ client'[c].command = client[c].command
               /\ client[c].woken => client'[c].woken
               /\ c = ch[1] => client'[c].woken
    BY <1>0, <2>1 DEF Protocol, TypeOK, ClientState
  <2> QED  BY <2>2, <2>3, <2>4 DEF Mine
<1>2. CASE ~(response[ch].waker /\ Awaited(ch))
  <2>1. client' = client
    BY <1>2 DEF Woken
  <2> QED  BY <2>1, <1>2 DEF Protocol, TypeOK, Mine
<1> QED  BY <1>1, <1>2

\* The owner gives up a sender or completes it: result is what is then there.
Deliver(ch, result, d2) ==
    /\ response' = [response EXCEPT ![ch] = [result |-> result, waker |-> FALSE]]
    /\ client' = Woken(ch)
    /\ driver' = d2
    /\ UNCHANGED <<commands, closed, owner_dropped, waker, shutdown_execution_events,
                   runtime, received>>

\* The client's side of a delivery: its response is there, it is awake, and
\* the answer is truthful.
LEMMA DeliverProtocol ==
    ASSUME Protocol, driver.command # None, NEW d2, NEW result \in Result \cup {None},
           Deliver(driver.command.reply, result, d2), TypeOK',
           driver.at # "parked", driver'.at # "parked",
           driver'.rest = driver.rest, Unanswered' = {}, Hand' \subseteq Hand,
           PhaseInv', TruthInv', driver'.at = "unwind" <=> driver.at = "unwind",
           Awaited(driver.command.reply) =>
               /\ result # None
               /\ result.tag = "OwnerDropped" => owner_dropped \/ driver.at = "unwind"
               /\ result.tag = "ShuttingDown" => closed /\ ~owner_dropped
    PROVE  Protocol'
<1> DEFINE ch == driver.command.reply
<1>1. /\ ch \in Channel /\ Hand = {ch} /\ ch \notin Senders(commands) \cup Senders(driver.rest)
      /\ \A c \in Clients : Mine(c) = ch => /\ client[c].at # "rejected"
                                            /\ client[c].at # "idle" <=> Awaited(ch)
  BY HandFacts
<1>2. Deliver(ch, result, d2)
  OBVIOUS
<1>2a. Awaited(ch) =>
               /\ result # None
               /\ result.tag = "OwnerDropped" => owner_dropped \/ driver.at = "unwind"
               /\ result.tag = "ShuttingDown" => closed /\ ~owner_dropped
  OBVIOUS
<1> HIDE DEF ch
<1>3. \A c \in Clients :
         /\ client'[c].at = client[c].at /\ client'[c].turn = client[c].turn
         /\ client'[c].command = client[c].command /\ Mine(c)' = Mine(c)
         /\ client[c].woken => client'[c].woken
         /\ Mine(c) = ch /\ Awaited(ch) /\ response[ch].waker => client'[c].woken
  BY <1>1, <1>2, WokenFacts DEF Deliver
<1>4. \A c \in Clients : /\ Mine(c) = ch => response'[Mine(c)].result = result
                         /\ Mine(c) # ch => response'[Mine(c)] = response[Mine(c)]
  BY <1>1, <1>2, Fields DEF Deliver, Protocol, TypeOK
<1>5. ClientInv'
  BY <1>2, <1>3 DEF Protocol, ClientInv, Deliver
<1>6. SenderInv'
  BY <1>2 DEF Protocol, SenderInv, Deliver
<1>7. AnswerInv'
  <2> SUFFICES ASSUME NEW c \in Clients PROVE AnswerInv!(c)'
    BY DEF AnswerInv
  <2>1. CASE Mine(c) = ch
    BY <2>1, <1>1, <1>2, <1>2a, <1>3, <1>4 DEF Protocol, AnswerInv, Deliver
  <2>2. CASE Mine(c) # ch
    BY <2>2, <1>1, <1>2, <1>3, <1>4 DEF Protocol, AnswerInv, Deliver, Unanswered
  <2> QED  BY <2>1, <2>2
<1>8. OwnerInv'
  BY DEF OwnerInv
<1>9. SleepInv'
  BY <1>1, <1>3, <1>4 DEF Protocol, SleepInv
<1>10. TruthfulAnswers'
  <2> SUFFICES ASSUME NEW c \in Clients PROVE TruthfulAnswers!(c)'
    BY DEF TruthfulAnswers
  <2>1. CASE Mine(c) = ch
    BY <2>1, <1>1, <1>2, <1>2a, <1>3, <1>4 DEF Deliver, Mine
  <2>2. CASE Mine(c) # ch
    BY <2>2, <1>2, <1>3, <1>4 DEF Protocol, TruthfulAnswers, Deliver, Mine
  <2> QED  BY <2>1, <2>2
<1> QED  BY <1>5, <1>6, <1>7, <1>8, <1>9, <1>10 DEF Protocol

\* The types after a delivery.
LEMMA DeliverType ==
    ASSUME Protocol, driver.command # None, NEW d2 \in DriverState,
           NEW result \in Result \cup {None}, Deliver(driver.command.reply, result, d2),
           forgotten' \subseteq 1..MaxItems
    PROVE  TypeOK'
<1>1. driver.command.reply \in Channel
  BY HandFacts
<1>2. client' \in [Clients -> ClientState]
  BY <1>1, WokenFacts DEF Deliver
<1>3. response' \in [Channel -> [result : Result \cup {None}, waker : BOOLEAN]]
  BY <1>1 DEF Deliver, Protocol, TypeOK
<1> QED  BY <1>2, <1>3 DEF Protocol, TypeOK, Deliver

\* The owner completes a reply.
LEMMA ReplyProtocol == ASSUME Protocol, reply(driver) PROVE Protocol'
<1> DEFINE ch == driver.command.reply
           result == IF response[ch].result = None /\ Awaited(ch) THEN driver.result
                     ELSE response[ch].result
           d2 == [driver EXCEPT !.at = "sent", !.result = None]
<1>1. /\ driver.at = "reply" /\ driver.command # None /\ driver.result # None
      /\ driver.result \in Result
  BY DEF Protocol, PhaseInv, reply, TypeOK, DriverState
<1>2. Deliver(ch, result, d2)
  BY DEF reply, complete, Deliver, mailbox
<1>3. ch \in Channel
  BY <1>1, HandFacts
<1>4. result \in Result \cup {None}
  BY <1>1, <1>3, Fields DEF Protocol
<1>5. d2 \in DriverState
  BY DEF Protocol, TypeOK, DriverState
<1>6. forgotten' \subseteq 1..MaxItems
  <2>1. driver.result.items \in Seq(1..MaxItems)
    BY <1>1 DEF Result
  <2>2. ItemsIn(driver.result.items) \subseteq 1..MaxItems
    BY <2>1, ItemsType
  <2> QED  BY <2>2 DEF reply, complete, Protocol, TypeOK
<1>7. TypeOK'
  BY <1>1, <1>2, <1>4, <1>5, <1>6, DeliverType
<1>8. /\ d2.at = "sent" /\ d2.command = driver.command /\ d2.rest = driver.rest
      /\ d2.result = None /\ d2.then = driver.then /\ d2.final = driver.final
  BY DEF Protocol, TypeOK, DriverState
<1>9. Awaited(ch) => response[ch].result = None
  <2> SUFFICES ASSUME Awaited(ch) PROVE response[ch].result = None
    OBVIOUS
  <2>1. PICK c \in Clients : Mine(c) = ch /\ client[c].at \in {"wake", "poll", "parked"}
    BY <1>1, HandFacts, Fields DEF Protocol
  <2> QED  BY <1>1, <2>1, HandFacts DEF Protocol, AnswerInv, Unanswered
<1>10. Awaited(ch) => result = driver.result
  BY <1>9
<1>11. driver' = d2 /\ UNCHANGED <<commands, closed, owner_dropped, shutdown_execution_events, runtime>>
  BY <1>2 DEF Deliver
<1> HIDE DEF result, d2
<1>12. Stage' = Stage
  BY <1>1, <1>8, <1>11 DEF Stage
<1>13. PhaseInv'
  BY <1>1, <1>8, <1>11, <1>12 DEF Protocol, PhaseInv
<1>14. TruthInv' /\ Unanswered' = {} /\ Hand' = Hand
  BY <1>8, <1>11 DEF TruthInv, Unanswered, Hand
<1> QED
  BY <1>1, <1>2, <1>4, <1>7, <1>8, <1>10, <1>11, <1>13, <1>14, DeliverProtocol
  DEF Protocol, TruthInv

\* The sender goes after the reply; the result it finds missing was taken.
LEMMA RepliedProtocol == ASSUME Protocol, replied(driver) PROVE Protocol'
<1> DEFINE ch == driver.command.reply
           result == IF response[ch].result = None THEN Answer("OwnerDropped")
                     ELSE response[ch].result
           d2 == [driver EXCEPT !.at = driver.then, !.command = None]
<1>1. driver.at = "sent" /\ driver.command # None /\ driver.result = None
  BY DEF Protocol, PhaseInv, replied
<1>2. Deliver(ch, result, d2) /\ forgotten' = forgotten
  BY DEF replied, drop_sender, Deliver, mailbox
<1>3. ch \in Channel
  BY <1>1, HandFacts
<1>4. result \in Result \cup {None}
  BY <1>3, Fields, AnswerType DEF Protocol
<1>5. d2 \in DriverState
  BY DEF Protocol, TypeOK, DriverState
<1>7. TypeOK'
  BY <1>1, <1>2, <1>4, <1>5, DeliverType DEF Protocol, TypeOK
<1>8. /\ d2.at = driver.then /\ d2.command = None /\ d2.rest = driver.rest
      /\ d2.result = None /\ d2.then = driver.then /\ d2.final = driver.final
      /\ driver.then \in {"next", "close", "closing", "lost"}
  BY <1>1 DEF Protocol, TypeOK, DriverState
<1>9. Awaited(ch) =>
         /\ response[ch].result # None
         /\ response[ch].result.tag = "OwnerDropped" => owner_dropped
         /\ response[ch].result.tag = "ShuttingDown" => closed /\ ~owner_dropped
  <2> SUFFICES ASSUME Awaited(ch) PROVE <1>9!2
    OBVIOUS
  <2>1. PICK c \in Clients : Mine(c) = ch /\ client[c].at \in {"wake", "poll", "parked"}
    BY <1>1, HandFacts, Fields DEF Protocol
  <2>2. response[ch].result # None
    BY <1>1, <2>1, HandFacts DEF Protocol, AnswerInv, Unanswered
  <2> QED  BY <1>1, <2>1, <2>2 DEF Protocol, TruthfulAnswers, Mine
<1>10. Awaited(ch) => result = response[ch].result
  BY <1>9
<1>11. driver' = d2 /\ UNCHANGED <<commands, closed, owner_dropped, shutdown_execution_events, runtime>>
  BY <1>2 DEF Deliver
<1> HIDE DEF result, d2
<1>12. Stage' = Stage
  BY <1>1, <1>8, <1>11 DEF Stage
<1>13. PhaseInv'
  BY <1>1, <1>8, <1>11, <1>12 DEF Protocol, PhaseInv
<1>14. TruthInv' /\ Unanswered' = {} /\ Hand' = {}
  BY <1>8, <1>11 DEF TruthInv, Unanswered, Hand
<1> QED
  BY <1>1, <1>2, <1>4, <1>7, <1>8, <1>9, <1>10, <1>11, <1>13, <1>14, DeliverProtocol

\* A reply held by an owner that unwinds.
LEMMA UnwindProtocol == ASSUME Protocol, unwind_reply(driver) PROVE Protocol'
<1> DEFINE ch == driver.command.reply
           result == IF response[ch].result = None THEN Answer("OwnerDropped")
                     ELSE response[ch].result
           d2 == [driver EXCEPT !.command = None]
<1>1. driver.at = "unwind" /\ driver.command # None /\ driver.result = None
  BY DEF Protocol, PhaseInv, unwind_reply
<1>2. Deliver(ch, result, d2) /\ forgotten' = forgotten
  BY DEF unwind_reply, drop_sender, Deliver, mailbox
<1>3. ch \in Channel
  BY <1>1, HandFacts
<1>4. result \in Result \cup {None}
  BY <1>3, Fields, AnswerType DEF Protocol
<1>5. d2 \in DriverState
  BY DEF Protocol, TypeOK, DriverState
<1>7. TypeOK'
  BY <1>1, <1>2, <1>4, <1>5, DeliverType DEF Protocol, TypeOK
<1>8. /\ d2.at = "unwind" /\ d2.command = None /\ d2.rest = driver.rest
      /\ d2.result = None /\ d2.then = driver.then /\ d2.final = driver.final
  BY <1>1 DEF Protocol, TypeOK, DriverState
<1>9. Awaited(ch) => response[ch].result = None
  <2> SUFFICES ASSUME Awaited(ch) PROVE response[ch].result = None
    OBVIOUS
  <2>1. PICK c \in Clients : Mine(c) = ch /\ client[c].at \in {"wake", "poll", "parked"}
    BY <1>1, HandFacts, Fields DEF Protocol
  <2> QED  BY <1>1, <2>1, HandFacts DEF Protocol, AnswerInv, Unanswered
<1>10. Awaited(ch) => result # None /\ result.tag = "OwnerDropped"
  BY <1>9, AnswerType
<1>11. driver' = d2 /\ UNCHANGED <<commands, closed, owner_dropped, shutdown_execution_events, runtime>>
  BY <1>2 DEF Deliver
<1> HIDE DEF result, d2
<1>12. Stage' = Stage
  BY <1>1, <1>8, <1>11 DEF Stage
<1>13. PhaseInv'
  BY <1>1, <1>8, <1>11, <1>12 DEF Protocol, PhaseInv
<1>14. TruthInv' /\ Unanswered' = {} /\ Hand' = {}
  BY <1>8, <1>11 DEF TruthInv, Unanswered, Hand
<1> QED
  BY <1>1, <1>2, <1>4, <1>7, <1>8, <1>10, <1>11, <1>13, <1>14, DeliverProtocol
----------------------------------------------------------------------------
(* The runtime: items are appended in the order of their emission *)

Increasing(s) == \A i, j \in 1..Len(s) : j < i => s[j] < s[i]

Pending(m) == IF m.pending_lifecycle = None THEN {} ELSE {m.pending_lifecycle}

\* The items the runtime still holds.
Holds(m) == ItemsIn(m.execution_events) \cup Pending(m)

\* Buffer and pending item are in the order of emission.
RuntimeOK(m) ==
    /\ m \in RuntimeState
    /\ Len(m.execution_events) <= Capacity
    /\ Increasing(m.execution_events)
    /\ \A x \in Holds(m) : x <= m.emitted
    /\ \A x \in ItemsIn(m.execution_events), y \in Pending(m) : x < y

\* e holds what m holds and what was emitted since.
Grown(m, e) ==
    /\ RuntimeOK(e)
    /\ m.emitted <= e.emitted
    /\ Holds(e) = Holds(m) \cup (m.emitted + 1)..e.emitted

\* Growing is reflexive and transitive.
LEMMA GrownSelf == ASSUME NEW m, RuntimeOK(m) PROVE Grown(m, m)
<1>1. m.emitted \in Nat
  BY DriverAssumption DEF RuntimeOK, RuntimeState
<1>2. (m.emitted + 1)..m.emitted = {} /\ m.emitted <= m.emitted
  BY <1>1
<1> QED  BY <1>2 DEF Grown

\* A runtime that grew twice has grown.
LEMMA GrownOn ==
    ASSUME NEW m, NEW e, NEW f, RuntimeOK(m), Grown(m, e), Grown(e, f)
    PROVE  Grown(m, f)
<1>1. m.emitted \in Nat /\ e.emitted \in Nat /\ f.emitted \in Nat
  BY DriverAssumption DEF RuntimeOK, RuntimeState, Grown
<1>2. m.emitted <= e.emitted /\ e.emitted <= f.emitted
  BY DEF Grown
<1>3. (m.emitted + 1)..f.emitted = (m.emitted + 1)..e.emitted \cup (e.emitted + 1)..f.emitted
  BY <1>1, <1>2
<1>4. m.emitted <= f.emitted
  BY <1>1, <1>2
<1> QED  BY <1>3, <1>4 DEF Grown

CountedOn(s, top, n) == s \o [i \in 1..n |-> top + i]

\* Items counted on from one that is the last so far.
LEMMA CountOn ==
    ASSUME NEW s \in Seq(1..MaxItems), NEW top \in Nat, NEW n \in Nat, top + n <= MaxItems,
           Increasing(s), \A x \in ItemsIn(s) : x <= top
    PROVE  /\ CountedOn(s, top, n) \in Seq(1..MaxItems)
           /\ Len(CountedOn(s, top, n)) = Len(s) + n
           /\ Increasing(CountedOn(s, top, n))
           /\ ItemsIn(CountedOn(s, top, n)) = ItemsIn(s) \cup (top + 1)..(top + n)
<1> DEFINE f == [i \in 1..n |-> top + i]
           t == CountedOn(s, top, n)
<1>0. t = s \o f
  BY DEF CountedOn
<1> HIDE DEF t
<1>1. f \in Seq(1..MaxItems) /\ Len(f) = n
  <2>1. \A i \in 1..n : top + i \in 1..MaxItems
    BY DriverAssumption
  <2>2. f \in [1..n -> 1..MaxItems]
    BY <2>1
  <2> QED  BY <2>2, LenProperties, SeqDef
<1>2. \A i \in 1..n : f[i] = top + i
  OBVIOUS
<1> HIDE DEF f
<1>3. /\ t \in Seq(1..MaxItems) /\ Len(t) = Len(s) + n
      /\ \A i \in 1..Len(t) : t[i] = IF i <= Len(s) THEN s[i] ELSE f[i - Len(s)]
  BY <1>0, <1>1, ConcatProperties
<1>4. Len(s) \in Nat /\ \A i \in 1..Len(s) : s[i] \in 1..MaxItems /\ s[i] <= top
  BY LenProperties, ElementOfSeq DEF ItemsIn
<1>5. /\ \A i \in 1..Len(s) : i \in 1..Len(t) /\ t[i] = s[i]
      /\ \A i \in 1..Len(t) : i > Len(s) => i - Len(s) \in 1..n /\ t[i] = top + (i - Len(s))
  <2>1. ASSUME NEW i \in 1..Len(s) PROVE i \in 1..Len(t) /\ t[i] = s[i]
    BY <1>3, <1>4
  <2>2. ASSUME NEW i \in 1..Len(t), i > Len(s)
        PROVE  i - Len(s) \in 1..n /\ t[i] = top + (i - Len(s))
    <3>1. i - Len(s) \in 1..n /\ ~(i <= Len(s))  BY <1>3, <1>4, <2>2
    <3>2. t[i] = f[i - Len(s)]  BY <1>3, <3>1
    <3> QED  BY <1>2, <3>1, <3>2
  <2> QED  BY <2>1, <2>2
<1>6. Increasing(t)
  <2> SUFFICES ASSUME NEW i \in 1..Len(t), NEW j \in 1..Len(t), j < i PROVE t[j] < t[i]
    BY DEF Increasing
  <2>1. CASE i <= Len(s)
    BY <2>1, <1>3, <1>4, <1>5 DEF Increasing
  <2>2. CASE i > Len(s)
    BY <2>2, <1>3, <1>4, <1>5
  <2> QED  BY <2>1, <2>2, <1>3, <1>4
<1>7. ItemsIn(t) = ItemsIn(s) \cup (top + 1)..(top + n)
  <2>1. ASSUME NEW i \in 1..Len(t) PROVE t[i] \in ItemsIn(s) \cup (top + 1)..(top + n)
    BY <1>3, <1>4, <1>5 DEF ItemsIn
  <2>2. ASSUME NEW i \in 1..Len(s) PROVE s[i] \in ItemsIn(t)
    BY <1>5 DEF ItemsIn
  <2>3. ASSUME NEW x \in (top + 1)..(top + n) PROVE x \in ItemsIn(t)
    <3>1. /\ Len(s) + (x - top) \in 1..Len(t) /\ Len(s) + (x - top) > Len(s)
          /\ top + ((Len(s) + (x - top)) - Len(s)) = x
      BY <1>3, <1>4
    <3> QED  BY <3>1, <1>5 DEF ItemsIn
  <2>4. ItemsIn(t) \subseteq ItemsIn(s) \cup (top + 1)..(top + n)
    BY <2>1 DEF ItemsIn
  <2>5. ItemsIn(s) \subseteq ItemsIn(t)
    BY <2>2 DEF ItemsIn
  <2> QED  BY <2>3, <2>4, <2>5
<1> QED  BY <1>3, <1>6, <1>7 DEF t

\* A call that emits n items, backpressure included.
LEMMA EmitGrown ==
    ASSUME NEW m, RuntimeOK(m), ~Blocked(m), NEW n \in Nat, m.emitted + n <= MaxItems
    PROVE  /\ Grown(m, Emit(m, n))
           /\ Emit(m, n).succeeded = m.succeeded
           /\ Emit(m, n).emitted <= m.emitted + n
           /\ ~Blocked(Emit(m, n)) => Emit(m, n).emitted = m.emitted + n
<1> DEFINE free == Capacity - Len(m.execution_events)
           fits == IF n <= free THEN n ELSE free
           t == m.execution_events \o [i \in 1..fits |-> m.emitted + i]
           e == Emit(m, n)
<1>1. /\ m.execution_events \in Seq(1..MaxItems) /\ m.emitted \in Nat /\ m.succeeded \in 0..MaxItems
      /\ Len(m.execution_events) \in Nat /\ Len(m.execution_events) <= Capacity
      /\ Capacity \in Nat /\ MaxItems \in Nat /\ m.pending_lifecycle = None
  BY DriverAssumption, LenProperties DEF RuntimeOK, RuntimeState, Blocked
<1>a. free \in Nat /\ Len(m.execution_events) + free = Capacity
  BY <1>1
<1> DEFINE em == IF n <= free THEN m.emitted + n ELSE m.emitted + free + 1
           pe == IF n <= free THEN m.pending_lifecycle ELSE m.emitted + free + 1
<1>e. e = [m EXCEPT !.execution_events = t, !.emitted = em, !.pending_lifecycle = pe]
  BY DEF Emit
<1> HIDE DEF free
<1>f. /\ n <= free => fits = n /\ em = m.emitted + n /\ pe = None
      /\ ~(n <= free) => fits = free /\ em = m.emitted + free + 1 /\ pe = em
  BY <1>1
<1> HIDE DEF fits, em, pe
<1>2. /\ fits \in Nat /\ fits <= n /\ m.emitted + fits <= MaxItems
      /\ Len(m.execution_events) + fits <= Capacity
  <2>1. CASE n <= free  BY <2>1, <1>1, <1>a, <1>f
  <2>2. CASE ~(n <= free)  BY <2>2, <1>1, <1>a, <1>f
  <2> QED  BY <2>1, <2>2
<1>3. Increasing(m.execution_events) /\ \A x \in ItemsIn(m.execution_events) : x <= m.emitted
  BY DEF RuntimeOK, Holds
<1>4. /\ t \in Seq(1..MaxItems) /\ Len(t) = Len(m.execution_events) + fits
      /\ Increasing(t)
      /\ ItemsIn(t) = ItemsIn(m.execution_events) \cup (m.emitted + 1)..(m.emitted + fits)
  <2> DEFINE s == m.execution_events  top == m.emitted
  <2>1. s \in Seq(1..MaxItems) /\ top \in Nat /\ top + fits <= MaxItems /\ fits \in Nat
        /\ Increasing(s) /\ \A x \in ItemsIn(s) : x <= top
    BY <1>1, <1>2, <1>3
  <2>2. t = CountedOn(s, top, fits)
    BY DEF CountedOn
  <2> HIDE DEF s, top, t
  <2>3. /\ t \in Seq(1..MaxItems) /\ Len(t) = Len(s) + fits
        /\ Increasing(t) /\ ItemsIn(t) = ItemsIn(s) \cup (top + 1)..(top + fits)
    BY <2>1, <2>2, CountOn
  <2> QED  BY <2>3 DEF s, top
<1> HIDE DEF t, e
<1>5. em \in 0..MaxItems /\ pe \in 1..MaxItems \cup {None}
  <2>1. CASE n <= free  BY <2>1, <1>1, <1>a, <1>f
  <2>2. CASE ~(n <= free)  BY <2>2, <1>1, <1>a, <1>f
  <2> QED  BY <2>1, <2>2
<1>t. e \in RuntimeState
  BY <1>e, <1>4, <1>5 DEF RuntimeOK, RuntimeState
<1>6. /\ e.execution_events = t /\ e.succeeded = m.succeeded
      /\ e.emitted = em /\ e.pending_lifecycle = pe
  BY <1>e DEF RuntimeOK, RuntimeState
<1>7. Holds(m) = ItemsIn(m.execution_events)
  BY <1>1 DEF Holds, Pending
<1>8. CASE n <= free
  <2>1. /\ e.emitted = m.emitted + n /\ fits = n /\ e.pending_lifecycle = None
        /\ e.emitted \in 0..MaxItems
    BY <1>1, <1>5, <1>6, <1>8, <1>f
  <2>3. Holds(e) = Holds(m) \cup (m.emitted + 1)..e.emitted
    BY <1>4, <1>6, <1>7, <2>1 DEF Holds, Pending
  <2>4. \A x \in Holds(e) : x <= e.emitted
    BY <1>1, <1>3, <1>7, <2>1, <2>3, <1>4, ItemsType
  <2>5. RuntimeOK(e)
    BY <1>2, <1>4, <1>6, <1>t, <2>1, <2>4 DEF RuntimeOK, Pending
  <2> QED  BY <1>1, <1>6, <2>1, <2>3, <2>5 DEF Grown, e
<1>9. CASE ~(n <= free)
  <2>1. /\ e.emitted = m.emitted + free + 1 /\ fits = free
        /\ e.pending_lifecycle = m.emitted + free + 1
        /\ e.emitted \in 1..MaxItems /\ e.emitted <= m.emitted + n
        /\ e.pending_lifecycle # None
    BY <1>1, <1>a, <1>f, <1>6, <1>9, NoneAssumption
  <2>3. Holds(e) = Holds(m) \cup (m.emitted + 1)..e.emitted
    <3>1. (m.emitted + 1)..e.emitted = (m.emitted + 1)..(m.emitted + fits) \cup {e.emitted}
      BY <1>1, <1>2, <2>1
    <3> QED  BY <1>4, <1>6, <1>7, <2>1, <3>1 DEF Holds, Pending
  <2>4. \A x \in ItemsIn(m.execution_events) : x \in 1..MaxItems
    BY <1>1, ItemsType
  <2>5. \A x \in Holds(e) : x <= e.emitted
    BY <1>1, <1>2, <1>3, <1>7, <2>1, <2>3, <2>4
  <2>6. \A x \in ItemsIn(t) : x < e.emitted
    BY <1>1, <1>2, <1>3, <1>4, <2>1, <2>4
  <2>7. RuntimeOK(e)
    BY <1>2, <1>4, <1>6, <1>t, <2>1, <2>5, <2>6 DEF RuntimeOK, Pending
  <2> QED  BY <1>1, <1>a, <1>6, <2>1, <2>3, <2>7 DEF Grown, e, Blocked
<1> QED  BY <1>8, <1>9

\* The counters of a runtime are numbers.
LEMMA Counters ==
    ASSUME NEW m, RuntimeOK(m)
    PROVE  /\ m.emitted \in 0..MaxItems /\ m.succeeded \in 0..MaxItems /\ MaxItems \in Nat
           /\ m.execution_events \in Seq(1..MaxItems)
           /\ m.pending_lifecycle \in 1..MaxItems \cup {None}
BY DriverAssumption DEF RuntimeOK, RuntimeState

\* Another count of successes changes nothing of the items.
LEMMA SucceededGrown ==
    ASSUME NEW m, RuntimeOK(m), NEW k \in 0..MaxItems, NEW e, e = [m EXCEPT !.succeeded = k]
    PROVE  RuntimeOK(e) /\ Holds(e) = Holds(m) /\ e.emitted = m.emitted /\ e.succeeded = k
           /\ e.execution_events = m.execution_events
           /\ e.pending_lifecycle = m.pending_lifecycle
<1>1. /\ e \in RuntimeState /\ e.emitted = m.emitted /\ e.succeeded = k
      /\ e.execution_events = m.execution_events
      /\ e.pending_lifecycle = m.pending_lifecycle
  BY DEF RuntimeOK, RuntimeState
<1>2. Holds(e) = Holds(m) /\ Pending(e) = Pending(m)
  BY <1>1 DEF Holds, Pending
<1> QED  BY <1>1, <1>2 DEF RuntimeOK

\* An item after all others.
LEMMA AppendItem ==
    ASSUME NEW s \in Seq(1..MaxItems), NEW p \in 1..MaxItems, Increasing(s),
           \A x \in ItemsIn(s) : x < p
    PROVE  /\ Append(s, p) \in Seq(1..MaxItems) /\ Len(Append(s, p)) = Len(s) + 1
           /\ Increasing(Append(s, p)) /\ ItemsIn(Append(s, p)) = ItemsIn(s) \cup {p}
<1> DEFINE t == Append(s, p)
<1>1. /\ t \in Seq(1..MaxItems) /\ Len(t) = Len(s) + 1 /\ t[Len(s) + 1] = p
      /\ \A i \in 1..Len(s) : t[i] = s[i]
  BY AppendProperties
<1>2. Len(s) \in Nat
  BY LenProperties
<1> HIDE DEF t
<1>n. Len(t) = Len(s) + 1
  BY <1>1
<1>3. \A i \in 1..Len(t) : i \in 1..Len(s) \/ i = Len(s) + 1
  BY <1>n, <1>2
<1>4. (\A i \in 1..Len(s) : i \in 1..Len(t)) /\ Len(s) + 1 \in 1..Len(t)
  BY <1>n, <1>2
<1>5. \A i \in 1..Len(s) : s[i] < p
  BY DEF ItemsIn
<1>6. Increasing(t)
  <2> SUFFICES ASSUME NEW i \in 1..Len(t), NEW j \in 1..Len(t), j < i PROVE t[j] < t[i]
    BY DEF Increasing
  <2>1. j \in 1..Len(s)
    BY <1>n, <1>2
  <2>2. CASE i \in 1..Len(s)
    BY <2>1, <2>2, <1>1 DEF Increasing
  <2>3. CASE i = Len(s) + 1
    BY <2>1, <2>3, <1>1, <1>5
  <2> QED  BY <1>3, <2>2, <2>3
<1>7. ItemsIn(t) = ItemsIn(s) \cup {p}
  BY <1>1, <1>3, <1>4 DEF ItemsIn
<1> QED  BY <1>1, <1>6, <1>7 DEF t

\* The pending item takes its place in the buffer.
LEMMA RetryGrown ==
    ASSUME NEW m, RuntimeOK(m), NEW r, r = retry_pending_lifecycle(m)
    PROVE  Grown(m, r) /\ r.emitted = m.emitted /\ r.succeeded = m.succeeded
<1>1. CASE ~(Blocked(m) /\ Room(m))
  BY <1>1, GrownSelf DEF retry_pending_lifecycle
<1>2. CASE Blocked(m) /\ Room(m)
  <2> DEFINE p == m.pending_lifecycle  s == m.execution_events  t == Append(s, p)
  <2>1. r = [m EXCEPT !.execution_events = t, !.pending_lifecycle = None]
    BY <1>2 DEF retry_pending_lifecycle
  <2>2. /\ p \in 1..MaxItems /\ s \in Seq(1..MaxItems) /\ p # None /\ Len(s) \in Nat
        /\ m.emitted \in 0..MaxItems /\ MaxItems \in Nat /\ Capacity \in Nat /\ Len(s) < Capacity
    BY <1>2, Counters, DriverAssumption, LenProperties DEF Blocked, Room
  <2>5. Increasing(s) /\ \A x \in ItemsIn(s) : x < p
    BY <2>2 DEF RuntimeOK, Pending
  <2>3. /\ t \in Seq(1..MaxItems) /\ Len(t) = Len(s) + 1
        /\ Increasing(t) /\ ItemsIn(t) = ItemsIn(s) \cup {p}
    BY <2>2, <2>5, AppendItem
  <2> HIDE DEF t
  <2>4. r \in RuntimeState /\ r.execution_events = t /\ r.pending_lifecycle = None
        /\ r.emitted = m.emitted /\ r.succeeded = m.succeeded
    BY <2>1, <2>3 DEF RuntimeOK, RuntimeState
  <2> HIDE DEF p, s
  <2>8. Holds(r) = Holds(m) /\ Pending(r) = {}
    BY <2>2, <2>3, <2>4 DEF Holds, Pending, s, p
  <2>9. RuntimeOK(r)
    BY <2>2, <2>3, <2>4, <2>8 DEF RuntimeOK
  <2>10. (m.emitted + 1)..r.emitted = {} /\ m.emitted <= r.emitted
    BY <2>2, <2>4
  <2> QED  BY <2>4, <2>8, <2>9, <2>10 DEF Grown
<1> QED  BY <1>1, <1>2

\* The completion of known successes.
LEMMA SettleGrown ==
    ASSUME NEW m, RuntimeOK(m), ~Blocked(m), Within(m, 0), NEW n \in 0..m.succeeded,
           NEW e, e = Settle(m, n)
    PROVE  Grown(m, e) /\ Within(e, 0)
           /\ (n = m.succeeded /\ ~Blocked(e) => e.succeeded = 0)
<1> DEFINE g == Emit(m, n)  k == g.succeeded - (g.emitted - m.emitted)
<1>1. /\ m.emitted \in 0..MaxItems /\ m.succeeded \in 0..MaxItems /\ MaxItems \in Nat
      /\ n \in Nat /\ m.emitted + n <= MaxItems /\ n <= m.succeeded
  BY Counters DEF Within
<1>2. /\ Grown(m, g) /\ g.succeeded = m.succeeded /\ g.emitted <= m.emitted + n
      /\ ~Blocked(g) => g.emitted = m.emitted + n
  BY <1>1, EmitGrown
<1>3. e = [g EXCEPT !.succeeded = k]
  BY DEF Settle
<1> HIDE DEF g
<1>4. RuntimeOK(g) /\ m.emitted <= g.emitted /\ g.emitted \in 0..MaxItems
  BY <1>2, Counters DEF Grown
<1>5. k \in 0..MaxItems /\ g.emitted + k = m.emitted + m.succeeded
  BY <1>1, <1>2, <1>4
<1> HIDE DEF k
<1>6. /\ RuntimeOK(e) /\ Holds(e) = Holds(g) /\ e.emitted = g.emitted /\ e.succeeded = k
      /\ e.pending_lifecycle = g.pending_lifecycle
  BY <1>3, <1>4, <1>5, SucceededGrown
<1>7. Grown(m, e)
  BY <1>2, <1>4, <1>6 DEF Grown
<1>8. Within(e, 0)
  BY <1>1, <1>4, <1>5, <1>6 DEF Within
<1>9. n = m.succeeded /\ ~Blocked(e) => e.succeeded = 0
  BY <1>1, <1>2, <1>4, <1>5, <1>6 DEF Blocked
<1> QED  BY <1>7, <1>8, <1>9
----------------------------------------------------------------------------
(* Handling a command: the runtime grows, then it is kept or drained *)

Drained(d, m) ==
    /\ driver' = [d EXCEPT !.at = "reply", !.then = "next",
                           !.result = [tag |-> "Ok", items |-> m.execution_events]]
    /\ runtime' = [m EXCEPT !.execution_events = <<>>]

ShutDown(d, m) ==
    /\ ~Blocked(m) /\ m.succeeded = 0
    /\ driver' = [d EXCEPT !.at = "reply", !.result = Answer("Ok"),
                           !.then = "close", !.final = m.execution_events]
    /\ runtime' = [m EXCEPT !.execution_events = <<>>]

Handled(m) ==
    /\ driver.at \in {"handle", "effect"} /\ Unmoved
    /\ Grown(runtime, m) /\ Within(m, 0)
    /\ \/ \E tag \in {"Ok", "Error", "Backpressured"} : Finish(driver, tag, m)
       \/ Within(m, 1) /\ AwaitEffect(driver, m)
       \/ m = runtime /\ Drained(driver, m)
       \/ ShutDown(driver, m)

HandlerStep ==
    \/ drive_once(driver) \/ dispatch_effect_now(driver) \/ effect_resolves(driver)
    \/ recover_now(driver) \/ cancel_now(driver) \/ drain_execution_events(driver)
    \/ shutdown_now(driver)

\* The bound on items holds, an effect in flight counted.
BoundInv == Within(runtime, 0) /\ (driver.at = "effect" => Within(runtime, 1))

\* Whatever the command, its handler is of that form.
LEMMA HandlerShape ==
    ASSUME RuntimeOK(runtime), BoundInv, HandlerStep
    PROVE  \E m : Handled(m)
<1> DEFINE r == retry_pending_lifecycle(runtime)
<1>0. /\ runtime.emitted \in 0..MaxItems /\ runtime.succeeded \in 0..MaxItems /\ MaxItems \in Nat
      /\ runtime.emitted + runtime.succeeded + 0 <= MaxItems
  BY Counters DEF BoundInv, Within
<1>1. Grown(runtime, r) /\ r.emitted = runtime.emitted /\ r.succeeded = runtime.succeeded
  BY RetryGrown
<1>2. RuntimeOK(r) /\ Within(r, 0)
  BY <1>0, <1>1 DEF Grown, Within
<1>3. Grown(runtime, runtime) /\ Within(runtime, 0)
  BY GrownSelf DEF BoundInv
<1>4. ASSUME NEW n \in Nat, ~Blocked(r), Within(r, n)
      PROVE  /\ Grown(runtime, Emit(r, n)) /\ Within(Emit(r, n), 0)
             /\ ~Blocked(Emit(r, n)) /\ Within(r, n + 1) => Within(Emit(r, n), 1)
  <2> DEFINE g == Emit(r, n)
  <2> HIDE DEF r
  <2>1. r.emitted + n <= MaxItems
    BY <1>0, <1>1, <1>4 DEF Within
  <2>2. /\ Grown(r, g) /\ g.succeeded = r.succeeded /\ g.emitted <= r.emitted + n
        /\ ~Blocked(g) => g.emitted = r.emitted + n
    BY <1>2, <1>4, <2>1, EmitGrown
  <2>3. g.emitted \in 0..MaxItems
    BY <2>2, Counters DEF Grown
  <2> HIDE DEF g
  <2>4. Grown(runtime, g)
    BY <1>1, <2>2, GrownOn
  <2>5. Within(g, 0) /\ (~Blocked(g) /\ Within(r, n + 1) => Within(g, 1))
    BY <1>0, <1>1, <1>4, <2>2, <2>3 DEF Within
  <2> QED  BY <2>4, <2>5 DEF g
<1>5. ASSUME NEW n \in 0..r.succeeded, ~Blocked(r)
      PROVE  /\ Grown(runtime, Settle(r, n)) /\ Within(Settle(r, n), 0)
             /\ n = r.succeeded /\ ~Blocked(Settle(r, n)) => Settle(r, n).succeeded = 0
  BY <1>1, <1>2, <1>5, SettleGrown, GrownOn
<1> HIDE DEF r
<1>6. CASE drive_once(driver)
  <2>1. driver.at = "handle" /\ Unmoved
    BY <1>6 DEF drive_once, Handles
  <2>2. CASE Blocked(r) /\ Finish(driver, "Backpressured", r)
    BY <1>1, <1>2, <2>1, <2>2 DEF Handled
  <2>3. ASSUME ~Blocked(r), NEW n \in 0..2, Within(r, n),
               \/ Blocked(Emit(r, n)) /\ Finish(driver, "Backpressured", Emit(r, n))
               \/ ~Blocked(Emit(r, n)) /\ Finish(driver, "Ok", Emit(r, n))
               \/ ~Blocked(Emit(r, n)) /\ n < 2 /\ Finish(driver, "Error", Emit(r, n))
               \/ ~Blocked(Emit(r, n)) /\ n < 2 /\ Within(Emit(r, n), 1)
                  /\ AwaitEffect(driver, Emit(r, n))
        PROVE  \E m : Handled(m)
    <3>1. n \in Nat  OBVIOUS
    <3>2. Handled(Emit(r, n))
      BY <1>4, <2>1, <2>3, <3>1 DEF Handled
    <3> QED  BY <3>2
  <2>4. ASSUME ~Blocked(r), r.succeeded > 0,
               Finish(driver, IF Blocked(Settle(r, 1)) THEN "Backpressured" ELSE "Ok", Settle(r, 1))
        PROVE  \E m : Handled(m)
    <3>1. 1 \in 0..r.succeeded  BY <1>0, <1>1, <2>4
    <3>2. Handled(Settle(r, 1))
      BY <1>5, <2>1, <2>4, <3>1 DEF Handled
    <3> QED  BY <3>2
  <2> QED  BY <1>6, <2>2, <2>3, <2>4 DEF drive_once, r
<1>7. CASE dispatch_effect_now(driver)
  <2>1. driver.at = "handle" /\ Unmoved
    BY <1>7 DEF dispatch_effect_now, Handles
  <2>2. CASE Blocked(r) /\ Finish(driver, "Error", r)
    BY <1>1, <1>2, <2>1, <2>2 DEF Handled
  <2>3. ASSUME ~Blocked(r), NEW n \in 0..1, Within(r, n),
               \/ Finish(driver, "Error", Emit(r, n))
               \/ ~Blocked(Emit(r, n)) /\ Within(r, n + 1) /\ AwaitEffect(driver, Emit(r, n))
        PROVE  \E m : Handled(m)
    <3>1. n \in Nat  OBVIOUS
    <3>2. Handled(Emit(r, n))
      BY <1>4, <2>1, <2>3, <3>1 DEF Handled
    <3> QED  BY <3>2
  <2> QED  BY <1>7, <2>2, <2>3 DEF dispatch_effect_now, r
<1>8. CASE effect_resolves(driver)
  <2>1. driver.at = "effect" /\ Unmoved /\ Within(runtime, 1)
    BY <1>8 DEF effect_resolves, BoundInv
  <2> DEFINE e == [runtime EXCEPT !.succeeded = @ + 1]
  <2>2. runtime.succeeded + 1 \in 0..MaxItems /\ runtime.emitted + (runtime.succeeded + 1) + 0 <= MaxItems
    BY <1>0, <2>1 DEF Within
  <2>3. /\ RuntimeOK(e) /\ Holds(e) = Holds(runtime) /\ e.emitted = runtime.emitted
        /\ e.succeeded = runtime.succeeded + 1
    BY <2>2, SucceededGrown
  <2> HIDE DEF e
  <2>4. Grown(runtime, e) /\ Within(e, 0)
    BY <1>3, <2>2, <2>3 DEF Grown, Within
  <2>5. Finish(driver, "Ok", e) \/ Finish(driver, "Ok", runtime) \/ Finish(driver, "Error", runtime)
    BY <1>8 DEF effect_resolves, e
  <2>6. Handled(e) \/ Handled(runtime)
    BY <1>3, <2>1, <2>4, <2>5 DEF Handled
  <2> QED  BY <2>6
<1>9. CASE recover_now(driver)
  <2>1. driver.at = "handle" /\ Unmoved
    BY <1>9 DEF recover_now, Handles
  <2>2. CASE Finish(driver, "Error", r) \/ Finish(driver, "Ok", r)
    BY <1>1, <1>2, <2>1, <2>2 DEF Handled
  <2>3. ASSUME ~Blocked(r), r.succeeded > 0,
               Finish(driver, IF Blocked(Settle(r, 1)) THEN "Error" ELSE "Ok", Settle(r, 1))
        PROVE  \E m : Handled(m)
    <3>1. 1 \in 0..r.succeeded  BY <1>0, <1>1, <2>3
    <3>2. Handled(Settle(r, 1))
      BY <1>5, <2>1, <2>3, <3>1 DEF Handled
    <3> QED  BY <3>2
  <2> QED  BY <1>9, <2>2, <2>3 DEF recover_now, r
<1>10. CASE cancel_now(driver)
  <2>1. Handled(runtime)
    BY <1>3, <1>10 DEF cancel_now, Handles, Handled
  <2> QED  BY <2>1
<1>11. CASE drain_execution_events(driver)
  <2>1. Handled(runtime)
    BY <1>3, <1>11 DEF drain_execution_events, Handles, Handled, Drained
  <2> QED  BY <2>1
<1>12. CASE shutdown_now(driver)
  <2>1. driver.at = "handle" /\ Unmoved
    BY <1>12 DEF shutdown_now, Handles
  <2>2. CASE Blocked(r) /\ Finish(driver, "Error", r)
    BY <1>1, <1>2, <2>1, <2>2 DEF Handled
  <2>3. ASSUME ~Blocked(r), NEW n \in 0..r.succeeded,
               \/ Finish(driver, "Error", Settle(r, n))
               \/ /\ n = r.succeeded /\ ~Blocked(Settle(r, n))
                  /\ driver' = [driver EXCEPT !.at = "reply", !.result = Answer("Ok"),
                                   !.then = "close", !.final = Settle(r, n).execution_events]
                  /\ runtime' = [Settle(r, n) EXCEPT !.execution_events = <<>>]
        PROVE  \E m : Handled(m)
    <3>1. Handled(Settle(r, n))
      BY <1>5, <2>1, <2>3 DEF Handled, ShutDown
    <3> QED  BY <3>1
  <2> QED  BY <1>12, <2>2, <2>3 DEF shutdown_now, r
<1> QED  BY <1>6, <1>7, <1>8, <1>9, <1>10, <1>11, <1>12 DEF HandlerStep

\* The runtime a handler leaves, and the buffer it may have emptied.
LEMMA HandledRuntime ==
    ASSUME NEW m, Handled(m)
    PROVE  /\ RuntimeOK(m) /\ m.execution_events \in Seq(1..MaxItems)
           /\ RuntimeOK(runtime') /\ runtime'.succeeded = m.succeeded
           /\ runtime'.emitted = m.emitted /\ runtime'.pending_lifecycle = m.pending_lifecycle
           /\ runtime'.execution_events \in {m.execution_events, <<>>}
           /\ Drained(driver, m) \/ ShutDown(driver, m) => runtime'.execution_events = <<>>
<1>1. RuntimeOK(m) /\ m.execution_events \in Seq(1..MaxItems)
  BY Counters DEF Handled, Grown
<1>2. CASE runtime' = m
  <2>1. m \in RuntimeState  BY <1>1 DEF RuntimeOK
  <2>2. ASSUME runtime' = [m EXCEPT !.execution_events = <<>>]
        PROVE  runtime'.execution_events = <<>>
    BY <2>1, <2>2 DEF RuntimeState
  <2> QED  BY <1>1, <1>2, <2>2 DEF Drained, ShutDown
<1>3. CASE runtime' = [m EXCEPT !.execution_events = <<>>]
  <2>1. <<>> \in Seq(1..MaxItems) /\ ItemsIn(<<>>) = {} /\ Increasing(<<>>) /\ Len(<<>>) = 0
    BY DEF ItemsIn, Increasing
  <2>2. /\ runtime' \in RuntimeState /\ runtime'.succeeded = m.succeeded
        /\ runtime'.emitted = m.emitted /\ runtime'.pending_lifecycle = m.pending_lifecycle
        /\ runtime'.execution_events = <<>>
    BY <1>1, <1>3, <2>1 DEF RuntimeOK, RuntimeState
  <2>3. Pending(runtime') = Pending(m) /\ Holds(runtime') \subseteq Holds(m)
    BY <2>1, <2>2 DEF Pending, Holds
  <2>4. 0 <= Capacity
    BY DriverAssumption
  <2>5. RuntimeOK(runtime')
    BY <1>1, <2>1, <2>2, <2>3, <2>4 DEF RuntimeOK
  <2> QED  BY <1>1, <2>2, <2>5
<1> QED  BY <1>2, <1>3 DEF Handled, Finish, AwaitEffect, Drained, ShutDown

\* A handler answers the command it has, or waits for its effect.
LEMMA HandledProtocol ==
    ASSUME Protocol, NEW m, Handled(m)
    PROVE  Protocol'
<1>1. /\ UNCHANGED <<commands, closed, owner_dropped, waker, shutdown_execution_events,
                     response, client, received, forgotten>>
      /\ driver.at \in {"handle", "effect"}
  BY DEF Handled, Unmoved, mailbox
<1>2. /\ driver.command # None /\ driver.rest = <<>> /\ driver.result = None
      /\ driver.final = <<>> /\ shutdown_execution_events = <<>> /\ ~closed /\ ~owner_dropped
  BY <1>1 DEF Protocol, PhaseInv, Stage
<1>3. /\ RuntimeOK(runtime') /\ m.execution_events \in Seq(1..MaxItems)
      /\ runtime'.succeeded = m.succeeded
      /\ runtime'.pending_lifecycle = m.pending_lifecycle
      /\ Drained(driver, m) \/ ShutDown(driver, m) => runtime'.execution_events = <<>>
  BY HandledRuntime
<1>4. PICK result \in Result \cup {None}, final \in Seq(1..MaxItems),
           at \in {"reply", "effect"}, then \in {"next", "close", driver.then} :
        /\ driver' = [driver EXCEPT !.at = at, !.result = result, !.then = then, !.final = final]
        /\ result # None <=> at = "reply"
        /\ result # None => result.tag \in {"Ok", "Error", "Backpressured"}
        /\ at = "reply" => then \in {"next", "close"}
        /\ final # <<>> => at = "reply" /\ then = "close"
        /\ at = "reply" /\ then = "close" => Quiet(runtime')
  <2>0. <<>> \in Seq(1..MaxItems)
    OBVIOUS
  <2>1. CASE \E tag \in {"Ok", "Error", "Backpressured"} : Finish(driver, tag, m)
    <3>1. PICK tag \in {"Ok", "Error", "Backpressured"} : Finish(driver, tag, m)
      BY <2>1
    <3>2. Answer(tag) \in Result /\ Answer(tag).tag = tag /\ Answer(tag) # None
      BY AnswerType
    <3>3. driver' = [driver EXCEPT !.at = "reply", !.result = Answer(tag), !.then = "next",
                                   !.final = <<>>]
      BY <3>1, <1>2 DEF Finish, Protocol, TypeOK, DriverState
    <3> QED  BY <2>0, <3>2, <3>3
  <2>2. CASE AwaitEffect(driver, m)
    <3>1. driver' = [driver EXCEPT !.at = "effect", !.result = None, !.then = driver.then,
                                   !.final = <<>>]
      BY <2>2, <1>2 DEF AwaitEffect, Protocol, TypeOK, DriverState
    <3> QED  BY <2>0, <3>1
  <2>3. CASE Drained(driver, m)
    <3> DEFINE r == [tag |-> "Ok", items |-> m.execution_events]
    <3>1. r \in Result /\ r.tag = "Ok"
      BY <1>3 DEF Result
    <3>2. r # None
      BY <3>1, NoneAssumption
    <3>3. driver' = [driver EXCEPT !.at = "reply", !.result = r, !.then = "next", !.final = <<>>]
      BY <2>3, <1>2 DEF Drained, Protocol, TypeOK, DriverState
    <3> HIDE DEF r
    <3> QED  BY <2>0, <3>1, <3>2, <3>3
  <2>4. CASE ShutDown(driver, m)
    <3>1. Answer("Ok") \in Result /\ Answer("Ok").tag = "Ok" /\ Answer("Ok") # None
      BY AnswerType
    <3>2. driver' = [driver EXCEPT !.at = "reply", !.result = Answer("Ok"), !.then = "close",
                                   !.final = m.execution_events]
      BY <2>4 DEF ShutDown
    <3>3. Quiet(runtime')
      BY <2>4, <1>3 DEF ShutDown, Quiet, Blocked
    <3> QED  BY <3>1, <3>2, <3>3, <1>3
  <2> QED  BY <2>1, <2>2, <2>3, <2>4 DEF Handled
<1>5. /\ driver' \in DriverState /\ driver'.at = at /\ driver'.command = driver.command
      /\ driver'.result = result /\ driver'.then = then /\ driver'.rest = <<>>
      /\ driver'.final = final
  BY <1>2, <1>4 DEF Protocol, TypeOK, DriverState
<1>6. TypeOK'
  BY <1>1, <1>3, <1>5 DEF Protocol, TypeOK, RuntimeOK
<1>7. Hand' = Hand
  BY <1>5 DEF Hand
<1>8. OwnerLocal
  BY <1>1, <1>2, <1>4, <1>5, <1>7 DEF OwnerLocal
<1>9. PhaseInv'
  BY <1>1, <1>2, <1>4, <1>5 DEF PhaseInv, Stage
<1>10. SenderInv'
  BY <1>1, <1>2, <1>5, <1>7 DEF Protocol, SenderInv
<1>11. TruthInv' /\ OwnerInv'
  BY <1>4, <1>5 DEF TruthInv, OwnerInv
<1> QED  BY <1>6, <1>8, <1>9, <1>10, <1>11, OwnerLocalProtocol

\* The mailbox is closed after a shutdown.
LEMMA CloseProtocol == ASSUME Protocol, close(driver) PROVE Protocol'
<1>1. /\ driver.at = "close" /\ closed' = TRUE /\ waker' = FALSE
      /\ shutdown_execution_events' = driver.final /\ commands' = <<>>
      /\ driver' = [driver EXCEPT !.at = "closing", !.rest = commands, !.final = <<>>]
      /\ UNCHANGED <<owner_dropped, response, client, runtime, received, forgotten>>
  BY DEF close
<1>2. /\ driver.command = None /\ driver.rest = <<>> /\ driver.result = None
      /\ ~closed /\ ~owner_dropped /\ Quiet(runtime)
  BY <1>1 DEF Protocol, PhaseInv, Stage
<1>3. /\ driver' \in DriverState /\ driver'.at = "closing" /\ driver'.command = None
      /\ driver'.result = None /\ driver'.rest = commands /\ driver'.final = <<>>
  <2>1. <<>> \in Seq(1..MaxItems)  OBVIOUS
  <2> QED  BY <1>1, <1>2, <2>1 DEF Protocol, TypeOK, DriverState
<1>4. TypeOK'
  <2>1. driver.final \in Seq(1..MaxItems)  BY DEF Protocol, TypeOK, DriverState
  <2> QED  BY <1>1, <1>3, <2>1, NoSenders DEF Protocol, TypeOK
<1>5. Hand = {} /\ Hand' = {}
  BY <1>2, <1>3 DEF Hand
<1>6. OwnerLocal
  BY <1>1, <1>2, <1>3, <1>5, NoSenders DEF OwnerLocal
<1>7. PhaseInv'
  BY <1>1, <1>2, <1>3 DEF PhaseInv, Stage, Quiet
<1>8. SenderInv'
  BY <1>1, <1>3, <1>5, NoSenders DEF Protocol, SenderInv
<1>9. TruthInv' /\ OwnerInv'
  BY <1>3 DEF TruthInv, OwnerInv
<1> QED  BY <1>4, <1>6, <1>7, <1>8, <1>9, OwnerLocalProtocol

\* A command that was still queued is taken up with its answer.
LEMMA TakeUp ==
    ASSUME Protocol, driver.at \in {"closing", "lost"}, driver.rest # <<>>,
           NEW result \in Result, result # None,
           result.tag = "OwnerDropped" => owner_dropped,
           result.tag = "ShuttingDown" => ~owner_dropped,
           driver' = [driver EXCEPT !.at = "reply", !.then = driver.at,
                                    !.command = Head(driver.rest), !.rest = Tail(driver.rest),
                                    !.result = result],
           UNCHANGED <<commands, closed, owner_dropped, waker, response, client,
                       runtime, received, forgotten>>,
           shutdown_execution_events' \in {shutdown_execution_events, <<>>}
    PROVE  Protocol'
<1> DEFINE x == Head(driver.rest)  q == Tail(driver.rest)
<1>1. /\ driver.command = None /\ closed /\ commands = <<>> /\ driver.final = <<>>
      /\ driver.at = "closing" => Quiet(runtime) /\ ~owner_dropped
      /\ driver.at = "lost" => owner_dropped /\ shutdown_execution_events = <<>>
  BY DEF Protocol, PhaseInv, Stage
<1>2. /\ x \in Command /\ q \in Seq(Command) /\ OnceEach(q) /\ x.reply \notin Senders(q)
      /\ Senders(driver.rest) = Senders(q) \cup {x.reply}
  <2>1. driver.rest \in Seq(Command) /\ OnceEach(driver.rest)
    BY DEF Protocol, TypeOK, DriverState, SenderInv
  <2> QED  BY <2>1, TakeSender
<1>3. x # None
  BY <1>2, NoneAssumption
<1>4. driver' = [driver EXCEPT !.at = "reply", !.then = driver.at, !.command = x, !.rest = q,
                               !.result = result]
  OBVIOUS
<1> HIDE DEF x, q
<1>5. /\ driver' \in DriverState /\ driver'.at = "reply" /\ driver'.then = driver.at
      /\ driver'.command = x /\ driver'.rest = q /\ driver'.result = result
      /\ driver'.final = <<>>
  BY <1>1, <1>2, <1>4 DEF Protocol, TypeOK, DriverState
<1>6. TypeOK'
  <2>1. <<>> \in Seq(1..MaxItems)  OBVIOUS
  <2>2. shutdown_execution_events' \in Seq(1..MaxItems)  BY <2>1 DEF Protocol, TypeOK
  <2> QED  BY <1>5, <2>2 DEF Protocol, TypeOK
<1>7. Hand = {} /\ Hand' = {x.reply}
  BY <1>1, <1>3, <1>5 DEF Hand
<1>8. OwnerLocal
  BY <1>2, <1>5, <1>7 DEF OwnerLocal
<1>9. PhaseInv'
  BY <1>1, <1>3, <1>5 DEF PhaseInv, Stage
<1>10. SenderInv'
  BY <1>1, <1>2, <1>5, <1>7, NoSenders DEF Protocol, SenderInv
<1>11. TruthInv' /\ OwnerInv'
  BY <1>1, <1>5 DEF TruthInv, OwnerInv
<1> QED  BY <1>6, <1>8, <1>9, <1>10, <1>11, OwnerLocalProtocol

\* The queue is answered after a shutdown, and run() returns.
LEMMA RejectPendingProtocol == ASSUME Protocol, reject_pending(driver) PROVE Protocol'
<1>1. /\ driver.at = "closing"
      /\ UNCHANGED <<commands, closed, owner_dropped, waker, response, client,
                     runtime, received, forgotten>>
  BY DEF reject_pending
<1>2. /\ driver.command = None /\ closed /\ ~owner_dropped /\ Quiet(runtime) /\ commands = <<>>
      /\ driver.result = None /\ driver.final = <<>>
  BY <1>1 DEF Protocol, PhaseInv, Stage
<1>3. CASE driver.rest = <<>>
  <2>1. /\ driver' = [driver EXCEPT !.at = "return"]
        /\ UNCHANGED shutdown_execution_events
    BY <1>3 DEF reject_pending
  <2>2. /\ driver' \in DriverState /\ driver'.at = "return" /\ driver'.command = None
        /\ driver'.rest = <<>> /\ driver'.result = None /\ driver'.final = <<>>
    BY <1>2, <1>3, <2>1 DEF Protocol, TypeOK, DriverState
  <2>3. TypeOK'
    BY <1>1, <2>1, <2>2 DEF Protocol, TypeOK
  <2>4. Hand = {} /\ Hand' = {}
    BY <1>2, <2>2 DEF Hand
  <2>5. OwnerLocal
    BY <1>1, <1>2, <1>3, <2>2, <2>4 DEF OwnerLocal
  <2>6. PhaseInv'
    BY <1>1, <1>2, <2>1, <2>2 DEF PhaseInv, Stage
  <2>7. SenderInv'
    BY <1>1, <1>2, <2>2, <2>4, NoSenders DEF Protocol, SenderInv
  <2>8. TruthInv' /\ OwnerInv'
    BY <2>2 DEF TruthInv, OwnerInv
  <2> QED  BY <2>3, <2>5, <2>6, <2>7, <2>8, OwnerLocalProtocol
<1>4. CASE driver.rest # <<>>
  <2> DEFINE result == AfterClose(Head(driver.rest).kind)
  <2>1. /\ driver' = [driver EXCEPT !.at = "reply", !.then = "closing",
                                    !.command = Head(driver.rest), !.rest = Tail(driver.rest),
                                    !.result = result]
        /\ shutdown_execution_events' \in {shutdown_execution_events, <<>>}
    BY <1>4 DEF reject_pending, take_shutdown_execution_events
  <2>2. /\ result \in Result /\ result # None
        /\ result.tag = "OwnerDropped" => owner_dropped
        /\ result.tag = "ShuttingDown" => ~owner_dropped
    BY <1>2, AfterCloseType
  <2> HIDE DEF result
  <2> QED  BY <1>1, <1>4, <2>1, <2>2, TakeUp
<1> QED  BY <1>3, <1>4

\* The queue is answered after the owner was lost.
LEMMA RejectLostProtocol == ASSUME Protocol, reject_lost(driver) PROVE Protocol'
<1>1. /\ driver.at = "lost" /\ driver.rest # <<>>
      /\ driver' = [driver EXCEPT !.at = "reply", !.then = "lost",
                                  !.command = Head(driver.rest), !.rest = Tail(driver.rest),
                                  !.result = Answer("OwnerDropped")]
      /\ UNCHANGED <<commands, closed, owner_dropped, waker, shutdown_execution_events, response,
                     client, runtime, received, forgotten>>
  BY DEF reject_lost, mailbox
<1>2. owner_dropped
  BY <1>1 DEF Protocol, PhaseInv, Stage
<1>3. /\ Answer("OwnerDropped") \in Result /\ Answer("OwnerDropped") # None
      /\ Answer("OwnerDropped").tag = "OwnerDropped"
  BY AnswerType
<1> QED  BY <1>1, <1>2, <1>3, TakeUp

\* The owner is lost while it runs.
LEMMA LoseOwnerProtocol == ASSUME Protocol, lose_owner(driver) PROVE Protocol'
<1>1. /\ driver.at \in {"next", "parked", "handle", "effect"}
      /\ driver' = [driver EXCEPT !.at = "unwind"]
      /\ UNCHANGED <<commands, closed, owner_dropped, waker, shutdown_execution_events, response,
                     client, runtime, received, forgotten>>
  BY DEF lose_owner, mailbox
<1>2. /\ driver' \in DriverState /\ driver'.at = "unwind" /\ driver'.command = driver.command
      /\ driver'.rest = driver.rest /\ driver'.result = driver.result
      /\ driver'.final = driver.final
  BY <1>1 DEF Protocol, TypeOK, DriverState
<1>3. TypeOK'
  BY <1>1, <1>2 DEF Protocol, TypeOK
<1>4. Hand' = Hand
  BY <1>2 DEF Hand
<1>5. OwnerLocal
  BY <1>1, <1>2, <1>4 DEF OwnerLocal
<1>6. PhaseInv'
  BY <1>1, <1>2 DEF Protocol, PhaseInv, Stage
<1>7. SenderInv'
  BY <1>1, <1>2, <1>4 DEF Protocol, SenderInv
<1>8. TruthInv' /\ OwnerInv'
  BY <1>1, <1>2 DEF Protocol, TruthInv, OwnerInv
<1> QED  BY <1>3, <1>5, <1>6, <1>7, <1>8, OwnerLocalProtocol

\* The guard of the owner runs last, whichever way it ended.
LEMMA GuardProtocol == ASSUME Protocol, drop_owner_guard(driver) PROVE Protocol'
<1>1. /\ (driver.at = "unwind" /\ driver.command = None) \/ driver.at = "return"
      /\ UNCHANGED <<response, client, runtime, received, forgotten>>
  BY DEF drop_owner_guard
<1>2. /\ driver.command = None /\ driver.rest = <<>> /\ driver.result = None
      /\ driver.final = <<>> /\ ~owner_dropped
      /\ driver.at = "return" => closed /\ Quiet(runtime) /\ commands = <<>>
      /\ driver.at = "unwind" => ~closed /\ shutdown_execution_events = <<>>
  BY <1>1 DEF Protocol, PhaseInv, Stage
<1>3. Hand = {}
  BY <1>2 DEF Hand
<1>4. CASE closed
  <2>1. /\ driver' = [driver EXCEPT !.at = "exited"]
        /\ UNCHANGED <<commands, closed, owner_dropped, waker, shutdown_execution_events>>
    BY <1>4 DEF drop_owner_guard, mailbox
  <2>2. /\ driver' \in DriverState /\ driver'.at = "exited" /\ driver'.command = None
        /\ driver'.rest = <<>> /\ driver'.result = None /\ driver'.final = <<>>
    BY <1>2, <2>1 DEF Protocol, TypeOK, DriverState
  <2>3. TypeOK'
    BY <1>1, <2>1, <2>2 DEF Protocol, TypeOK
  <2>4. Hand' = {}
    BY <2>2 DEF Hand
  <2>5. OwnerLocal
    BY <1>1, <1>2, <1>3, <1>4, <2>1, <2>2, <2>4 DEF OwnerLocal
  <2>6. PhaseInv'
    BY <1>1, <1>2, <1>4, <2>1, <2>2 DEF PhaseInv, Stage
  <2>7. SenderInv'
    BY <1>2, <1>3, <2>1, <2>2, <2>4 DEF Protocol, SenderInv
  <2>8. TruthInv' /\ OwnerInv'
    BY <2>2 DEF TruthInv, OwnerInv
  <2> QED  BY <2>3, <2>5, <2>6, <2>7, <2>8, OwnerLocalProtocol
<1>5. CASE ~closed
  <2>1. /\ driver' = [driver EXCEPT !.at = "lost", !.rest = commands]
        /\ closed' = TRUE /\ owner_dropped' = TRUE /\ waker' = FALSE /\ commands' = <<>>
        /\ UNCHANGED shutdown_execution_events
    BY <1>5 DEF drop_owner_guard
  <2>2. /\ driver' \in DriverState /\ driver'.at = "lost" /\ driver'.command = None
        /\ driver'.rest = commands /\ driver'.result = None /\ driver'.final = <<>>
    BY <1>2, <2>1 DEF Protocol, TypeOK, DriverState
  <2>3. TypeOK'
    BY <1>1, <2>1, <2>2, NoSenders DEF Protocol, TypeOK
  <2>4. Hand' = {}
    BY <2>2 DEF Hand
  <2>5. OwnerLocal
    BY <1>1, <1>2, <1>3, <1>5, <2>1, <2>2, <2>4, NoSenders DEF OwnerLocal
  <2>6. PhaseInv'
    BY <1>1, <1>2, <1>5, <2>1, <2>2 DEF PhaseInv, Stage
  <2>7. SenderInv'
    BY <1>2, <1>3, <2>1, <2>2, <2>4, NoSenders DEF Protocol, SenderInv
  <2>8. TruthInv' /\ OwnerInv'
    BY <2>2 DEF TruthInv, OwnerInv
  <2> QED  BY <2>3, <2>5, <2>6, <2>7, <2>8, OwnerLocalProtocol
<1> QED  BY <1>4, <1>5
----------------------------------------------------------------------------
(* The inductive invariant: where the items are *)

\* The items nobody has drained.
Owned == ItemsIn(driver.final) \cup ItemsIn(shutdown_execution_events) \cup Holds(runtime)

\* The drains are disjoint.
Apart ==
    /\ received \cap forgotten = {}
    /\ InReply \cap (received \cup forgotten) = {}
    /\ \A c \in Clients :
          /\ InResponse(c) \cap (received \cup forgotten \cup InReply) = {}
          /\ \A e \in Clients \ {c} : InResponse(c) \cap InResponse(e) = {}

ItemInv ==
    /\ RuntimeOK(runtime) /\ BoundInv
    /\ Increasing(driver.final) /\ Increasing(shutdown_execution_events)
    /\ HandedOut \cup Owned = 1..runtime.emitted
    /\ \A x \in HandedOut, y \in Owned : x < y
    /\ Apart

IInv == Protocol /\ ItemInv

\* An item is handed out if it is with a drain or with a client.
LEMMA HandedOutTo ==
    \A x : x \in HandedOut <=>
              \/ x \in received \/ x \in forgotten \/ x \in InReply
              \/ \E c \in Clients : x \in InResponse(c)
BY DEF HandedOut

\* Nothing moves when only the protocol does.
LEMMA NothingMoves ==
    ASSUME ItemInv, UNCHANGED <<received, forgotten, shutdown_execution_events, runtime>>,
           driver'.final = driver.final, driver'.at = "effect" => driver.at = "effect",
           InReply' = InReply, \A c \in Clients : InResponse(c)' = InResponse(c)
    PROVE  ItemInv'
<1>1. BoundInv'
  BY DEF ItemInv, BoundInv
<1>2. HandedOut' = HandedOut
  BY DEF HandedOut
<1>3. Owned' = Owned
  BY DEF Owned
<1>4. Apart'
  BY DEF ItemInv, Apart
<1> QED  BY <1>1, <1>2, <1>3, <1>4 DEF ItemInv

\* A client gives up the items of its response: received or forgotten.
LEMMA ClientGives ==
    ASSUME ItemInv, NEW c \in Clients, UNCHANGED <<shutdown_execution_events, runtime, driver>>,
           \/ received' = received \cup InResponse(c) /\ forgotten' = forgotten
           \/ forgotten' = forgotten \cup InResponse(c) /\ received' = received,
           InResponse(c)' = {}, \A e \in Clients \ {c} : InResponse(e)' = InResponse(e)
    PROVE  ItemInv'
<1>1. BoundInv' /\ Owned' = Owned /\ InReply' = InReply
  BY DEF ItemInv, BoundInv, Owned, InReply
<1>2. HandedOut' = HandedOut
  <2>1. ASSUME NEW x PROVE x \in HandedOut' <=> x \in HandedOut
    <3>1. x \in HandedOut' <=> \/ x \in received' \/ x \in forgotten' \/ x \in InReply'
                               \/ \E e \in Clients : x \in InResponse(e)'
      BY DEF HandedOut
    <3>2. x \in HandedOut <=> \/ x \in received \/ x \in forgotten \/ x \in InReply
                              \/ \E e \in Clients : x \in InResponse(e)
      BY HandedOutTo
    <3> QED  BY <1>1, <3>1, <3>2
  <2> QED  BY <2>1
<1>3. Apart'
  BY <1>1 DEF ItemInv, Apart
<1> QED  BY <1>1, <1>2, <1>3 DEF ItemInv

\* The reply's items go to the client that waits, or to nobody.
LEMMA ReplyGives ==
    ASSUME ItemInv, UNCHANGED <<shutdown_execution_events, runtime, received>>,
           driver'.final = driver.final, driver'.at # "effect", InReply' = {},
           \/ /\ forgotten' = forgotten \cup InReply
              /\ \A e \in Clients : InResponse(e)' = InResponse(e)
           \/ /\ forgotten' = forgotten
              /\ \E c \in Clients : /\ InResponse(c) = {} /\ InResponse(c)' = InReply
                                    /\ \A e \in Clients \ {c} : InResponse(e)' = InResponse(e)
    PROVE  ItemInv'
<1>1. BoundInv' /\ Owned' = Owned
  BY DEF ItemInv, BoundInv, Owned
<1>2. HandedOut' = HandedOut
  <2>1. ASSUME NEW x PROVE x \in HandedOut' <=> x \in HandedOut
    <3>1. x \in HandedOut' <=> \/ x \in received' \/ x \in forgotten' \/ x \in InReply'
                               \/ \E e \in Clients : x \in InResponse(e)'
      BY DEF HandedOut
    <3>2. x \in HandedOut <=> \/ x \in received \/ x \in forgotten \/ x \in InReply
                              \/ \E e \in Clients : x \in InResponse(e)
      BY HandedOutTo
    <3> QED  BY <3>1, <3>2
  <2> QED  BY <2>1
<1>3. Apart'
  BY DEF ItemInv, Apart
<1> QED  BY <1>1, <1>2, <1>3 DEF ItemInv

\* Kept items are taken by the reply or by a client that has none.
LEMMA KeptGiven ==
    ASSUME ItemInv, RuntimeOK(runtime'), BoundInv',
           Increasing(driver'.final), Increasing(shutdown_execution_events'), NEW S, NEW T,
           UNCHANGED <<received, forgotten>>,
           runtime'.emitted = runtime.emitted,
           S \cup T = Owned, Owned' = T, \A x \in S, y \in T : x < y,
           \/ /\ InReply = {} /\ InReply' = S
              /\ \A e \in Clients : InResponse(e)' = InResponse(e)
           \/ /\ InReply' = InReply
              /\ \E c \in Clients : /\ InResponse(c) = {} /\ InResponse(c)' = S
                                    /\ \A e \in Clients \ {c} : InResponse(e)' = InResponse(e)
    PROVE  ItemInv'
<1>1. ASSUME NEW x PROVE x \in HandedOut' <=> x \in HandedOut \/ x \in S
  <2>1. x \in HandedOut' <=> \/ x \in received' \/ x \in forgotten' \/ x \in InReply'
                             \/ \E e \in Clients : x \in InResponse(e)'
    BY DEF HandedOut
  <2>2. x \in HandedOut <=> \/ x \in received \/ x \in forgotten \/ x \in InReply
                            \/ \E e \in Clients : x \in InResponse(e)
    BY HandedOutTo
  <2> QED  BY <2>1, <2>2
<1>2. \A x \in HandedOut : x \notin S
  <2> SUFFICES ASSUME NEW x \in HandedOut, x \in S PROVE FALSE
    OBVIOUS
  <2>1. x < x /\ x \in 1..runtime.emitted
    BY DEF ItemInv
  <2> QED  BY <2>1
<1>3. \A x : /\ x \in received \/ x \in forgotten \/ x \in InReply => x \notin S
             /\ \A e \in Clients : x \in InResponse(e) => x \notin S
  BY <1>2, HandedOutTo
<1>4. Apart'
  BY <1>3 DEF ItemInv, Apart
<1>5. HandedOut' \cup Owned' = 1..runtime'.emitted
  BY <1>1 DEF ItemInv
<1>6. \A x \in HandedOut', y \in Owned' : x < y
  BY <1>1 DEF ItemInv
<1> QED  BY <1>4, <1>5, <1>6 DEF ItemInv
----------------------------------------------------------------------------
(* Every step keeps the items in order and in one place *)

\* An empty sequence holds no item.
LEMMA NoItems == ItemsIn(<<>>) = {} /\ Increasing(<<>>)
BY DEF ItemsIn, Increasing

\* A submission moves no item: the response it resets was given up.
LEMMA SubmitItems ==
    ASSUME IInv, NEW c \in Clients, NEW kind \in Kinds, submit(c, kind)
    PROVE  ItemInv'
<1> DEFINE ch == <<c, 1 - client[c].turn>>
<1>1. /\ client[c].at = "idle" /\ response' = [response EXCEPT ![ch] = NoResponse]
      /\ UNCHANGED <<driver, runtime, received, forgotten, shutdown_execution_events>>
  BY DEF submit, mailbox
<1>2. PICK to, command : client' = [client EXCEPT ![c] =
                  [at |-> to, turn |-> ch[2], command |-> command, woken |-> FALSE]]
  BY DEF submit
<1>3. ch \in Channel
  BY Fields DEF IInv, Protocol, Channel
<1>4. /\ client'[c].turn = ch[2] /\ response'[ch] = NoResponse
      /\ \A e \in Clients \ {c} : client'[e] = client[e] /\ response'[Mine(e)] = response[Mine(e)]
  BY <1>1, <1>2, <1>3, Fields DEF IInv, Protocol, TypeOK, Mine
<1>5. InResponse(c)' = {} /\ InResponse(c) = {}
  BY <1>1, <1>4 DEF InResponse, NoResponse
<1>6. \A e \in Clients \ {c} : InResponse(e)' = InResponse(e)
  BY <1>4 DEF InResponse, Mine
<1>7. InReply' = InReply
  BY <1>1 DEF InReply
<1> QED  BY <1>1, <1>5, <1>6, <1>7, NothingMoves DEF IInv

\* The wake-up of the owner moves no item.
LEMMA WakeItems ==
    ASSUME IInv, NEW c \in Clients, wake(c)
    PROVE  ItemInv'
<1>1. /\ client' = [client EXCEPT ![c].at = "poll"] /\ client[c].at = "wake"
      /\ driver' = [driver EXCEPT !.woken = TRUE]
      /\ UNCHANGED <<response, runtime, received, forgotten, shutdown_execution_events>>
  BY DEF wake, mailbox
<1>2. driver'.final = driver.final /\ driver'.at = driver.at /\ driver'.result = driver.result
  BY <1>1 DEF IInv, Protocol, TypeOK, DriverState
<1>3. \A e \in Clients : /\ client'[e].turn = client[e].turn
                         /\ client'[e].at = "idle" <=> client[e].at = "idle"
  BY <1>1 DEF IInv, Protocol, TypeOK, ClientState
<1>4. \A e \in Clients : InResponse(e)' = InResponse(e)
  BY <1>1, <1>3 DEF InResponse
<1>5. InReply' = InReply
  BY <1>2 DEF InReply
<1> QED  BY <1>1, <1>2, <1>4, <1>5, NothingMoves DEF IInv

\* An answer after the close takes all of the items that are left, or none.
LEMMA AfterCloseItems ==
    ASSUME IInv, closed, NEW kind, take_shutdown_execution_events(kind),
           runtime' = runtime, driver'.final = driver.final
    PROVE  \E S, T : /\ S = ItemsIn(AfterClose(kind).items) /\ S \cup T = Owned /\ Owned' = T
                     /\ \A x \in S, y \in T : x < y
                     /\ Increasing(shutdown_execution_events')
<1>1. CASE ~owner_dropped /\ kind = "DrainExecutionEvents"
  <2>1. /\ AfterClose(kind).items = shutdown_execution_events
        /\ shutdown_execution_events' = <<>>
    BY <1>1 DEF AfterClose, take_shutdown_execution_events
  <2>2. driver.final = <<>> /\ Quiet(runtime)
    BY <1>1 DEF IInv, Protocol, PhaseInv
  <2>3. Holds(runtime) = {} /\ ItemsIn(driver.final) = {}
    BY <2>2, NoItems DEF Holds, Quiet, Pending
  <2>4. Owned = ItemsIn(shutdown_execution_events) /\ Owned' = {}
    BY <2>1, <2>3, NoItems DEF Owned
  <2> QED  BY <2>1, <2>4, NoItems
<1>2. CASE ~(~owner_dropped /\ kind = "DrainExecutionEvents")
  <2>1. /\ AfterClose(kind).items = <<>>
        /\ shutdown_execution_events' = shutdown_execution_events
    BY <1>2, AnswerType DEF AfterClose, take_shutdown_execution_events
  <2>2. Owned' = Owned
    BY <2>1 DEF Owned
  <2> QED  BY <2>1, <2>2, NoItems DEF IInv, ItemInv
<1> QED  BY <1>1, <1>2

\* A rejected drain takes what the shutdown left, any other command nothing.
LEMMA RejectedItems ==
    ASSUME IInv, NEW c \in Clients, answer_rejected(c)
    PROVE  ItemInv'
<1> DEFINE kind == client[c].command.kind  r == AfterClose(kind)
<1>1. /\ client[c].at = "rejected" /\ closed /\ client[c].command.reply = Mine(c)
      /\ Mine(c) \in Channel /\ response[Mine(c)].result = None
  BY Fields DEF IInv, Protocol, answer_rejected, ClientInv, AnswerInv
<1>2. /\ client' = [client EXCEPT ![c].at = "poll"]
      /\ response' = [response EXCEPT ![Mine(c)].result = r]
      /\ UNCHANGED <<driver, runtime, received, forgotten>>
      /\ take_shutdown_execution_events(kind)
  BY <1>1 DEF answer_rejected
<1>3. r # None
  BY <1>1, AfterCloseType DEF IInv
<1>4. PICK S, T : /\ S = ItemsIn(r.items) /\ S \cup T = Owned /\ Owned' = T
                  /\ \A x \in S, y \in T : x < y
                  /\ Increasing(shutdown_execution_events')
  BY <1>1, <1>2, AfterCloseItems
<1> HIDE DEF r, kind
<1>5. /\ client'[c].at = "poll" /\ response'[Mine(c)].result = r
      /\ \A e \in Clients : client'[e].turn = client[e].turn
      /\ \A e \in Clients \ {c} : client'[e] = client[e] /\ response'[Mine(e)] = response[Mine(e)]
  BY <1>1, <1>2, Fields DEF IInv, Protocol, TypeOK, ClientState, Mine
<1>6. InResponse(c) = {} /\ InResponse(c)' = S
  BY <1>1, <1>3, <1>4, <1>5 DEF InResponse, Mine
<1>7. \A e \in Clients \ {c} : InResponse(e)' = InResponse(e)
  BY <1>5 DEF InResponse, Mine
<1>8. InReply' = InReply /\ BoundInv'
  BY <1>2 DEF InReply, BoundInv, IInv, ItemInv
<1> QED  BY <1>2, <1>4, <1>6, <1>7, <1>8, KeptGiven DEF IInv, ItemInv

\* A future that resolves hands its items to the client; one that sleeps has none.
LEMMA PollItems ==
    ASSUME IInv, NEW c \in Clients, poll(c)
    PROVE  ItemInv'
<1>1. /\ client[c].at \in {"poll", "parked"} /\ client[c].command.reply = Mine(c)
      /\ Mine(c) \in Channel
  BY Fields DEF IInv, Protocol, poll, ClientInv
<1>2. UNCHANGED <<shutdown_execution_events, driver, runtime, forgotten>>
  BY DEF poll, mailbox
<1>3. CASE response[Mine(c)].result # None
  <2>1. /\ received' = received \cup ItemsIn(response[Mine(c)].result.items)
        /\ response' = [response EXCEPT ![Mine(c)].result = None]
        /\ client' = [client EXCEPT ![c] = Idle(@)]
    BY <1>1, <1>3 DEF poll
  <2>2. /\ client'[c].at = "idle"
        /\ \A e \in Clients \ {c} : client'[e] = client[e] /\ response'[Mine(e)] = response[Mine(e)]
    BY <1>1, <2>1, Fields DEF IInv, Protocol, TypeOK, ClientState, Mine, Idle
  <2>3. InResponse(c)' = {} /\ InResponse(c) = ItemsIn(response[Mine(c)].result.items)
    BY <1>1, <1>3, <2>2 DEF InResponse, Mine
  <2>4. \A e \in Clients \ {c} : InResponse(e)' = InResponse(e)
    BY <2>2 DEF InResponse, Mine
  <2> QED  BY <1>2, <2>1, <2>3, <2>4, ClientGives DEF IInv
<1>4. CASE response[Mine(c)].result = None
  <2>1. /\ response' = [response EXCEPT ![Mine(c)].waker = TRUE]
        /\ client' = [client EXCEPT ![c].at = "parked", ![c].woken = FALSE]
        /\ received' = received
    BY <1>1, <1>4 DEF poll
  <2>2. /\ response'[Mine(c)].result = None /\ client'[c].turn = client[c].turn
        /\ \A e \in Clients \ {c} : client'[e] = client[e] /\ response'[Mine(e)] = response[Mine(e)]
    BY <1>1, <1>4, <2>1, Fields DEF IInv, Protocol, TypeOK, ClientState, Mine
  <2>3. \A e \in Clients : InResponse(e)' = InResponse(e)
    BY <1>4, <2>2 DEF InResponse, Mine
  <2>4. InReply' = InReply
    BY <1>2 DEF InReply
  <2> QED  BY <1>2, <2>1, <2>3, <2>4, NothingMoves DEF IInv
<1> QED  BY <1>3, <1>4

\* A future that is dropped forgets its items.
LEMMA AbandonItems ==
    ASSUME IInv, NEW c \in Clients, abandon(c)
    PROVE  ItemInv'
<1>1. /\ client[c].at \in {"poll", "parked"} /\ client[c].command.reply = Mine(c)
      /\ Mine(c) \in Channel
  BY Fields DEF IInv, Protocol, abandon, ClientInv
<1>2. /\ UNCHANGED <<shutdown_execution_events, driver, runtime, received>>
      /\ response' = [response EXCEPT ![Mine(c)] = NoResponse]
      /\ client' = [client EXCEPT ![c] = Idle(@)]
      /\ forgotten' = IF response[Mine(c)].result = None THEN forgotten
                      ELSE forgotten \cup ItemsIn(response[Mine(c)].result.items)
  BY <1>1 DEF abandon, mailbox
<1>3. /\ client'[c].at = "idle"
      /\ \A e \in Clients \ {c} : client'[e] = client[e] /\ response'[Mine(e)] = response[Mine(e)]
  BY <1>1, <1>2, Fields DEF IInv, Protocol, TypeOK, ClientState, Mine, Idle
<1>4. InResponse(c)' = {}
  BY <1>3 DEF InResponse
<1>5. forgotten' = forgotten \cup InResponse(c)
  BY <1>1, <1>2 DEF InResponse, Mine
<1>6. \A e \in Clients \ {c} : InResponse(e)' = InResponse(e)
  BY <1>3 DEF InResponse, Mine
<1> QED  BY <1>2, <1>4, <1>5, <1>6, ClientGives DEF IInv

\* A completed reply hands its items to the one client that waits, or forgets them.
LEMMA ReplyItems == ASSUME IInv, reply(driver) PROVE ItemInv'
<1> DEFINE ch == driver.command.reply
<1>1. /\ driver.at = "reply" /\ driver.command # None /\ driver.result # None
  BY DEF IInv, Protocol, PhaseInv, reply
<1>2. /\ complete(ch, driver.result)
      /\ driver' = [driver EXCEPT !.at = "sent", !.result = None]
      /\ UNCHANGED <<shutdown_execution_events, runtime, received>>
  BY DEF reply, mailbox
<1>3. driver'.final = driver.final /\ driver'.at = "sent" /\ driver'.result = None
  BY <1>2 DEF IInv, Protocol, TypeOK, DriverState
<1>4. InReply' = {} /\ InReply = ItemsIn(driver.result.items)
  BY <1>1, <1>3 DEF InReply
<1>5. /\ ch \in Channel
      /\ \A c \in Clients : Mine(c) = ch => (client[c].at # "idle" <=> Awaited(ch))
      /\ Awaited(ch) => \E c \in Clients : Mine(c) = ch /\ client[c].at # "idle"
      /\ \A c \in Clients : Mine(c) = ch => client[c].at # "rejected"
      /\ Hand = {ch}
  BY <1>1, HandFacts DEF IInv
<1> HIDE DEF ch
<1>6. \A c \in Clients : /\ client'[c].at = client[c].at /\ client'[c].turn = client[c].turn
                         /\ Mine(c)' = Mine(c)
  BY <1>2, <1>5, WokenFacts DEF IInv, complete
<1>7. /\ \A c \in Clients : Mine(c) # ch => response'[Mine(c)] = response[Mine(c)]
      /\ response'[ch].result = IF response[ch].result = None /\ Awaited(ch) THEN driver.result
                                ELSE response[ch].result
  BY <1>2, <1>5, Fields DEF complete, IInv, Protocol, TypeOK
<1>8. CASE Awaited(ch)
  <2>1. PICK c \in Clients : Mine(c) = ch /\ client[c].at # "idle"
    BY <1>5, <1>8
  <2>2. client[c].at \in {"wake", "poll", "parked"}
    BY <1>5, <2>1, Fields DEF IInv, Protocol
  <2>3. response[ch].result = None
    BY <1>1, <1>5, <2>1, <2>2 DEF IInv, Protocol, AnswerInv, Unanswered
  <2>4. InResponse(c) = {} /\ InResponse(c)' = InReply
    BY <1>1, <1>4, <1>6, <1>7, <1>8, <2>1, <2>3 DEF InResponse, Mine
  <2>5. \A e \in Clients \ {c} : Mine(e) # ch
    BY <2>1 DEF Mine
  <2>6. \A e \in Clients \ {c} : InResponse(e)' = InResponse(e)
    BY <1>6, <1>7, <2>5 DEF InResponse, Mine
  <2>7. forgotten' = forgotten
    BY <1>2, <1>8 DEF complete
  <2> QED  BY <1>2, <1>3, <1>4, <2>4, <2>6, <2>7, ReplyGives DEF IInv
<1>9. CASE ~Awaited(ch)
  <2>1. forgotten' = forgotten \cup InReply
    BY <1>2, <1>4, <1>9 DEF complete
  <2>2. ASSUME NEW e \in Clients PROVE InResponse(e)' = InResponse(e)
    <3>1. CASE Mine(e) = ch
      BY <1>5, <1>6, <1>9, <3>1 DEF InResponse
    <3>2. CASE Mine(e) # ch
      BY <1>6, <1>7, <3>2 DEF InResponse, Mine
    <3> QED  BY <3>1, <3>2
  <2> QED  BY <1>2, <1>3, <1>4, <2>1, <2>2, ReplyGives DEF IInv
<1> QED  BY <1>8, <1>9

\* A sender that is dropped leaves no items, and no answer but its own.
LEMMA DropItems ==
    ASSUME IInv, driver.command # None, drop_sender(driver.command.reply),
           driver'.final = driver.final, driver'.at # "effect", InReply' = InReply,
           UNCHANGED <<shutdown_execution_events, runtime, received, forgotten>>
    PROVE  ItemInv'
<1> DEFINE ch == driver.command.reply
<1>1. ch \in Channel /\ drop_sender(ch)
  BY HandFacts DEF IInv
<1> HIDE DEF ch
<1>2. \A c \in Clients : /\ client'[c].at = client[c].at /\ client'[c].turn = client[c].turn
                         /\ Mine(c)' = Mine(c)
  BY <1>1, WokenFacts DEF IInv, drop_sender
<1>3. /\ \A c \in Clients : Mine(c) # ch => response'[Mine(c)] = response[Mine(c)]
      /\ response'[ch].result = IF response[ch].result = None THEN Answer("OwnerDropped")
                                ELSE response[ch].result
  BY <1>1, Fields DEF drop_sender, IInv, Protocol, TypeOK
<1>4. ItemsIn(Answer("OwnerDropped").items) = {}
  BY AnswerType, NoItems
<1>5. ASSUME NEW e \in Clients PROVE InResponse(e)' = InResponse(e)
  <2>1. CASE Mine(e) = ch
    BY <1>2, <1>3, <1>4, <2>1 DEF InResponse, Mine
  <2>2. CASE Mine(e) # ch
    BY <1>2, <1>3, <2>2 DEF InResponse, Mine
  <2> QED  BY <2>1, <2>2
<1> QED  BY <1>5, NothingMoves DEF IInv

\* The owner moves commands and senders, not items.
LEMMA OwnerItems ==
    ASSUME IInv, \/ next(driver) \/ replied(driver) \/ unwind_reply(driver)
                 \/ lose_owner(driver) \/ drop_owner_guard(driver) \/ reject_lost(driver)
    PROVE  ItemInv'
<1>1. driver \in DriverState
  BY DEF IInv, Protocol, TypeOK
<1>2. CASE replied(driver)
  <2>1. /\ driver.at = "sent" /\ drop_sender(driver.command.reply)
        /\ driver' = [driver EXCEPT !.at = driver.then, !.command = None]
        /\ UNCHANGED <<shutdown_execution_events, runtime, received, forgotten>>
    BY <1>2 DEF replied, mailbox
  <2>2. /\ driver'.final = driver.final /\ driver'.at # "effect"
        /\ driver'.result = driver.result
    BY <1>1, <2>1 DEF DriverState
  <2>3. driver.command # None
    BY <2>1 DEF IInv, Protocol, PhaseInv
  <2>4. InReply' = InReply
    BY <2>2 DEF InReply
  <2> QED  BY <2>1, <2>2, <2>3, <2>4, DropItems
<1>3. CASE unwind_reply(driver)
  <2>1. /\ driver.at = "unwind" /\ driver.command # None /\ drop_sender(driver.command.reply)
        /\ driver' = [driver EXCEPT !.command = None]
        /\ UNCHANGED <<shutdown_execution_events, runtime, received, forgotten>>
    BY <1>3 DEF unwind_reply, mailbox
  <2>2. /\ driver'.final = driver.final /\ driver'.at # "effect"
        /\ driver'.result = driver.result
    BY <1>1, <2>1 DEF DriverState
  <2>3. InReply' = InReply
    BY <2>2 DEF InReply
  <2> QED  BY <2>1, <2>2, <2>3, DropItems
<1>4. CASE next(driver) \/ lose_owner(driver) \/ drop_owner_guard(driver) \/ reject_lost(driver)
  <2>1. UNCHANGED <<shutdown_execution_events, response, client, runtime, received, forgotten>>
    BY <1>4 DEF next, lose_owner, drop_owner_guard, reject_lost, mailbox
  <2>2. /\ driver'.final = driver.final /\ driver'.at # "effect"
        /\ driver'.result = driver.result \/ driver'.result = Answer("OwnerDropped")
        /\ driver.at # "reply"
    <3>1. CASE next(driver)
      BY <1>1, <3>1 DEF DriverState, next
    <3>2. CASE lose_owner(driver)
      BY <1>1, <3>2 DEF DriverState, lose_owner
    <3>3. CASE drop_owner_guard(driver)
      BY <1>1, <3>3 DEF DriverState, drop_owner_guard
    <3>4. CASE reject_lost(driver)
      BY <1>1, <3>4 DEF DriverState, reject_lost
    <3> QED  BY <1>4, <3>1, <3>2, <3>3, <3>4
  <2>3. InReply' = InReply
    <3>1. driver.result = None /\ InReply = {}
      BY <2>2 DEF IInv, Protocol, PhaseInv, InReply
    <3>2. ItemsIn(Answer("OwnerDropped").items) = {}
      BY AnswerType, NoItems
    <3> QED  BY <2>2, <3>1, <3>2 DEF InReply
  <2>4. \A c \in Clients : InResponse(c)' = InResponse(c)
    BY <2>1 DEF InResponse
  <2> QED  BY <2>1, <2>2, <2>3, <2>4, NothingMoves DEF IInv
<1> QED  BY <1>2, <1>3, <1>4

\* The close moves the drained events of the shutdown into the mailbox.
LEMMA CloseItems == ASSUME IInv, close(driver) PROVE ItemInv'
<1>1. /\ driver.at = "close" /\ shutdown_execution_events' = driver.final
      /\ driver' = [driver EXCEPT !.at = "closing", !.rest = commands, !.final = <<>>]
      /\ UNCHANGED <<response, client, runtime, received, forgotten>>
  BY DEF close
<1>2. shutdown_execution_events = <<>>
  BY <1>1 DEF IInv, Protocol, PhaseInv, Stage
<1>3. driver'.final = <<>> /\ driver'.at = "closing" /\ driver'.result = driver.result
  BY <1>1 DEF IInv, Protocol, TypeOK, DriverState
<1>4. Owned' = Owned
  BY <1>1, <1>2, <1>3, NoItems DEF Owned
<1>5. HandedOut' = HandedOut /\ InReply' = InReply
      /\ \A c \in Clients : InResponse(c)' = InResponse(c)
  BY <1>1, <1>3 DEF HandedOut, InReply, InResponse
<1>6. Apart' /\ BoundInv'
  BY <1>1, <1>3, <1>5 DEF IInv, ItemInv, Apart, BoundInv
<1> QED  BY <1>1, <1>2, <1>3, <1>4, <1>5, <1>6, NoItems DEF IInv, ItemInv

\* A drain that was queued at the shutdown takes what the shutdown left.
LEMMA RejectPendingItems == ASSUME IInv, reject_pending(driver) PROVE ItemInv'
<1>0. driver \in DriverState
  BY DEF IInv, Protocol, TypeOK
<1>1. /\ driver.at = "closing" /\ UNCHANGED <<response, client, runtime, received, forgotten>>
      /\ closed /\ driver.result = None
  BY DEF reject_pending, IInv, Protocol, PhaseInv, Stage
<1>2. \A c \in Clients : InResponse(c)' = InResponse(c)
  BY <1>1 DEF InResponse
<1>3. CASE driver.rest = <<>>
  <2>1. driver' = [driver EXCEPT !.at = "return"] /\ UNCHANGED shutdown_execution_events
    BY <1>3 DEF reject_pending
  <2>2. driver'.final = driver.final /\ driver'.at = "return" /\ driver'.result = driver.result
    BY <1>0, <2>1 DEF DriverState
  <2>3. InReply' = InReply
    BY <2>2 DEF InReply
  <2> QED  BY <1>1, <1>2, <2>1, <2>2, <2>3, NothingMoves DEF IInv
<1>4. CASE driver.rest # <<>>
  <2> DEFINE kind == Head(driver.rest).kind  r == AfterClose(kind)
  <2>1. /\ driver' = [driver EXCEPT !.at = "reply", !.then = "closing",
                                    !.command = Head(driver.rest), !.rest = Tail(driver.rest),
                                    !.result = r]
        /\ take_shutdown_execution_events(kind)
    BY <1>4 DEF reject_pending
  <2>2. r # None
    BY <1>1, AfterCloseType DEF IInv
  <2> HIDE DEF r
  <2>3. driver'.final = driver.final /\ driver'.at = "reply" /\ driver'.result = r
    BY <1>0, <2>1 DEF DriverState
  <2>4. PICK S, T : /\ S = ItemsIn(r.items) /\ S \cup T = Owned /\ Owned' = T
                    /\ \A x \in S, y \in T : x < y
                    /\ Increasing(shutdown_execution_events')
    BY <1>1, <2>1, <2>3, AfterCloseItems DEF r
  <2>5. InReply = {} /\ InReply' = S
    BY <1>1, <2>2, <2>3, <2>4 DEF InReply
  <2>6. BoundInv'
    BY <1>1, <2>3 DEF IInv, ItemInv, BoundInv
  <2> QED  BY <1>1, <1>2, <2>3, <2>4, <2>5, <2>6, KeptGiven DEF IInv, ItemInv
<1> QED  BY <1>3, <1>4

\* A handler appends what it emits, and drains at most the whole buffer.
LEMMA HandledItems == ASSUME IInv, NEW m, Handled(m) PROVE ItemInv'
<1>0. driver \in DriverState
  BY DEF IInv, Protocol, TypeOK
<1>1. /\ UNCHANGED <<shutdown_execution_events, response, client, received, forgotten>>
      /\ driver.at \in {"handle", "effect"} /\ Grown(runtime, m) /\ Within(m, 0)
  BY DEF Handled, Unmoved, mailbox
<1>2. /\ driver.result = None /\ driver.final = <<>> /\ shutdown_execution_events = <<>>
  BY <1>1 DEF IInv, Protocol, PhaseInv, Stage
<1>3. Owned = Holds(runtime) /\ InReply = {}
  BY <1>2, NoItems DEF Owned, InReply
<1>4. /\ RuntimeOK(m) /\ RuntimeOK(runtime') /\ runtime'.succeeded = m.succeeded
      /\ runtime'.emitted = m.emitted /\ runtime'.pending_lifecycle = m.pending_lifecycle
      /\ Drained(driver, m) \/ ShutDown(driver, m) => runtime'.execution_events = <<>>
  BY HandledRuntime
<1>5. Within(runtime', 0)
  BY <1>1, <1>4 DEF Within
<1>6. \A c \in Clients : InResponse(c)' = InResponse(c)
  BY <1>1 DEF InResponse
<1>7. CASE m = runtime /\ Drained(driver, m)
  <2> DEFINE r == [tag |-> "Ok", items |-> runtime.execution_events]
  <2>1. /\ driver'.at = "reply" /\ driver'.final = driver.final /\ driver'.result = r
    BY <1>0, <1>7 DEF Drained, DriverState
  <2>2. r # None
    <3>1. r \in Result
      BY Counters DEF IInv, ItemInv, Result
    <3> QED  BY <3>1, NoneAssumption
  <2>3. InReply' = ItemsIn(runtime.execution_events)
    BY <2>1, <2>2 DEF InReply
  <2>4. Owned' = Pending(runtime)
    <3>1. Holds(runtime') = Pending(runtime)
      BY <1>4, <1>7, NoItems DEF Holds, Pending
    <3> QED  BY <1>1, <1>2, <2>1, <3>1, NoItems DEF Owned
  <2>5. \A x \in ItemsIn(runtime.execution_events), y \in Pending(runtime) : x < y
    BY DEF IInv, ItemInv, RuntimeOK
  <2>6. BoundInv'
    BY <1>5, <2>1 DEF BoundInv
  <2>7. Increasing(driver'.final) /\ Increasing(shutdown_execution_events')
    BY <1>1, <1>2, <2>1, NoItems
  <2>8. ItemsIn(runtime.execution_events) \cup Pending(runtime) = Owned
    BY <1>3 DEF Holds
  <2> QED
    BY <1>1, <1>3, <1>4, <1>6, <1>7, <2>3, <2>4, <2>5, <2>6, <2>7, <2>8, KeptGiven DEF IInv
<1>8. CASE ~(m = runtime /\ Drained(driver, m))
  <2>1. /\ driver'.result = None \/ \E tag \in {"Ok", "Error", "Backpressured"} :
                                        driver'.result = Answer(tag)
        /\ driver'.at = "effect" => Within(runtime', 1)
        /\ ItemsIn(driver'.final) \cup Holds(runtime') = Holds(m)
        /\ Increasing(driver'.final)
    <3>1. CASE \E tag \in {"Ok", "Error", "Backpressured"} : Finish(driver, tag, m)
      <4>1. PICK tag \in {"Ok", "Error", "Backpressured"} : Finish(driver, tag, m)
        BY <3>1
      <4>2. driver'.result = Answer(tag) /\ driver'.at = "reply" /\ driver'.final = <<>>
            /\ runtime' = m
        BY <1>0, <1>2, <4>1 DEF Finish, DriverState
      <4> QED  BY <4>2, NoItems
    <3>2. CASE Within(m, 1) /\ AwaitEffect(driver, m)
      <4>1. driver'.result = None /\ driver'.final = <<>> /\ runtime' = m
        BY <1>0, <1>2, <3>2 DEF AwaitEffect, DriverState
      <4> QED  BY <3>2, <4>1, NoItems
    <3>3. CASE ShutDown(driver, m)
      <4>1. driver'.result = Answer("Ok") /\ driver'.at = "reply"
            /\ driver'.final = m.execution_events
        BY <1>0, <3>3 DEF ShutDown, DriverState
      <4>2. Holds(runtime') = {}
        BY <1>4, <3>3, NoItems DEF Holds, Pending, ShutDown, Blocked
      <4>3. Holds(m) = ItemsIn(m.execution_events)
        BY <3>3 DEF ShutDown, Blocked, Holds, Pending
      <4> QED  BY <1>4, <4>1, <4>2, <4>3 DEF RuntimeOK
    <3> QED  BY <1>8, <3>1, <3>2, <3>3 DEF Handled
  <2>2. InReply' = {}
    <3>1. \A tag \in {"Ok", "Error", "Backpressured"} : ItemsIn(Answer(tag).items) = {}
      BY AnswerType, NoItems
    <3> QED  BY <2>1, <3>1 DEF InReply
  <2>3. Owned' = Holds(m)
    BY <1>1, <1>2, <2>1, NoItems DEF Owned
  <2>4. HandedOut' = HandedOut /\ Apart'
    BY <1>1, <1>3, <1>6, <2>2 DEF HandedOut, IInv, ItemInv, Apart
  <2>5. BoundInv'
    BY <1>5, <2>1 DEF BoundInv
  <2>6. /\ Holds(m) = Holds(runtime) \cup (runtime.emitted + 1)..m.emitted
        /\ runtime.emitted <= m.emitted /\ m.emitted \in Nat /\ runtime.emitted \in Nat
    <3>1. m.emitted \in Nat /\ runtime.emitted \in Nat
      BY <1>4, Counters DEF IInv, ItemInv
    <3> QED  BY <3>1, <1>1 DEF Grown
  <2>7. 1..m.emitted = 1..runtime.emitted \cup (runtime.emitted + 1)..m.emitted
    BY <2>6
  <2>8. HandedOut \cup Holds(m) = 1..m.emitted
    BY <1>3, <2>6, <2>7 DEF IInv, ItemInv
  <2>9. \A x \in HandedOut, y \in Holds(m) : x < y
    <3> SUFFICES ASSUME NEW x \in HandedOut, NEW y \in Holds(m) PROVE x < y
      OBVIOUS
    <3>1. x \in 1..runtime.emitted
      BY DEF IInv, ItemInv
    <3>2. CASE y \in Holds(runtime)
      BY <1>3, <3>2 DEF IInv, ItemInv
    <3>3. CASE y \in (runtime.emitted + 1)..m.emitted
      BY <2>6, <3>1, <3>3
    <3> QED  BY <2>6, <3>2, <3>3
  <2> QED  BY <1>1, <1>2, <1>4, <2>1, <2>3, <2>4, <2>5, <2>8, <2>9, NoItems DEF ItemInv
<1> QED  BY <1>7, <1>8
----------------------------------------------------------------------------
(* The theorems *)

\* The driver starts with an open, empty mailbox.
LEMMA InitIInv == ASSUME Init PROVE IInv
<1>1. TypeOK
  <2>1. <<>> \in Seq(1..MaxItems) /\ <<>> \in Seq(Command) /\ Len(<<>>) = 0 /\ 0 <= Capacity
        /\ 0 \in 0..MaxItems
    BY DriverAssumption, NoSenders
  <2>2. driver \in DriverState
    BY <2>1 DEF Init, DriverState
  <2>3. runtime \in RuntimeState /\ runtime.execution_events = <<>>
    BY <2>1 DEF Init, RuntimeState
  <2>4. client \in [Clients -> ClientState]
    BY DEF Init, ClientState
  <2>5. response \in [Channel -> [result : Result \cup {None}, waker : BOOLEAN]]
    BY DEF Init, NoResponse
  <2> QED  BY <2>1, <2>2, <2>3, <2>4, <2>5 DEF Init, TypeOK
<1>2. /\ driver.at = "next" /\ driver.command = None /\ driver.result = None
      /\ driver.rest = <<>> /\ driver.final = <<>> /\ commands = <<>> /\ ~closed
      /\ ~owner_dropped /\ shutdown_execution_events = <<>>
      /\ \A c \in Clients : client[c].at = "idle" /\ client[c].command = None
      /\ received = {} /\ forgotten = {}
      /\ runtime.execution_events = <<>> /\ runtime.pending_lifecycle = None
      /\ runtime.emitted = 0 /\ runtime.succeeded = 0
  BY DEF Init
<1>3. Protocol
  BY <1>1, <1>2, NoSenders DEF Protocol, ClientInv, PhaseInv, Stage, SenderInv, Hand, AnswerInv,
     OwnerInv, SleepInv, TruthfulAnswers, TruthInv
<1>4. Holds(runtime) = {} /\ Pending(runtime) = {}
  BY <1>2, NoItems DEF Holds, Pending
<1>5. RuntimeOK(runtime)
  BY <1>1, <1>2, <1>4, NoItems DEF RuntimeOK, TypeOK
<1>6. BoundInv
  BY <1>2, DriverAssumption DEF BoundInv, Within
<1>7. HandedOut = {} /\ Owned = {} /\ Apart
  BY <1>2, <1>4, NoItems DEF HandedOut, Owned, Apart, InReply, InResponse
<1>8. 1..runtime.emitted = {}
  BY <1>2
<1> QED  BY <1>2, <1>3, <1>5, <1>6, <1>7, <1>8, NoItems DEF IInv, ItemInv

\* Every step of a client, of the owner or of its loss keeps the invariant.
LEMMA NextIInv == ASSUME IInv, [Next]_vars PROVE IInv'
<1>1. ASSUME NEW c \in Clients, NEW kind \in Kinds, submit(c, kind) PROVE IInv'
  BY <1>1, SubmitProtocol, SubmitItems DEF IInv
<1>2. ASSUME NEW c \in Clients, ClientStep(c) \/ abandon(c) PROVE IInv'
  <2>1. CASE wake(c)  BY <2>1, WakeProtocol, WakeItems DEF IInv
  <2>2. CASE answer_rejected(c)  BY <2>2, RejectedProtocol, RejectedItems DEF IInv
  <2>3. CASE poll(c)  BY <2>3, PollProtocol, PollItems DEF IInv
  <2>4. CASE abandon(c)  BY <2>4, AbandonProtocol, AbandonItems DEF IInv
  <2> QED  BY <1>2, <2>1, <2>2, <2>3, <2>4 DEF ClientStep
<1>3. ASSUME HandlerStep PROVE IInv'
  <2>1. PICK m : Handled(m)
    BY <1>3, HandlerShape DEF IInv, ItemInv
  <2> QED  BY <2>1, HandledProtocol, HandledItems DEF IInv
<1>4. ASSUME run(driver) \/ lose_owner(driver), ~HandlerStep PROVE IInv'
  <2>1. CASE next(driver)  BY <2>1, NextProtocol, OwnerItems DEF IInv
  <2>2. CASE reply(driver)  BY <2>2, ReplyProtocol, ReplyItems DEF IInv
  <2>3. CASE replied(driver)  BY <2>3, RepliedProtocol, OwnerItems DEF IInv
  <2>4. CASE close(driver)  BY <2>4, CloseProtocol, CloseItems DEF IInv
  <2>5. CASE reject_pending(driver)  BY <2>5, RejectPendingProtocol, RejectPendingItems DEF IInv
  <2>6. CASE unwind_reply(driver)  BY <2>6, UnwindProtocol, OwnerItems DEF IInv
  <2>7. CASE drop_owner_guard(driver)  BY <2>7, GuardProtocol, OwnerItems DEF IInv
  <2>8. CASE reject_lost(driver)  BY <2>8, RejectLostProtocol, OwnerItems DEF IInv
  <2>9. CASE lose_owner(driver)  BY <2>9, LoseOwnerProtocol, OwnerItems DEF IInv
  <2> QED  BY <1>4, <2>1, <2>2, <2>3, <2>4, <2>5, <2>6, <2>7, <2>8, <2>9 DEF run, HandlerStep
<1>5. ASSUME UNCHANGED vars PROVE IInv'
  <2>1. UNCHANGED <<commands, closed, owner_dropped, waker, shutdown_execution_events,
                    response, client, driver, runtime, received, forgotten>>
    BY <1>5 DEF vars, mailbox
  <2>3. TypeOK' /\ ClientInv' /\ PhaseInv' /\ SenderInv' /\ AnswerInv'
    BY <2>1 DEF IInv, Protocol, TypeOK, ClientInv, PhaseInv, Stage, SenderInv, Hand, AnswerInv,
       Unanswered, Mine
  <2>4. OwnerInv' /\ SleepInv' /\ TruthfulAnswers' /\ TruthInv'
    BY <2>1 DEF IInv, Protocol, OwnerInv, SleepInv, TruthfulAnswers, TruthInv, Mine
  <2>5. InReply' = InReply /\ \A c \in Clients : InResponse(c)' = InResponse(c)
    BY <2>1 DEF InReply, InResponse
  <2>6. ItemInv'
    BY <2>1, <2>5, NothingMoves DEF IInv
  <2> QED  BY <2>3, <2>4, <2>6 DEF IInv, Protocol
<1> QED  BY <1>1, <1>2, <1>3, <1>4, <1>5 DEF Next

\* The whole invariant holds throughout.
THEOREM Invariance == Spec => []IInv
<1>1. Init => IInv  BY InitIInv
<1>2. IInv /\ [Next]_vars => IInv'  BY NextIInv
<1> QED  BY <1>1, <1>2, PTL DEF Spec

\* Every field of the mailbox, the responses, the tasks and the runtime keeps
\* its type, and the buffer its capacity.
THEOREM TypeCorrect == Spec => []TypeOK
<1>1. IInv => TypeOK  BY DEF IInv, Protocol
<1> QED  BY <1>1, Invariance, PTL

\* A sleeping owner is woken for every command, and a sleeping client always
\* has a registered waker and a sender that still owes it the response.
THEOREM WakeupsKept == Spec => []NoLostWakeup
<1>1. ASSUME IInv PROVE NoLostWakeup
  <2>1. ASSUME NEW c \in Clients, client[c].at = "parked", ~client[c].woken
        PROVE  LET ch == client[c].command.reply
               IN  response[ch].result = None /\ response[ch].waker /\ Owed(ch)
    <3>1. client[c].command.reply = Mine(c)
      BY <1>1, <2>1 DEF IInv, Protocol, ClientInv
    <3>2. response[Mine(c)].result = None /\ response[Mine(c)].waker
      BY <1>1, <2>1 DEF IInv, Protocol, SleepInv
    <3>3. Mine(c) \in Senders(commands) \cup Senders(driver.rest) \cup Hand
      BY <1>1, <2>1, <3>2 DEF IInv, Protocol, AnswerInv, Unanswered
    <3>4. Owed(Mine(c))
      BY <3>3 DEF Owed, Queued, InHand, Senders, Hand
    <3> QED  BY <3>1, <3>2, <3>4
  <2>2. driver.at = "parked" /\ ~driver.woken =>
          IF commands = <<>> THEN waker \/ \E c \in Clients : client[c].at = "wake"
          ELSE \E c \in Clients : client[c].at = "wake"
    BY <1>1 DEF IInv, Protocol, OwnerInv
  <2> QED  BY <2>1, <2>2 DEF NoLostWakeup
<1> QED  BY <1>1, Invariance, PTL

\* A future resolves to OwnerDropped only when the owner is lost, and to
\* ShuttingDown only after an orderly shutdown.
THEOREM AnswersTruthful == Spec => []TruthfulAnswers
<1>1. IInv => TruthfulAnswers  BY DEF IInv, Protocol
<1> QED  BY <1>1, Invariance, PTL

\* When run() returns, every command has been taken, the stream is drained, no
\* item is pending and every known success has its completion.
THEOREM ExitComplete == Spec => []ExitIsComplete
<1>1. ASSUME IInv PROVE ExitIsComplete
  BY <1>1 DEF IInv, Protocol, PhaseInv, Stage, Quiet, ExitIsComplete, Blocked
<1> QED  BY <1>1, Invariance, PTL

\* The items to be drained, in order: at most one of the three places that
\* keep them is not empty.
LEMMA KeptFacts ==
    ASSUME IInv
    PROVE  Kept \in Seq(1..MaxItems) /\ ItemsIn(Kept) = Owned /\ Increasing(Kept)
<1> DEFINE ev == runtime.execution_events
           pend == IF Blocked(runtime) THEN <<runtime.pending_lifecycle>> ELSE <<>>
<1>1. /\ driver.final \in Seq(1..MaxItems) /\ shutdown_execution_events \in Seq(1..MaxItems)
      /\ ev \in Seq(1..MaxItems) /\ runtime.pending_lifecycle \in 1..MaxItems \cup {None}
      /\ Increasing(driver.final) /\ Increasing(shutdown_execution_events) /\ Increasing(ev)
  <2>1. driver.final \in Seq(1..MaxItems) /\ shutdown_execution_events \in Seq(1..MaxItems)
    BY DEF IInv, Protocol, TypeOK, DriverState
  <2>2. RuntimeOK(runtime)
    BY DEF IInv, ItemInv
  <2> QED  BY <2>1, <2>2, Counters DEF IInv, ItemInv, RuntimeOK
<1>2. /\ driver.final # <<>> => shutdown_execution_events = <<>> /\ Quiet(runtime)
      /\ shutdown_execution_events # <<>> => driver.final = <<>> /\ Quiet(runtime)
  BY DEF IInv, Protocol, PhaseInv
<1>3. /\ ev \o pend \in Seq(1..MaxItems) /\ ItemsIn(ev \o pend) = Holds(runtime)
      /\ Increasing(ev \o pend)
  <2>1. CASE Blocked(runtime)
    <3> DEFINE p == runtime.pending_lifecycle
    <3>1. p \in 1..MaxItems /\ Pending(runtime) = {p}
      BY <1>1, <2>1 DEF Blocked, Pending
    <3>2. \A x \in ItemsIn(ev) : x < p
      BY <3>1 DEF IInv, ItemInv, RuntimeOK
    <3>3. ev \o pend = Append(ev, p)
      BY <1>1, <2>1, <3>1, AppendIsConcat
    <3>4. /\ Append(ev, p) \in Seq(1..MaxItems) /\ Increasing(Append(ev, p))
          /\ ItemsIn(Append(ev, p)) = ItemsIn(ev) \cup {p}
      BY <1>1, <3>1, <3>2, AppendItem
    <3> QED  BY <3>1, <3>3, <3>4 DEF Holds
  <2>2. CASE ~Blocked(runtime)
    <3>1. ev \o pend = ev /\ Pending(runtime) = {}
      BY <1>1, <2>2, ConcatEmptySeq DEF Blocked, Pending
    <3> QED  BY <1>1, <3>1 DEF Holds
  <2> QED  BY <2>1, <2>2
<1> DEFINE rest == ev \o pend
<1>4. Kept = driver.final \o shutdown_execution_events \o rest
  <2> DEFINE a == driver.final \o shutdown_execution_events
  <2>1. a \in Seq(1..MaxItems)
    BY <1>1, ConcatProperties
  <2>2. pend \in Seq(1..MaxItems)
    <3>1. CASE Blocked(runtime)
      <4>1. runtime.pending_lifecycle \in 1..MaxItems  BY <1>1, <3>1 DEF Blocked
      <4>2. <<runtime.pending_lifecycle>> \in Seq(1..MaxItems)  BY <4>1
      <4> QED  BY <3>1, <4>2
    <3>2. CASE ~Blocked(runtime)
      <4>1. <<>> \in Seq(1..MaxItems)  OBVIOUS
      <4> QED  BY <3>2, <4>1
    <3> QED  BY <3>1, <3>2
  <2>3. Kept = (a \o ev) \o pend
    BY DEF Kept
  <2> HIDE DEF a, ev, pend
  <2>4. ev \in Seq(1..MaxItems)
    BY <1>1
  <2>5. (a \o ev) \o pend = a \o (ev \o pend)
    BY <2>1, <2>2, <2>4, ConcatAssociative
  <2> QED  BY <2>3, <2>5 DEF a
<1>5. Quiet(runtime) => rest = <<>>
  BY <1>1, ConcatEmptySeq DEF Quiet, Blocked
<1> HIDE DEF ev, pend, rest
<1>6. CASE driver.final # <<>>
  <2>1. Kept = driver.final /\ shutdown_execution_events = <<>> /\ Quiet(runtime)
    BY <1>1, <1>2, <1>4, <1>5, <1>6, ConcatEmptySeq
  <2>2. Owned = ItemsIn(driver.final)
    BY <2>1, NoItems DEF Owned, Quiet, Holds, Pending
  <2> QED  BY <1>1, <2>1, <2>2
<1>7. CASE shutdown_execution_events # <<>>
  <2>1. Kept = shutdown_execution_events /\ driver.final = <<>> /\ Quiet(runtime)
    BY <1>1, <1>2, <1>4, <1>5, <1>7, ConcatEmptySeq
  <2>2. Owned = ItemsIn(shutdown_execution_events)
    BY <2>1, NoItems DEF Owned, Quiet, Holds, Pending
  <2> QED  BY <1>1, <2>1, <2>2
<1>8. CASE driver.final = <<>> /\ shutdown_execution_events = <<>>
  <2>1. Kept = rest
    <3>1. rest \in Seq(1..MaxItems)  BY <1>3 DEF rest
    <3> QED  BY <1>4, <1>8, <3>1, ConcatEmptySeq
  <2>2. Owned = Holds(runtime)
    BY <1>8, NoItems DEF Owned
  <2> QED  BY <1>3, <2>1, <2>2 DEF rest
<1> QED  BY <1>6, <1>7, <1>8

\* Every lifecycle item is in exactly one place, whoever drops a future, an
\* owner or the whole driver.
THEOREM ItemsOnce == Spec => []EveryItemOnce
<1>1. ASSUME IInv PROVE EveryItemOnce
  <2>1. HandedOut \cap ItemsIn(Kept) = {}
    <3> SUFFICES ASSUME NEW x \in HandedOut, x \in ItemsIn(Kept) PROVE FALSE
      OBVIOUS
    <3>1. x < x /\ x \in 1..runtime.emitted
      BY <1>1, KeptFacts DEF IInv, ItemInv
    <3> QED  BY <3>1
  <2> QED  BY <1>1, <2>1, KeptFacts DEF IInv, ItemInv, Apart, EveryItemOnce
<1> QED  BY <1>1, Invariance, PTL

\* Drains see the items in the order of their emission.
THEOREM OrderKept == Spec => []LosslessOrder
<1>1. ASSUME IInv PROVE LosslessOrder
  <2>1. Kept \in Seq(1..MaxItems) /\ ItemsIn(Kept) = Owned /\ Increasing(Kept)
    BY <1>1, KeptFacts
  <2> SUFFICES ASSUME NEW i \in 1..Len(Kept)
               PROVE  /\ \A j \in 1..(i - 1) : Kept[j] < Kept[i]
                      /\ \A n \in HandedOut : n < Kept[i]
    BY DEF LosslessOrder
  <2>2. Len(Kept) \in Nat
    BY <2>1, LenProperties
  <2>3. ASSUME NEW j \in 1..(i - 1) PROVE j \in 1..Len(Kept) /\ j < i
    BY <2>2
  <2>4. \A j \in 1..(i - 1) : Kept[j] < Kept[i]
    BY <2>1, <2>3 DEF Increasing
  <2>5. Kept[i] \in Owned
    BY <2>1 DEF ItemsIn
  <2> QED  BY <1>1, <2>4, <2>5 DEF IInv, ItemInv
<1> QED  BY <1>1, Invariance, PTL
============================================================================
