---------------------------- MODULE AsyncDriver ----------------------------
(***************************************************************************)
(* RuntimeDriver and its handles: clients submit commands to a mailbox and *)
(* await a response; the one owner of the runtime takes them in order.  A  *)
(* step is one critical section of the mailbox or of a response; a wake-up *)
(* is a step of its own where another thread can run before it.            *)
(*                                                                         *)
(* Of the runtime only its effect on the lifecycle stream is kept: which   *)
(* items a call emits, whether it meets backpressure, whether it fails.    *)
(***************************************************************************)
EXTENDS Naturals, Sequences, FiniteSets

CONSTANTS
    Clients,
    Kinds,         \* the commands the clients submit
    Capacity,      \* of the lossless buffer (128 in the code)
    MaxItems,      \* bound on the lifecycle items of a behaviour
    None

ASSUME DriverAssumption ==
    /\ Kinds \subseteq {"Wake", "DispatchEffect", "Recover", "CancelTask",
                        "DrainExecutionEvents", "Shutdown"}
    /\ Capacity \in Nat \ {0} /\ MaxItems \in Nat
    /\ None \notin Kinds

\* A client has two response channels and uses them in turn, so that a sender
\* can outlive the future it belongs to.
Channel == Clients \X {0, 1}
Command == [kind : Kinds, reply : Channel]
Result == [tag : {"Ok", "Error", "Backpressured", "OwnerDropped", "ShuttingDown"},
           items : Seq(1..MaxItems)]

ASSUME NoneAssumption ==
    None \notin 1..MaxItems /\ None \notin Command /\ None \notin Result

VARIABLES
    \* MailboxState
    commands, closed, owner_dropped, waker, shutdown_execution_events,
    response,    \* channel -> ResponseState
    client,      \* client -> what its task is doing
    driver,      \* the task that runs the owner
    runtime,     \* the owned runtime and pending_lifecycle
    received,    \* items the clients got out of their futures
    forgotten    \* items in responses whose future was dropped

mailbox == <<commands, closed, owner_dropped, waker, shutdown_execution_events>>
vars == <<mailbox, response, client, driver, runtime, received, forgotten>>

NoResponse == [result |-> None, waker |-> FALSE]

\* A client whose future resolved or was dropped.
Idle(s) == [s EXCEPT !.at = "idle", !.command = None, !.woken = FALSE]

ItemsIn(s) == {s[i] : i \in 1..Len(s)}

Answer(tag) == [tag |-> tag, items |-> <<>>]

\* Where the owner is: polling or parked on the mailbox, handling a command,
\* awaiting an effect, completing a reply, dropping its sender, closing.
DriverState ==
    [at : {"next", "parked", "handle", "effect", "reply", "sent", "close", "closing",
           "return", "exited", "unwind", "lost"},
     command : Command \cup {None},                \* the one whose reply it owns
     result : Result \cup {None},
     then : {"next", "close", "closing", "lost"},  \* after the sender is dropped
     rest : Seq(Command),                          \* drained from the mailbox
     final : Seq(1..MaxItems),                     \* drained by the shutdown
     woken : BOOLEAN]

ClientState ==
    [at : {"idle", "wake", "rejected", "poll", "parked"},
     turn : {0, 1}, command : Command \cup {None}, woken : BOOLEAN]

RuntimeState ==
    [execution_events : Seq(1..MaxItems),
     pending_lifecycle : (1..MaxItems) \cup {None},
     emitted : 0..MaxItems,
     succeeded : 0..MaxItems]        \* known successes without a completion

Init ==
    /\ commands = <<>> /\ closed = FALSE /\ owner_dropped = FALSE /\ waker = FALSE
    /\ shutdown_execution_events = <<>>
    /\ response = [ch \in Channel |-> NoResponse]
    /\ client = [c \in Clients |-> [at |-> "idle", turn |-> 0, command |-> None, woken |-> FALSE]]
    /\ driver = [at |-> "next", command |-> None, result |-> None, then |-> "next",
                 rest |-> <<>>, final |-> <<>>, woken |-> FALSE]
    /\ runtime = [execution_events |-> <<>>, pending_lifecycle |-> None,
                  emitted |-> 0, succeeded |-> 0]
    /\ received = {} /\ forgotten = {}
----------------------------------------------------------------------------
(* Responses *)

\* A future still waits for the response on ch.
Awaited(ch) ==
    /\ client[ch[1]].at # "idle"
    /\ client[ch[1]].command.reply = ch

\* The task that registered its waker on ch runs again.
Woken(ch) == IF response[ch].waker /\ Awaited(ch)
             THEN [client EXCEPT ![ch[1]].woken = TRUE] ELSE client

\* ResponseSender::complete; a result nobody awaits is not kept.
complete(ch, result) ==
    /\ response' = [response EXCEPT ![ch] =
          [result |-> IF @.result = None /\ Awaited(ch) THEN result ELSE @.result,
           waker |-> FALSE]]
    /\ client' = Woken(ch)
    /\ forgotten' = IF Awaited(ch) THEN forgotten
                    ELSE forgotten \cup ItemsIn(result.items)

\* Mutant: a sender that is dropped does not wake its future.
drop_sender_silently(ch) ==
    /\ response' = [response EXCEPT ![ch].result =
                        IF @ = None THEN Answer("OwnerDropped") ELSE @]
    /\ UNCHANGED client

\* Drop for ResponseSender, which also runs at the end of complete: when the
\* result was already taken by then, a second one is left behind.
drop_sender(ch) ==
    /\ response' = [response EXCEPT ![ch] =
          [result |-> IF @.result = None THEN Answer("OwnerDropped") ELSE @.result,
           waker |-> FALSE]]
    /\ client' = Woken(ch)

\* complete_after_close: the answer to a command that missed the mailbox.
AfterClose(kind) ==
    IF owner_dropped THEN Answer("OwnerDropped")
    ELSE IF kind = "DrainExecutionEvents"
    THEN [tag |-> "Ok", items |-> shutdown_execution_events]
    ELSE Answer("ShuttingDown")

\* Mutant: the events of the shutdown are copied, not taken.
take_shutdown_copy(kind) == UNCHANGED shutdown_execution_events

take_shutdown_execution_events(kind) ==
    shutdown_execution_events' =
        IF ~owner_dropped /\ kind = "DrainExecutionEvents" THEN <<>>
        ELSE shutdown_execution_events
----------------------------------------------------------------------------
(* Clients *)

\* No command with a reply on ch waits, and none is in the owner's hands.
Queued(ch) == \E q \in {commands, driver.rest} : \E i \in 1..Len(q) : q[i].reply = ch
InHand(ch) == driver.command # None /\ driver.command.reply = ch

\* Bound: a client submits again once its last command has left the mailbox,
\* also when it dropped the future.
MaySubmit(c) == \A turn \in {0, 1} : ~Queued(<<c, turn>>)

\* RuntimeHandle::submit up to the end of the mailbox's critical section.
submit(c, kind) ==
    LET ch == <<c, 1 - client[c].turn>>
        command == [kind |-> kind, reply |-> ch]
        To(at) == [at |-> at, turn |-> ch[2], command |-> command, woken |-> FALSE]
    IN  /\ client[c].at = "idle"
        /\ MaySubmit(c) /\ ~InHand(ch)
        /\ response' = [response EXCEPT ![ch] = NoResponse]
        /\ \/ /\ closed
              /\ client' = [client EXCEPT ![c] = To("rejected")]
              /\ UNCHANGED mailbox
           \/ /\ ~closed
              /\ commands' = Append(commands, command)
              /\ waker' = FALSE
              /\ client' = [client EXCEPT ![c] = To(IF waker THEN "wake" ELSE "poll")]
              /\ UNCHANGED <<closed, owner_dropped, shutdown_execution_events>>
        /\ UNCHANGED <<driver, runtime, received, forgotten>>

\* The waker that submit took out of the mailbox.
wake(c) ==
    /\ client[c].at = "wake"
    /\ client' = [client EXCEPT ![c].at = "poll"]
    /\ driver' = [driver EXCEPT !.woken = TRUE]
    /\ UNCHANGED <<mailbox, response, runtime, received, forgotten>>

\* complete_after_close on the thread of the client.
answer_rejected(c) ==
    LET command == client[c].command
    IN  /\ client[c].at = "rejected"
        /\ response' = [response EXCEPT ![command.reply].result = AfterClose(command.kind)]
        /\ take_shutdown_execution_events(command.kind)
        /\ client' = [client EXCEPT ![c].at = "poll"]
        /\ UNCHANGED <<commands, closed, owner_dropped, waker, driver, runtime, received, forgotten>>

\* DriverFuture::poll.
poll(c) ==
    LET ch == client[c].command.reply
        result == response[ch].result
    IN  /\ client[c].at = "poll" \/ (client[c].at = "parked" /\ client[c].woken)
        /\ \/ /\ result # None
              /\ received' = received \cup ItemsIn(result.items)
              /\ response' = [response EXCEPT ![ch].result = None]
              /\ client' = [client EXCEPT ![c] = Idle(@)]
           \/ /\ result = None
              /\ response' = [response EXCEPT ![ch].waker = TRUE]
              /\ client' = [client EXCEPT ![c].at = "parked", ![c].woken = FALSE]
              /\ UNCHANGED received
        /\ UNCHANGED <<mailbox, driver, runtime, forgotten>>

\* The client drops its future; what is in the response goes with it.
abandon(c) ==
    LET result == response[client[c].command.reply].result
    IN  /\ client[c].at \in {"poll", "parked"}
        /\ client' = [client EXCEPT ![c] = Idle(@)]
        /\ response' = [response EXCEPT ![client[c].command.reply] = NoResponse]
        /\ forgotten' = IF result = None THEN forgotten
                        ELSE forgotten \cup ItemsIn(result.items)
        /\ UNCHANGED <<mailbox, driver, runtime, received>>
----------------------------------------------------------------------------
(* The owner: commands and replies *)

\* NextCommand::poll.
next(d) ==
    /\ d.at = "next" \/ (d.at = "parked" /\ d.woken)
    /\ \/ /\ commands # <<>>
          /\ driver' = [d EXCEPT !.at = "handle", !.command = Head(commands), !.woken = FALSE]
          /\ commands' = Tail(commands)
          /\ UNCHANGED waker
       \/ /\ commands = <<>>
          /\ driver' = [d EXCEPT !.at = "parked", !.woken = FALSE]
          /\ waker' = TRUE
          /\ UNCHANGED commands
    /\ UNCHANGED <<closed, owner_dropped, shutdown_execution_events, response, client,
                   runtime, received, forgotten>>

\* Mutant: an error path returns without completing the reply.
reply_unless_error(d) ==
    /\ d.at = "reply"
    /\ IF d.result.tag = "Error" THEN UNCHANGED <<response, client, forgotten>>
       ELSE complete(d.command.reply, d.result)
    /\ driver' = [d EXCEPT !.at = "sent", !.result = None]
    /\ UNCHANGED <<mailbox, runtime, received>>

\* The owner completes the reply it holds, then drops the sender.
reply(d) ==
    /\ d.at = "reply"
    /\ complete(d.command.reply, d.result)
    /\ driver' = [d EXCEPT !.at = "sent", !.result = None]
    /\ UNCHANGED <<mailbox, runtime, received>>

replied(d) ==
    /\ d.at = "sent"
    /\ drop_sender(d.command.reply)
    /\ driver' = [d EXCEPT !.at = d.then, !.command = None]
    /\ UNCHANGED <<mailbox, runtime, received, forgotten>>
----------------------------------------------------------------------------
(* The runtime, as far as the driver sees it *)

Room(m) == Len(m.execution_events) < Capacity

Blocked(m) == m.pending_lifecycle # None

\* A call that emits n items and stops at the first that does not fit.
Emit(m, n) ==
    LET free == Capacity - Len(m.execution_events)
        fits == IF n <= free THEN n ELSE free
    IN  [m EXCEPT !.execution_events = @ \o [i \in 1..fits |-> m.emitted + i],
                  !.emitted = IF n <= free THEN @ + n ELSE @ + free + 1,
                  !.pending_lifecycle = IF n <= free THEN @ ELSE m.emitted + free + 1]

\* The completion of n known successes, as far as the buffer lets it go.
Settle(m, n) == LET e == Emit(m, n)
                IN  [e EXCEPT !.succeeded = @ - (e.emitted - m.emitted)]

retry_pending_lifecycle(m) ==
    IF Blocked(m) /\ Room(m)
    THEN [m EXCEPT !.execution_events = Append(@, m.pending_lifecycle), !.pending_lifecycle = None]
    ELSE m

\* n more items stay within the bound, the completions still due included.
Within(m, n) == m.emitted + m.succeeded + n <= MaxItems
----------------------------------------------------------------------------
(* The owner: handling a command *)

Handles(d, kind) == d.at = "handle" /\ d.command.kind = kind

\* The command is answered and the runtime is left as m.
Finish(d, tag, m) ==
    /\ driver' = [d EXCEPT !.at = "reply", !.result = Answer(tag), !.then = "next"]
    /\ runtime' = m

\* The effect was dispatched durably and its future is awaited.
AwaitEffect(d, m) ==
    /\ driver' = [d EXCEPT !.at = "effect"]
    /\ runtime' = m

Unmoved == UNCHANGED <<mailbox, response, client, received, forgotten>>

\* Wake: one step, which may start and complete tasks, complete a success,
\* fail, or leave an effect to be dispatched.
drive_once(d) ==
    LET m == retry_pending_lifecycle(runtime)
    IN  /\ Handles(d, "Wake")
        /\ \/ Blocked(m) /\ Finish(d, "Backpressured", m)
           \/ /\ ~Blocked(m)
              /\ \/ \E n \in 0..2 : /\ Within(m, n)
                                    /\ LET e == Emit(m, n)
                                       IN  \/ Blocked(e) /\ Finish(d, "Backpressured", e)
                                           \/ ~Blocked(e) /\ Finish(d, "Ok", e)
                                           \/ ~Blocked(e) /\ n < 2 /\ Finish(d, "Error", e)
                                           \/ /\ ~Blocked(e) /\ n < 2 /\ Within(e, 1)
                                              /\ AwaitEffect(d, e)
                 \/ /\ m.succeeded > 0
                    /\ LET e == Settle(m, 1)
                       IN  Finish(d, IF Blocked(e) THEN "Backpressured" ELSE "Ok", e)
        /\ Unmoved

\* DispatchEffect: it may admit an attempt first.
dispatch_effect_now(d) ==
    LET m == retry_pending_lifecycle(runtime)
    IN  /\ Handles(d, "DispatchEffect")
        /\ \/ Blocked(m) /\ Finish(d, "Error", m)
           \/ /\ ~Blocked(m)
              /\ \E n \in 0..1 : /\ Within(m, n)
                                 /\ \/ Finish(d, "Error", Emit(m, n))
                                    \/ /\ ~Blocked(Emit(m, n)) /\ Within(m, n + 1)
                                       /\ AwaitEffect(d, Emit(m, n))
        /\ Unmoved

\* The adapter's future resolves: known outcome, unknown, or not recorded.
effect_resolves(d) ==
    /\ d.at = "effect"
    /\ \/ Finish(d, "Ok", [runtime EXCEPT !.succeeded = @ + 1])
       \/ Finish(d, "Ok", runtime)
       \/ Finish(d, "Error", runtime)
    /\ Unmoved

\* Mutant: a recovery does not retry the returned item first.
recover_now_unretried(d) ==
    /\ Handles(d, "Recover")
    /\ \/ \E tag \in {"Ok", "Error"} : Finish(d, tag, runtime)
       \/ runtime.succeeded > 0 /\ Finish(d, "Ok", Settle(runtime, 1))
    /\ Unmoved

recover_now(d) ==
    LET m == retry_pending_lifecycle(runtime)
    IN  /\ Handles(d, "Recover")
        /\ \/ Finish(d, "Error", m)
           \/ ~Blocked(m) /\ Finish(d, "Ok", m)
           \/ /\ ~Blocked(m) /\ m.succeeded > 0
              /\ LET e == Settle(m, 1) IN Finish(d, IF Blocked(e) THEN "Error" ELSE "Ok", e)
        /\ Unmoved

cancel_now(d) ==
    /\ Handles(d, "CancelTask")
    /\ \E tag \in {"Ok", "Error"} : Finish(d, tag, runtime)
    /\ Unmoved

drain_execution_events(d) ==
    /\ Handles(d, "DrainExecutionEvents")
    /\ driver' = [d EXCEPT !.at = "reply", !.then = "next",
                           !.result = [tag |-> "Ok", items |-> runtime.execution_events]]
    /\ runtime' = [runtime EXCEPT !.execution_events = <<>>]
    /\ Unmoved

\* Mutant: a shutdown stops settling at the first error and still succeeds.
shutdown_now_hasty(d) ==
    LET m == retry_pending_lifecycle(runtime)
    IN  /\ Handles(d, "Shutdown")
        /\ \E n \in 0..m.succeeded :
              LET e == Settle(m, n)
              IN  /\ driver' = [d EXCEPT !.at = "reply", !.result = Answer("Ok"),
                                         !.then = "close", !.final = e.execution_events]
                  /\ runtime' = [e EXCEPT !.execution_events = <<>>]
        /\ Unmoved

\* shutdown_now, and what run does with its result: every known success is
\* completed; if all of it succeeds the final events are drained.
shutdown_now(d) ==
    LET m == retry_pending_lifecycle(runtime)
    IN  /\ Handles(d, "Shutdown")
        /\ \/ Blocked(m) /\ Finish(d, "Error", m)
           \/ /\ ~Blocked(m)
              /\ \E n \in 0..m.succeeded :
                    LET e == Settle(m, n)
                    IN  \/ Finish(d, "Error", e)
                        \/ /\ n = m.succeeded /\ ~Blocked(e)
                           /\ driver' = [d EXCEPT !.at = "reply", !.result = Answer("Ok"),
                                                  !.then = "close", !.final = e.execution_events]
                           /\ runtime' = [e EXCEPT !.execution_events = <<>>]
        /\ Unmoved
----------------------------------------------------------------------------
(* The owner: closing, and being dropped *)

\* close_and_reject_pending, up to the end of its critical section.
close(d) ==
    /\ d.at = "close"
    /\ closed' = TRUE /\ waker' = FALSE
    /\ shutdown_execution_events' = d.final
    /\ commands' = <<>>
    /\ driver' = [d EXCEPT !.at = "closing", !.rest = commands, !.final = <<>>]
    /\ UNCHANGED <<owner_dropped, response, client, runtime, received, forgotten>>

\* The commands that were still queued; after the last one run() returns.
reject_pending(d) ==
    /\ d.at = "closing"
    /\ \/ /\ d.rest = <<>>
          /\ driver' = [d EXCEPT !.at = "return"]
          /\ UNCHANGED shutdown_execution_events
       \/ /\ d.rest # <<>>
          /\ driver' = [d EXCEPT !.at = "reply", !.then = "closing",
                                 !.command = Head(d.rest), !.rest = Tail(d.rest),
                                 !.result = AfterClose(Head(d.rest).kind)]
          /\ take_shutdown_execution_events(Head(d.rest).kind)
    /\ UNCHANGED <<commands, closed, owner_dropped, waker, response, client,
                   runtime, received, forgotten>>

\* The owner is dropped, aborted or panics, also before its first poll.
lose_owner(d) ==
    /\ d.at \in {"next", "parked", "handle", "effect"}
    /\ driver' = [d EXCEPT !.at = "unwind"]
    /\ UNCHANGED <<mailbox, response, client, runtime, received, forgotten>>

\* The locals of run() go first, and with them the reply it holds.
unwind_reply(d) ==
    /\ d.at = "unwind" /\ d.command # None
    /\ drop_sender(d.command.reply)
    /\ driver' = [d EXCEPT !.command = None]
    /\ UNCHANGED <<mailbox, runtime, received, forgotten>>

\* Mutant: the guard closes the mailbox and leaves the commands in it.
drop_owner_guard_keeping(d) ==
    /\ (d.at = "unwind" /\ d.command = None) \/ d.at = "return"
    /\ closed' = TRUE /\ owner_dropped' = ~closed /\ waker' = FALSE
    /\ driver' = [d EXCEPT !.at = IF closed THEN "exited" ELSE "lost"]
    /\ UNCHANGED <<commands, shutdown_execution_events, response, client, runtime, received, forgotten>>

\* Drop for DriverOwnerGuard, up to the end of its critical section; it also
\* runs when run() returns.
drop_owner_guard(d) ==
    /\ (d.at = "unwind" /\ d.command = None) \/ d.at = "return"
    /\ \/ /\ closed
          /\ driver' = [d EXCEPT !.at = "exited"]
          /\ UNCHANGED mailbox
       \/ /\ ~closed
          /\ closed' = TRUE /\ owner_dropped' = TRUE /\ waker' = FALSE
          /\ commands' = <<>>
          /\ driver' = [d EXCEPT !.at = "lost", !.rest = commands]
          /\ UNCHANGED shutdown_execution_events
    /\ UNCHANGED <<response, client, runtime, received, forgotten>>

reject_lost(d) ==
    /\ d.at = "lost" /\ d.rest # <<>>
    /\ driver' = [d EXCEPT !.at = "reply", !.then = "lost", !.command = Head(d.rest),
                           !.rest = Tail(d.rest), !.result = Answer("OwnerDropped")]
    /\ UNCHANGED <<mailbox, response, client, runtime, received, forgotten>>
----------------------------------------------------------------------------
ClientStep(c) == wake(c) \/ answer_rejected(c) \/ poll(c)

run(d) ==
    \/ next(d) \/ reply(d) \/ replied(d)
    \/ drive_once(d) \/ dispatch_effect_now(d) \/ effect_resolves(d)
    \/ recover_now(d) \/ cancel_now(d) \/ drain_execution_events(d) \/ shutdown_now(d)
    \/ close(d) \/ reject_pending(d)
    \/ unwind_reply(d) \/ drop_owner_guard(d) \/ reject_lost(d)

Next ==
    \/ \E c \in Clients : \/ \E kind \in Kinds : submit(c, kind)
                          \/ ClientStep(c)
                          \/ abandon(c)
    \/ run(driver)
    \/ lose_owner(driver)

Spec == Init /\ [][Next]_vars

\* Tasks that can run are run; the adapter's futures resolve.
FairSpec == /\ Spec
            /\ WF_vars(run(driver))
            /\ \A c \in Clients : WF_vars(ClientStep(c))
----------------------------------------------------------------------------
(* Properties *)

\* Every variable has the shape of the field it stands for; the buffer is
\* within its capacity.
TypeOK ==
    /\ commands \in Seq(Command)
    /\ closed \in BOOLEAN /\ owner_dropped \in BOOLEAN /\ waker \in BOOLEAN
    /\ shutdown_execution_events \in Seq(1..MaxItems)
    /\ response \in [Channel -> [result : Result \cup {None}, waker : BOOLEAN]]
    /\ client \in [Clients -> ClientState]
    /\ driver \in DriverState
    /\ runtime \in RuntimeState
    /\ Len(runtime.execution_events) <= Capacity
    /\ received \subseteq 1..MaxItems /\ forgotten \subseteq 1..MaxItems

\* Some sender of ch is left: in the mailbox or with the owner.
Owed(ch) == Queued(ch) \/ InHand(ch)

\* No wake-up is lost: an owner that sleeps has no command waiting unless its
\* waker is about to be called, and a client that sleeps has registered for a
\* response that is still owed and not there yet.
NoLostWakeup ==
    /\ driver.at = "parked" /\ ~driver.woken =>
          IF commands = <<>> THEN waker \/ \E c \in Clients : client[c].at = "wake"
          ELSE \E c \in Clients : client[c].at = "wake"
    /\ \A c \in Clients : client[c].at = "parked" /\ ~client[c].woken =>
          LET ch == client[c].command.reply
          IN  response[ch].result = None /\ response[ch].waker /\ Owed(ch)

\* A future resolves to OwnerDropped only when the owner is lost, although a
\* sender dropped after its result was taken leaves that answer behind, and to
\* ShuttingDown only after an orderly shutdown.
TruthfulAnswers ==
    \A c \in Clients :
        LET result == response[<<c, client[c].turn>>].result
        IN  client[c].at # "idle" /\ result # None =>
              /\ result.tag = "OwnerDropped" => owner_dropped \/ driver.at = "unwind"
              /\ result.tag = "ShuttingDown" => closed /\ ~owner_dropped

\* Items in the response a client awaits, and in the reply the owner holds.
InResponse(c) ==
    LET result == response[<<c, client[c].turn>>].result
    IN  IF client[c].at = "idle" \/ result = None THEN {} ELSE ItemsIn(result.items)
InReply == IF driver.result = None THEN {} ELSE ItemsIn(driver.result.items)

\* The items some drain has taken.
HandedOut == received \cup forgotten \cup InReply \cup UNION {InResponse(c) : c \in Clients}

\* The items still to be drained, oldest first.
Kept ==
    driver.final \o shutdown_execution_events \o runtime.execution_events
        \o (IF Blocked(runtime) THEN <<runtime.pending_lifecycle>> ELSE <<>>)

\* Every lifecycle item is in exactly one place, shutdown included: with one
\* drain, with the mailbox for a drain after the shutdown, buffered or pending.
EveryItemOnce ==
    /\ HandedOut \cup ItemsIn(Kept) = 1..runtime.emitted
    /\ HandedOut \cap ItemsIn(Kept) = {}
    /\ received \cap forgotten = {}
    /\ InReply \cap (received \cup forgotten) = {}
    /\ \A c \in Clients :
          /\ InResponse(c) \cap (received \cup forgotten \cup InReply) = {}
          /\ \A e \in Clients \ {c} : InResponse(c) \cap InResponse(e) = {}

\* Drains see lifecycle items in the order of their emission, whatever calls
\* met backpressure in between.
LosslessOrder ==
    \A i \in 1..Len(Kept) :
        /\ \A j \in 1..(i - 1) : Kept[j] < Kept[i]
        /\ \A n \in HandedOut : n < Kept[i]

\* run() returns after everything was settled: no command waits, nothing is
\* pending, every known success has its completion, and the owner is not lost.
ExitIsComplete ==
    driver.at \in {"return", "exited"} =>
        /\ closed /\ ~owner_dropped
        /\ commands = <<>> /\ driver.rest = <<>>
        /\ runtime.execution_events = <<>> /\ ~Blocked(runtime) /\ runtime.succeeded = 0

\* Every command a client awaits is answered, by the owner, by its shutdown,
\* or by its loss.
EveryCommandAnswered ==
    \A c \in Clients : client[c].at # "idle" ~> client[c].at = "idle"
============================================================================
