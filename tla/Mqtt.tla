-------------------------------- MODULE Mqtt --------------------------------
(***************************************************************************)
(* mqtt.go: runs of Expect, one per request to power a device, over one    *)
(* shared MQTT client.                                                     *)
(*                                                                         *)
(* A run obtains the client (which starts the read loop when none runs),   *)
(* subscribes to the topic of the answer, publishes its command, and reads *)
(* what the listenGroup copies to it until its context ends the            *)
(* subscription.  The read loop hands messages to a publisher goroutine    *)
(* through a buffered channel and dies with the first error; the next run  *)
(* starts another, so the publishers of two read loops can overlap.        *)
(*                                                                         *)
(* ListenGroup supplies the group; a subscription is named by its run.     *)
(* The client (github.com/go-mqtt/mqtt), broker and network are external:  *)
(* a call succeeds, fails, or is cancelled when its quit channel closes.   *)
(***************************************************************************)
EXTENDS ListenGroup

CONSTANTS
    Expecting,  \* the runs with an e.Recv: their device answers
    Wanted(_),  \* the messages that satisfy run r: its topic and payload
    BufLen,     \* length of the channel between read loop and publisher
    MaxLoops,   \* bound on the read loops started
    MaxReads    \* bound on the messages the read loops read

ASSUME BoundAssumption ==
    /\ BufLen \in Nat \ {0} /\ MaxReads \in 0..MaxLog
    /\ MaxLoops \in Nat \ {0}
    /\ Pubs = 1..MaxLoops               \* the publisher of the n-th read loop

VARIABLES
    pc,         \* runs
    answered,   \* runs that received a message they wanted
    result,     \* what a finished run returned
    cmu,        \* m.cmu: the run that holds it, or Nil
    loop,       \* the read loops started so far; the last may be running
    rmu,        \* the state of the last read loop
    buf,        \* n -> the messages in the channel of the n-th read loop
    eof,        \* read loops whose channel was closed
    ended,      \* read loops whose publisher returned
    reads,      \* the messages read so far
    \* History:
    sent        \* runs whose command the client accepted

Runs == Subs
runVars == <<pc, answered, result, sent>>
loopVars == <<cmu, loop, rmu, buf, eof, ended, reads>>
vars == <<groupVars, runVars, loopVars>>

PCs == {"idle", "lockToSubscribe", "helloToSubscribe", "subscribe", "join",
        "lockToPublish", "helloToPublish", "publish", "range", "cancel", "done"}

\* The type invariant.
TypeOK ==
    /\ GroupTypeOK
    /\ pc \in [Runs -> PCs]
    /\ answered \in SUBSET Runs /\ sent \in SUBSET Runs
    /\ result \in [Runs -> {"none", "ok", "failed", "abandoned", "timeout"}]
    /\ cmu \in Runs \cup {Nil}
    /\ loop \in 0..MaxLoops
    /\ rmu \in {"free", "reading", "leaving"}
    /\ buf \in [Pubs -> Seq(Msgs)]
    /\ \A n \in Pubs : Len(buf[n]) <= BufLen
    /\ eof \in SUBSET Pubs /\ ended \in SUBSET Pubs
    /\ reads \in 0..MaxReads

Init ==
    /\ GroupInit
    /\ pc = [r \in Runs |-> "idle"]
    /\ answered = {} /\ sent = {}
    /\ result = [r \in Runs |-> "none"]
    /\ cmu = Nil /\ loop = 0 /\ rmu = "free"
    /\ buf = [n \in Pubs |-> <<>>]
    /\ eof = {} /\ ended = {} /\ reads = 0

Goto(r, place) == pc' = [pc EXCEPT ![r] = place]

\* The run returns, and its deferred cancel closes quit.
Return(r, how) ==
    /\ Goto(r, "done")
    /\ result' = [result EXCEPT ![r] = how]
    /\ quit' = quit \cup {r}
quitUnchanged == UNCHANGED <<mu, group, chan, held, todo, log, from, got>>

----------------------------------------------------------------------------
(* client and the start of readLoop *)

\* A device whose command expects an answer subscribes first; one whose command
\* does not only publishes.
Start(r) ==
    /\ pc[r] = "idle"
    /\ Goto(r, IF r \in Expecting THEN "lockToSubscribe" ELSE "lockToPublish")
    /\ UNCHANGED <<groupVars, answered, result, sent, loopVars>>

\* m.client: under cmu, and when rmu can be taken, the read loop and its
\* publisher are started and the run announces itself before it unlocks.
Locks == [r \in {"lockToSubscribe", "lockToPublish"} |->
            IF r = "lockToSubscribe" THEN <<"helloToSubscribe", "subscribe">>
            ELSE <<"helloToPublish", "publish">>]

\* Fault: readLoop starts a loop whatever rmu says.
LoopIsFree_Always == TRUE
\* m.rmu.TryLock.
LoopIsFree == rmu = "free"

Client(r) ==
    /\ pc[r] \in DOMAIN Locks
    /\ cmu = Nil
    /\ IF LoopIsFree
       THEN /\ loop < MaxLoops
            /\ loop' = loop + 1
            /\ rmu' = "reading"
            /\ cmu' = r
            /\ Goto(r, Locks[pc[r]][1])
       ELSE /\ Goto(r, Locks[pc[r]][2])
            /\ UNCHANGED <<cmu, loop, rmu>>
    /\ UNCHANGED <<groupVars, answered, result, sent, buf, eof, ended, reads>>

\* Fault: m.cmu stays locked.
Hello_KeepsLock(r) ==
    /\ pc[r] \in {"helloToSubscribe", "helloToPublish"}
    /\ Goto(r, IF pc[r] = "helloToSubscribe" THEN "subscribe" ELSE "publish")
    /\ UNCHANGED <<groupVars, answered, result, sent, loopVars>>
\* c.PublishRetained(nil, ...) returns; its outcome is ignored.
Hello(r) ==
    /\ pc[r] \in {"helloToSubscribe", "helloToPublish"}
    /\ Goto(r, IF pc[r] = "helloToSubscribe" THEN "subscribe" ELSE "publish")
    /\ cmu' = Nil
    /\ UNCHANGED <<groupVars, answered, result, sent, loop, rmu, buf, eof, ended, reads>>

\* mqtt.VolatileSession rejects the configuration: no loop was ever started.
ClientFails(r) ==
    /\ pc[r] \in DOMAIN Locks
    /\ cmu = Nil /\ loop = 0
    /\ Return(r, "failed")
    /\ quitUnchanged
    /\ UNCHANGED <<answered, sent, loopVars>>

----------------------------------------------------------------------------
(* Expect.Run *)

\* Mqtt.subscribe: nothing is ever written to m.topics, so every run asks the
\* client to subscribe, also for a filter that is subscribed already.
SubscribeTopic(r) ==
    /\ pc[r] = "subscribe"
    /\ Goto(r, "join")
    /\ UNCHANGED <<groupVars, answered, result, sent, loopVars>>

SubscribeTopicFails(r) ==
    /\ pc[r] = "subscribe"
    /\ Return(r, "failed")
    /\ quitUnchanged
    /\ UNCHANGED <<answered, sent, loopVars>>

\* Fault: a run joins the group again for its command.
JoinGroup_Twice(r) ==
    /\ pc[r] \in {"join", "publish"}
    /\ mu = Nil /\ r \notin group
    /\ chan' = [chan EXCEPT ![r] = "open"]
    /\ group' = group \cup {r}
    /\ UNCHANGED <<mu, quit, held, todo, log, from, got>>
    /\ Goto(r, "lockToPublish")
    /\ UNCHANGED <<answered, result, sent, loopVars>>
\* m.subs.subscribe
JoinGroup(r) ==
    /\ pc[r] = "join"
    /\ Subscribe(r)
    /\ Goto(r, "lockToPublish")
    /\ UNCHANGED <<answered, result, sent, loopVars>>

\* Fault: a run that expects an answer does not wait for it.
PublishCommand_NoWait(r) ==
    /\ pc[r] = "publish"
    /\ sent' = sent \cup {r}
    /\ Return(r, "ok") /\ quitUnchanged
    /\ UNCHANGED <<answered, loopVars>>
PublishCommand(r) ==
    /\ pc[r] = "publish"
    /\ sent' = sent \cup {r}
    /\ IF chan[r] = "none"
       THEN Return(r, "ok") /\ quitUnchanged
       ELSE Goto(r, "range") /\ UNCHANGED <<groupVars, result>>
    /\ UNCHANGED <<answered, loopVars>>

\* The command was refused, or cancelled by the timeout: Run returns and leaves
\* its channel, if it has one, unread.
PublishCommandFails(r) ==
    /\ pc[r] = "publish"
    /\ Return(r, IF chan[r] = "none" THEN "failed" ELSE "abandoned")
    /\ quitUnchanged
    /\ UNCHANGED <<answered, sent, loopVars>>

\* The five seconds are over, or the request that asked for the run is gone.
Timeout(r) ==
    /\ pc[r] \notin {"idle", "done"} /\ r \notin quit
    /\ quit' = quit \cup {r}
    /\ quitUnchanged
    /\ UNCHANGED <<runVars, loopVars>>

\* Fault: any message on the channel counts as the answer.
Satisfies_Any(r, m) == TRUE
\* m.Topic == e.Recv.Topic, and the payload, if one is expected.
Satisfies(r, m) == m \in Wanted(r)

\* for m := range msgs: the run meets a publisher.
Receive(p, r) ==
    /\ pc[r] = "range"
    /\ Send(p, r)
    /\ IF Satisfies(r, held[p])
       THEN answered' = answered \cup {r} /\ Goto(r, "cancel")
       ELSE UNCHANGED <<answered, pc>>
    /\ UNCHANGED <<result, sent, loopVars>>

\* The answer cancels the context; the run reads on until the channel is closed.
Cancel(r) ==
    /\ pc[r] = "cancel"
    /\ quit' = quit \cup {r} /\ quitUnchanged
    /\ Goto(r, "range")
    /\ UNCHANGED <<answered, result, sent, loopVars>>

RangeEnds(r) ==
    /\ pc[r] = "range" /\ chan[r] = "closed"
    /\ Return(r, IF r \in answered THEN "ok" ELSE "timeout")
    /\ quitUnchanged
    /\ UNCHANGED <<answered, sent, loopVars>>

----------------------------------------------------------------------------
(* The read loop and its publisher *)

\* Fault: the message is queued however many wait.
Enqueue_Unbounded(b, m) == Append(b, m)
\* select with a default: a message that finds the buffer full is discarded.
Enqueue(b, m) == IF Len(b) < BufLen THEN Append(b, m) ELSE b

Read(m) ==
    /\ rmu = "reading"
    /\ reads < MaxReads
    /\ reads' = reads + 1
    /\ buf' = [buf EXCEPT ![loop] = Enqueue(@, m)]
    /\ UNCHANGED <<groupVars, runVars, cmu, loop, rmu, eof, ended>>

\* ReadSlices fails: the loop closes its channel, then unlocks rmu.
ReadFails ==
    /\ rmu = "reading"
    /\ loop < MaxLoops
    /\ rmu' = "leaving"
    /\ eof' = eof \cup {loop}
    /\ UNCHANGED <<groupVars, runVars, cmu, loop, buf, ended, reads>>

LeaveLoop ==
    /\ rmu = "leaving"
    /\ rmu' = "free"
    /\ UNCHANGED <<groupVars, runVars, cmu, loop, buf, eof, ended, reads>>

\* for msg := range messages
TakeNext(n) ==
    /\ n \in 1..loop /\ buf[n] # <<>>
    /\ Take(n, Head(buf[n]))
    /\ buf' = [buf EXCEPT ![n] = Tail(@)]
    /\ UNCHANGED <<runVars, cmu, loop, rmu, eof, ended, reads>>

PublisherEnds(n) ==
    /\ n \in eof \ ended /\ buf[n] = <<>> /\ held[n] = Nil
    /\ ended' = ended \cup {n}
    /\ UNCHANGED <<groupVars, runVars, cmu, loop, rmu, buf, eof, reads>>

GroupStep(A) == A /\ UNCHANGED <<runVars, loopVars>>

Publisher(n) ==
    \/ TakeNext(n) \/ PublisherEnds(n)
    \/ GroupStep(Lock(n)) \/ GroupStep(Unlock(n))
    \/ \E r \in Runs : Receive(n, r)

Unsubscriber(r) == GroupStep(Unsubscribe(r))

Run(r) ==
    \/ Client(r) \/ Hello(r) \/ ClientFails(r)
    \/ SubscribeTopic(r) \/ SubscribeTopicFails(r) \/ JoinGroup(r)
    \/ PublishCommand(r) \/ PublishCommandFails(r)
    \/ Cancel(r) \/ RangeEnds(r)

Next ==
    \/ \E r \in Runs : Start(r) \/ Run(r) \/ Timeout(r) \/ Unsubscriber(r)
    \/ \E m \in Msgs : Read(m)
    \/ ReadFails \/ LeaveLoop
    \/ \E n \in Pubs : Publisher(n)

Spec == Init /\ [][Next]_vars

\* Every goroutine keeps running, calls of the client return, a mutex starves no
\* waiter, and the context of a run times out; no message has to arrive and no
\* connection has to fail.  A run takes finitely many steps, so what is fair to
\* the runs together is fair to each.
FairSpec ==
    /\ Spec
    /\ SF_vars(\E r \in Runs : Run(r))
    /\ WF_vars(\E r \in Runs : Timeout(r))
    /\ SF_vars(\E r \in Runs : Unsubscriber(r))
    /\ \A n \in Pubs : WF_vars(Publisher(n))
    /\ WF_vars(LeaveLoop)

----------------------------------------------------------------------------
(* Correctness. *)

\* A run that subscribed reports success only after the client took its command
\* and a message it wanted was copied to it; one that published only, after the
\* command was taken.
SuccessIsEarned ==
    \A r \in Runs : result[r] = "ok" =>
        /\ r \in sent
        /\ chan[r] # "none" => \E k \in 1..Len(got[r]) : got[r][k] \in Wanted(r)

\* One goroutine at a time reads from the client, and only it writes to its
\* channel: every earlier read loop has closed its own.
OneReader ==
    /\ \A n \in 1..loop : n \notin eof => n = loop /\ rmu = "reading"
    /\ rmu = "reading" => loop \notin eof

\* Every run that starts ends, whatever the read loops, the other runs and the
\* locks do, unless some run failed to publish and abandoned its channel.
Abandoned == \E r \in Runs : result[r] = "abandoned"
RunsEnd == []<>(Abandoned \/ \A r \in Runs : pc[r] \in {"idle", "done"})

\* The runs use the group as it allows, so what holds of the group holds here.
UsesGroup == GroupSpec

\* "closing quit will cause msgs to be closed" (mqtt.go:159).
ClosingQuitClosesMsgs ==
    \A r \in Runs : (r \in quit /\ chan[r] = "open") ~> chan[r] = "closed"
=============================================================================
