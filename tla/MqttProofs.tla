----------------------------- MODULE MqttProofs -----------------------------
(***************************************************************************)
(* Theorems about Mqtt, for any number of runs, read loops and messages.   *)
(*                                                                         *)
(* Every step of Mqtt is a step of ListenGroup or leaves the group alone   *)
(* (GroupStepOfMqtt), so Mqtt implements GroupSpec, and what holds of the  *)
(* group with subscribers that keep the contract holds of it under Expect. *)
(***************************************************************************)
EXTENDS Mqtt, ListenGroupProofs

USE DEF Runs

\* What a run's place in Expect.Run tells of its channel and its command.
RunShape ==
    \A r \in Runs :
        /\ pc[r] \in {"range", "cancel"} => r \in sent /\ chan[r] # "none"
        /\ result[r] # "none" => pc[r] = "done"
        /\ r \in answered => \E k \in 1..Len(got[r]) : got[r][k] \in Wanted(r)

LoopShape ==
    /\ eof \subseteq 1..loop
    /\ rmu # "free" => loop >= 1

MqttInv == TypeOK /\ GroupInv /\ RunShape /\ LoopShape /\ SuccessIsEarned /\ OneReader

----------------------------------------------------------------------------
(* The group below the runs. *)

\* To the group, a run that returns closes its quit channel, or closed it before.
LEMMA ReturnClosesQuit ==
    ASSUME TypeOK, NEW r \in Runs, NEW how, Return(r, how), quitUnchanged
    PROVE  [GroupNext]_groupVars
  <1>1. CASE r \in quit
    BY <1>1 DEF Return, quitUnchanged, groupVars
  <1>2. CASE r \notin quit
    <2>1. CloseQuit(r)
      BY <1>2 DEF Return, quitUnchanged, CloseQuit
    <2> QED BY <2>1 DEF GroupNext
  <1> QED BY <1>1, <1>2

\* A step of Mqtt is a step of the group, or leaves the group alone.
LEMMA GroupStepOfMqtt ==
    ASSUME TypeOK, [Next]_vars
    PROVE  [GroupNext]_groupVars
  <1>1. ASSUME NEW r \in Runs, Start(r) PROVE [GroupNext]_groupVars
    BY <1>1 DEF Start
  <1>2. ASSUME NEW r \in Runs, Run(r) PROVE [GroupNext]_groupVars
    <2>1. CASE Client(r)
      BY <2>1 DEF Client
    <2>2. CASE Hello(r)
      BY <2>2 DEF Hello
    <2>3. CASE ClientFails(r)
      BY <2>3, ReturnClosesQuit DEF ClientFails
    <2>4. CASE SubscribeTopic(r)
      BY <2>4 DEF SubscribeTopic
    <2>5. CASE SubscribeTopicFails(r)
      BY <2>5, ReturnClosesQuit DEF SubscribeTopicFails
    <2>6. CASE JoinGroup(r)
      BY <2>6 DEF JoinGroup, GroupNext
    <2>7. CASE PublishCommand(r)
      BY <2>7, ReturnClosesQuit DEF PublishCommand
    <2>8. CASE PublishCommandFails(r)
      BY <2>8, ReturnClosesQuit DEF PublishCommandFails
    <2>9. CASE Cancel(r)
      <3>1. CASE r \in quit
        BY <2>9, <3>1 DEF Cancel, quitUnchanged, groupVars
      <3>2. CASE r \notin quit
        <4>1. CloseQuit(r)
          BY <2>9, <3>2 DEF Cancel, quitUnchanged, CloseQuit
        <4> QED BY <4>1 DEF GroupNext
      <3> QED BY <3>1, <3>2
    <2>10. CASE RangeEnds(r)
      BY <2>10, ReturnClosesQuit DEF RangeEnds
    <2> QED BY <1>2, <2>1, <2>2, <2>3, <2>4, <2>5, <2>6, <2>7, <2>8, <2>9, <2>10 DEF Run
  <1>3. ASSUME NEW r \in Runs, Timeout(r) PROVE [GroupNext]_groupVars
    <2>1. CloseQuit(r)
      BY <1>3 DEF Timeout, quitUnchanged, CloseQuit
    <2> QED BY <2>1 DEF GroupNext
  <1>4. ASSUME NEW r \in Runs, Unsubscriber(r) PROVE [GroupNext]_groupVars
    BY <1>4 DEF Unsubscriber, GroupStep, GroupNext
  <1>5. ASSUME NEW m \in Msgs, Read(m) PROVE [GroupNext]_groupVars
    BY <1>5 DEF Read
  <1>6. ASSUME ReadFails \/ LeaveLoop PROVE [GroupNext]_groupVars
    BY <1>6 DEF ReadFails, LeaveLoop
  <1>7. ASSUME NEW n \in Pubs, Publisher(n) PROVE [GroupNext]_groupVars
    <2>1. CASE TakeNext(n)
      <3>1. Head(buf[n]) \in Msgs
        BY <2>1, HeadTailProperties DEF TakeNext, TypeOK
      <3> QED BY <2>1, <3>1 DEF TakeNext, GroupNext
    <2>2. CASE PublisherEnds(n)
      BY <2>2 DEF PublisherEnds
    <2>3. CASE GroupStep(Lock(n)) \/ GroupStep(Unlock(n))
      BY <2>3 DEF GroupStep, GroupNext, Publish
    <2>4. ASSUME NEW r \in Runs, Receive(n, r) PROVE [GroupNext]_groupVars
      BY <2>4 DEF Receive, GroupNext, Publish
    <2> QED BY <1>7, <2>1, <2>2, <2>3, <2>4 DEF Publisher
  <1>8. ASSUME UNCHANGED vars PROVE [GroupNext]_groupVars
    BY <1>8 DEF vars
  <1> QED BY <1>1, <1>2, <1>3, <1>4, <1>5, <1>6, <1>7, <1>8 DEF Next

----------------------------------------------------------------------------
(* The invariant. *)

\* Nothing runs at first, and the broker has sent nothing.
LEMMA MqttInitInv == Init => MqttInv
  <1> SUFFICES ASSUME Init PROVE MqttInv
    OBVIOUS
  <1>1. GroupInv
    BY GroupInitInv DEF Init
  <1>2. TypeOK
    BY <1>1, BoundAssumption DEF Init, TypeOK, GroupInv, PCs
  <1>3. RunShape /\ SuccessIsEarned
    BY DEF Init, RunShape, SuccessIsEarned
  <1>4. LoopShape /\ OneReader
    BY DEF Init, LoopShape, OneReader
  <1> QED BY <1>1, <1>2, <1>3, <1>4 DEF MqttInv

\* Every step keeps the types.
LEMMA MqttTyped ==
    ASSUME TypeOK, GroupTypeOK', LoopShape, [Next]_vars
    PROVE  TypeOK'
  <1> USE DEF TypeOK, PCs
  <1>1. ASSUME NEW r \in Runs, Start(r) PROVE TypeOK'
    BY <1>1 DEF Start, Goto, loopVars
  <1>2. ASSUME NEW r \in Runs, Run(r) PROVE TypeOK'
    <2>1. CASE Client(r)
      <3>1. DOMAIN Locks = {"lockToSubscribe", "lockToPublish"}
        BY DEF Locks
      <3>2. /\ Locks[pc[r]][1] \in {"helloToSubscribe", "helloToPublish"}
            /\ Locks[pc[r]][2] \in {"subscribe", "publish"}
        BY <2>1, <3>1 DEF Client, Locks
      <3>3. /\ loop' \in 0..MaxLoops /\ rmu' \in {"free", "reading", "leaving"}
            /\ cmu' \in Runs \cup {Nil}
        BY <2>1, BoundAssumption DEF Client
      <3>4. pc' \in [Runs -> PCs]
        <4>1. \E place \in PCs : pc' = [pc EXCEPT ![r] = place]
          BY <2>1, <3>2 DEF Client, Goto
        <4> QED BY <4>1
      <3> QED BY <2>1, <3>3, <3>4 DEF Client
    <2>2. CASE Hello(r)
      BY <2>2 DEF Hello, Goto
    <2>3. CASE ClientFails(r)
      BY <2>3 DEF ClientFails, Return, Goto, loopVars
    <2>4. CASE SubscribeTopic(r)
      BY <2>4 DEF SubscribeTopic, Goto, loopVars
    <2>5. CASE SubscribeTopicFails(r)
      BY <2>5 DEF SubscribeTopicFails, Return, Goto, loopVars
    <2>6. CASE JoinGroup(r)
      BY <2>6 DEF JoinGroup, Goto, loopVars
    <2>7. CASE PublishCommand(r)
      BY <2>7 DEF PublishCommand, Return, Goto, loopVars
    <2>8. CASE PublishCommandFails(r)
      BY <2>8 DEF PublishCommandFails, Return, Goto, loopVars
    <2>9. CASE Cancel(r)
      BY <2>9 DEF Cancel, Goto, loopVars
    <2>10. CASE RangeEnds(r)
      BY <2>10 DEF RangeEnds, Return, Goto, loopVars
    <2> QED BY <1>2, <2>1, <2>2, <2>3, <2>4, <2>5, <2>6, <2>7, <2>8, <2>9, <2>10 DEF Run
  <1>3. ASSUME NEW r \in Runs, Timeout(r) PROVE TypeOK'
    BY <1>3 DEF Timeout, runVars, loopVars
  <1>4. ASSUME NEW r \in Runs, Unsubscriber(r) PROVE TypeOK'
    BY <1>4 DEF Unsubscriber, GroupStep, runVars, loopVars
  <1>5. ASSUME NEW m \in Msgs, Read(m) PROVE TypeOK'
    <2>1. \A n \in Pubs : Enqueue(buf[n], m) \in Seq(Msgs) /\ Len(Enqueue(buf[n], m)) <= BufLen
      <3> SUFFICES ASSUME NEW n \in Pubs
                   PROVE  /\ Enqueue(buf[n], m) \in Seq(Msgs)
                          /\ Len(Enqueue(buf[n], m)) <= BufLen
        OBVIOUS
      <3>1. /\ Append(buf[n], m) \in Seq(Msgs)
            /\ Len(Append(buf[n], m)) = Len(buf[n]) + 1
        BY AppendProperties
      <3> QED BY <3>1, BoundAssumption, LenProperties DEF Enqueue
    <2>2. \A n \in Pubs : buf'[n] \in {buf[n], Enqueue(buf[n], m)}
      BY <1>5 DEF Read
    <2>3. buf' \in [Pubs -> Seq(Msgs)] /\ \A n \in Pubs : Len(buf'[n]) <= BufLen
      BY <1>5, <2>1, <2>2 DEF Read
    <2>4. reads' \in 0..MaxReads
      BY <1>5, BoundAssumption, MaxLogAssumption DEF Read
    <2> QED BY <1>5, <2>3, <2>4 DEF Read, runVars
  <1>6. ASSUME ReadFails \/ LeaveLoop PROVE TypeOK'
    <2>1. CASE ReadFails
      <3>1. loop >= 1
        BY <2>1 DEF ReadFails, LoopShape
      <3>2. loop \in Pubs
        BY <3>1, BoundAssumption
      <3> QED BY <2>1, <3>1, <3>2 DEF ReadFails, runVars
    <2>2. CASE LeaveLoop
      BY <2>2 DEF LeaveLoop, runVars
    <2> QED BY <1>6, <2>1, <2>2
  <1>7. ASSUME NEW n \in Pubs, Publisher(n) PROVE TypeOK'
    <2>1. CASE TakeNext(n)
      <3>1. Tail(buf[n]) \in Seq(Msgs) /\ Len(Tail(buf[n])) <= BufLen
        BY <2>1, HeadTailProperties, BoundAssumption, LenProperties DEF TakeNext
      <3>2. buf' \in [Pubs -> Seq(Msgs)] /\ \A k \in Pubs : Len(buf'[k]) <= BufLen
        BY <2>1, <3>1 DEF TakeNext
      <3> QED BY <2>1, <3>2 DEF TakeNext, runVars
    <2>2. CASE PublisherEnds(n)
      BY <2>2 DEF PublisherEnds, runVars
    <2>3. CASE GroupStep(Lock(n)) \/ GroupStep(Unlock(n))
      BY <2>3 DEF GroupStep, runVars, loopVars
    <2>4. ASSUME NEW r \in Runs, Receive(n, r) PROVE TypeOK'
      BY <2>4 DEF Receive, Goto, loopVars
    <2> QED BY <1>7, <2>1, <2>2, <2>3, <2>4 DEF Publisher
  <1>8. ASSUME UNCHANGED vars PROVE TypeOK'
    BY <1>8 DEF vars, runVars, loopVars
  <1> QED BY <1>1, <1>2, <1>3, <1>4, <1>5, <1>6, <1>7, <1>8 DEF Next

\* Every read loop but the last has ended.
LEMMA MqttLoops ==
    ASSUME TypeOK, LoopShape, OneReader, [Next]_vars
    PROVE  LoopShape' /\ OneReader'
  <1> USE DEF TypeOK, LoopShape, OneReader
  <1>1. ASSUME NEW r \in Runs, Client(r) PROVE LoopShape' /\ OneReader'
    <2>1. CASE rmu = "free"
      <3>1. loop' = loop + 1 /\ rmu' = "reading" /\ eof' = eof
        BY <1>1, <2>1 DEF Client, LoopIsFree
      <3>2. loop' \notin eof /\ \A n \in 1..loop : n \in eof
        BY <2>1, <3>1
      <3> QED BY <3>1, <3>2
    <2>2. CASE rmu # "free"
      BY <1>1, <2>2 DEF Client, LoopIsFree
    <2> QED BY <2>1, <2>2
  <1>2. CASE ReadFails
    BY <1>2 DEF ReadFails, LoopShape
  <1>3. CASE LeaveLoop
    BY <1>3 DEF LeaveLoop
  <1>4. ASSUME UNCHANGED <<loop, rmu, eof>> PROVE LoopShape' /\ OneReader'
    BY <1>4
  <1>5. ASSUME Next, ~(\E r \in Runs : Client(r)), ~ReadFails, ~LeaveLoop
        PROVE  UNCHANGED <<loop, rmu, eof>>
    BY <1>5 DEF Next, Start, Run, Timeout, Unsubscriber, Read, Publisher, Hello, ClientFails,
        SubscribeTopic, SubscribeTopicFails, JoinGroup, PublishCommand,
        PublishCommandFails, Cancel, RangeEnds, TakeNext, PublisherEnds, GroupStep,
        Receive, loopVars
  <1> QED BY <1>1, <1>2, <1>3, <1>4, <1>5 DEF vars, loopVars

\* What a run received only grows, and its channel, once made, stays made.
LEMMA GroupGrows ==
    ASSUME GroupInv, [GroupNext]_groupVars, NEW r \in Subs
    PROVE  /\ chan[r] # "none" => chan'[r] # "none"
           /\ \A W : (\E k \in 1..Len(got[r]) : got[r][k] \in W)
                        => \E k \in 1..Len(got'[r]) : got'[r][k] \in W
  <1> USE DEF GroupInv, GroupTypeOK
  <1>1. chan[r] # "none" => chan'[r] # "none"
    BY DEF GroupNext, Publish, Subscribe, Unsubscribe, CloseQuit, Lock, Send, Unlock, Take,
        groupVars
  <1>2. ASSUME NEW p \in Pubs, Send(p, r)
        PROVE  /\ Len(got'[r]) = Len(got[r]) + 1
               /\ \A k \in 1..Len(got[r]) : got'[r][k] = got[r][k]
    <2>1. held[p] \in Msgs
      BY <1>2, GroupNilAssumption DEF Send, Critical
    <2> QED BY <1>2, <2>1, AppendProperties DEF Send
  <1>3. ASSUME ~(\E p \in Pubs : Send(p, r)) PROVE got'[r] = got[r]
    BY <1>3 DEF GroupNext, Publish, Subscribe, Unsubscribe, CloseQuit, Lock, Send, Unlock,
        Take, groupVars
  <1>4. Len(got[r]) \in Nat
    BY LenProperties
  <1> QED BY <1>1, <1>2, <1>3, <1>4

\* A finished run stays as it is; only RangeEnds and PublishCommand report a
\* success, and both know the command was taken.
LEMMA MqttRuns ==
    ASSUME TypeOK, GroupInv, RunShape, SuccessIsEarned, [Next]_vars
    PROVE  RunShape' /\ SuccessIsEarned'
  <1> DEFINE Earned(r) ==
        /\ pc[r] \in {"range", "cancel"} => r \in sent /\ chan[r] # "none"
        /\ result[r] # "none" => pc[r] = "done"
        /\ r \in answered => \E k \in 1..Len(got[r]) : got[r][k] \in Wanted(r)
        /\ result[r] = "ok" =>
            /\ r \in sent
            /\ chan[r] # "none" => \E k \in 1..Len(got[r]) : got[r][k] \in Wanted(r)
  <1>0. \A r \in Runs : Earned(r)
    BY DEF RunShape, SuccessIsEarned
  <1> SUFFICES ASSUME NEW r \in Runs PROVE Earned(r)'
    BY DEF RunShape, SuccessIsEarned
  <1> DEFINE Has == \E k \in 1..Len(got[r]) : got[r][k] \in Wanted(r)
  <1>a. [GroupNext]_groupVars
    BY GroupStepOfMqtt
  <1>b. (chan[r] # "none" => chan'[r] # "none") /\ (Has => Has')
    BY <1>a, GroupGrows
  \* Steps that leave r where it is.
  <1>c. ASSUME pc'[r] = pc[r], result'[r] = result[r], r \in answered' <=> r \in answered,
               sent \subseteq sent', chan'[r] = chan[r] \/ result[r] # "ok"
        PROVE  Earned(r)'
    BY <1>0, <1>b, <1>c
  \* Steps that move r to a place with no claim of its own.
  <1>d. ASSUME pc[r] # "done", pc'[r] \notin {"range", "cancel"}, result'[r] \in {result[r], "failed", "abandoned"},
               result'[r] # "none" => pc'[r] = "done",
               answered' = answered, sent' = sent
        PROVE  Earned(r)'
    BY <1>0, <1>b, <1>d
  <1>1. ASSUME NEW q \in Runs, Start(q) PROVE Earned(r)'
    <2>1. CASE q = r
      BY <1>0, <1>1, <1>d, <2>1 DEF Start, Goto, TypeOK, loopVars
    <2>2. CASE q # r
      BY <1>1, <1>c, <2>2 DEF Start, Goto, TypeOK, groupVars
    <2> QED BY <2>1, <2>2
  <1>2. ASSUME NEW q \in Runs, Run(q), q # r PROVE Earned(r)'
    <2>1. /\ pc'[r] = pc[r] /\ result'[r] = result[r]
          /\ answered' = answered /\ sent \subseteq sent'
      BY <1>2 DEF Run, Client, Hello, ClientFails, SubscribeTopic, SubscribeTopicFails,
          JoinGroup, PublishCommand, PublishCommandFails, Cancel, RangeEnds, Return, Goto,
          TypeOK
    <2>2. chan'[r] = chan[r]
      <3>1. CASE JoinGroup(q)
        BY <1>2, <3>1 DEF JoinGroup, Subscribe, GroupInv, GroupTypeOK
      <3>2. CASE ~JoinGroup(q)
        BY <1>2, <3>2 DEF Run, Client, Hello, ClientFails, SubscribeTopic,
            SubscribeTopicFails, PublishCommand, PublishCommandFails, Cancel, RangeEnds,
            quitUnchanged, groupVars
      <3> QED BY <3>1, <3>2
    <2> QED BY <1>c, <2>1, <2>2
  <1>3. ASSUME Run(r) PROVE Earned(r)'
    <2>1. CASE Client(r)
      <3>1. pc'[r] \in {"helloToSubscribe", "helloToPublish", "subscribe", "publish"}
        BY <2>1 DEF Client, Goto, Locks, TypeOK
      <3>2. pc[r] # "done"
        BY <2>1 DEF Client, Locks
      <3> QED BY <1>0, <1>d, <2>1, <3>1, <3>2 DEF Client
    <2>2. CASE Hello(r)
      BY <1>0, <1>d, <2>2 DEF Hello, Goto, TypeOK
    <2>3. CASE ClientFails(r)
      <3>1. pc[r] # "done"
        BY <2>3 DEF ClientFails, Locks
      <3> QED BY <1>0, <1>d, <2>3, <3>1 DEF ClientFails, Return, Goto, TypeOK
    <2>4. CASE SubscribeTopic(r)
      BY <1>0, <1>d, <2>4 DEF SubscribeTopic, Goto, TypeOK
    <2>5. CASE SubscribeTopicFails(r)
      BY <1>0, <1>d, <2>5 DEF SubscribeTopicFails, Return, Goto, TypeOK
    <2>6. CASE JoinGroup(r)
      BY <1>0, <1>d, <2>6 DEF JoinGroup, Goto, TypeOK
    <2>7. CASE PublishCommand(r)
      <3>1. sent' = sent \cup {r} /\ answered' = answered
        BY <2>7 DEF PublishCommand
      <3>2. CASE chan[r] = "none"
        BY <1>0, <1>b, <2>7, <3>1, <3>2
           DEF PublishCommand, Return, Goto, quitUnchanged, TypeOK
      <3>3. CASE chan[r] # "none"
        BY <1>0, <1>b, <2>7, <3>1, <3>3 DEF PublishCommand, Goto, TypeOK
      <3> QED BY <3>2, <3>3
    <2>8. CASE PublishCommandFails(r)
      BY <1>0, <1>d, <2>8 DEF PublishCommandFails, Return, Goto, TypeOK
    <2>9. CASE Cancel(r)
      BY <1>0, <1>b, <2>9 DEF Cancel, Goto, TypeOK
    <2>10. CASE RangeEnds(r)
      BY <1>0, <1>b, <2>10 DEF RangeEnds, Return, Goto, TypeOK
    <2> QED BY <1>3, <2>1, <2>2, <2>3, <2>4, <2>5, <2>6, <2>7, <2>8, <2>9, <2>10 DEF Run
  <1>4. ASSUME NEW p \in Pubs, NEW q \in Runs, Receive(p, q) PROVE Earned(r)'
    <2>1. CASE q # r
      BY <1>4, <1>c, <2>1 DEF Receive, Send, Goto, TypeOK
    <2>2. CASE q = r /\ ~Satisfies(r, held[p])
      BY <1>4, <1>c, <2>2 DEF Receive, Send
    <2>3. CASE q = r /\ Satisfies(r, held[p])
      <3>1. Has'
        <4>1. held[p] \in Msgs /\ got[r] \in Seq(Msgs)
          BY <1>4, <2>3, GroupNilAssumption
             DEF Receive, Send, GroupInv, GroupTypeOK, Critical
        <4>2. got'[r] = Append(got[r], held[p])
          BY <1>4, <2>3 DEF Receive, Send, GroupInv, GroupTypeOK
        <4>3. /\ Len(got'[r]) = Len(got[r]) + 1
              /\ got'[r][Len(got[r]) + 1] = held[p]
          BY <4>1, <4>2, AppendProperties
        <4>4. Len(got[r]) + 1 \in 1..Len(got'[r])
          BY <4>1, <4>3, LenProperties
        <4> QED BY <2>3, <4>3, <4>4 DEF Satisfies
      <3> QED BY <1>0, <1>4, <1>b, <2>3, <3>1 DEF Receive, Goto, TypeOK
    <2> QED BY <2>1, <2>2, <2>3
  \* The read loop and the locks leave every run alone.
  <1>5. ASSUME UNCHANGED runVars, chan'[r] = chan[r] \/ chan[r] # "none" PROVE Earned(r)'
    BY <1>0, <1>5, <1>b DEF runVars
  <1>6. ASSUME NEW q \in Runs, Timeout(q) \/ Unsubscriber(q) PROVE Earned(r)'
    BY <1>5, <1>6 DEF Timeout, Unsubscriber, GroupStep, Unsubscribe, quitUnchanged, GroupInv,
        GroupTypeOK
  <1>7. ASSUME (\E m \in Msgs : Read(m)) \/ ReadFails \/ LeaveLoop PROVE Earned(r)'
    BY <1>5, <1>7 DEF Read, ReadFails, LeaveLoop, groupVars
  <1>8. ASSUME NEW n \in Pubs,
               TakeNext(n) \/ PublisherEnds(n) \/ GroupStep(Lock(n)) \/ GroupStep(Unlock(n))
        PROVE  Earned(r)'
    BY <1>5, <1>8 DEF TakeNext, PublisherEnds, GroupStep, Take, Lock, Unlock, groupVars
  <1>9. ASSUME UNCHANGED vars PROVE Earned(r)'
    BY <1>5, <1>9 DEF vars, groupVars
  <1> HIDE DEF Earned
  <1> QED BY <1>1, <1>2, <1>3, <1>4, <1>6, <1>7, <1>8, <1>9 DEF Next, Publisher

\* The conjunction is inductive.
LEMMA MqttInvariant == Spec => []MqttInv
  <1>1. ASSUME MqttInv, [Next]_vars PROVE MqttInv'
    <2> USE <1>1 DEF MqttInv
    <2>1. GroupInv'
      <3>1. [GroupNext]_groupVars
        BY GroupStepOfMqtt
      <3> QED BY <3>1, GroupTyped, GroupCritical, GroupCopies DEF GroupInv
    <2>2. TypeOK'
      BY <2>1, MqttTyped DEF GroupInv
    <2>3. RunShape' /\ SuccessIsEarned'
      BY MqttRuns
    <2>4. LoopShape' /\ OneReader'
      BY MqttLoops
    <2> QED BY <2>1, <2>2, <2>3, <2>4
  <1> QED BY MqttInitInv, <1>1, PTL DEF Spec

----------------------------------------------------------------------------
\* Every variable keeps its type, and a publisher's channel its length.
THEOREM MqttTypeCorrect == Spec => []TypeOK
  <1>1. MqttInv => TypeOK
    BY DEF MqttInv
  <1> QED BY <1>1, MqttInvariant, PTL

\* Expect.Run returns nil only when its command was taken and, if it waits for
\* an answer, a message it wants was copied to it.
THEOREM SuccessCorrect == Spec => []SuccessIsEarned
  <1>1. MqttInv => SuccessIsEarned
    BY DEF MqttInv
  <1> QED BY <1>1, MqttInvariant, PTL

\* rmu and TryLock leave one goroutine reading from the client.
THEOREM ReaderCorrect == Spec => []OneReader
  <1>1. MqttInv => OneReader
    BY DEF MqttInv
  <1> QED BY <1>1, MqttInvariant, PTL

\* The MQTT client implements the group's specification: the runs, their
\* timeouts and the restarted read loops take no step the group does not allow.
THEOREM GroupRefined == Spec => UsesGroup
  <1>1. Init => GroupInit
    BY DEF Init
  <1>2. MqttInv /\ [Next]_vars => [GroupNext]_groupVars
    BY GroupStepOfMqtt DEF MqttInv
  <1> QED BY <1>1, <1>2, MqttInvariant, PTL DEF Spec, UsesGroup, GroupSpec
=============================================================================
