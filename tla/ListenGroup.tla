---------------------------- MODULE ListenGroup ----------------------------
(***************************************************************************)
(* mqtt.go's listenGroup: a set of unbuffered channels, one per            *)
(* subscriber, that publisher goroutines copy every message to while they  *)
(* hold the group's mutex, and that a goroutine per subscriber closes,     *)
(* under the same mutex, once the subscriber's quit channel is closed.     *)
(*                                                                         *)
(* A critical section that cannot block inside is one action, enabled when *)
(* the mutex is free.  publish does block inside its own, on each channel: *)
(* it is Lock, one Send per member, Unlock.  A Send is the meeting of a    *)
(* publisher and a receiver, so whoever composes this module conjoins the  *)
(* receiver's side; GroupNext, below, composes it with receivers that keep *)
(* the contract of subscribe: they read until the channel is closed.       *)
(***************************************************************************)
EXTENDS Integers, Sequences

CONSTANTS
    Subs,       \* subscriptions: each is one call of subscribe, one channel
    Pubs,       \* goroutines running publish
    Msgs,       \* messages
    Nil,        \* no message, no holder of the mutex
    MaxLog      \* bound on the messages published

ASSUME GroupNilAssumption == Nil \notin Msgs \cup Pubs
ASSUME MaxLogAssumption == MaxLog \in Nat

VARIABLES
    mu,         \* g.mu: the publisher that holds it, or Nil
    group,      \* g.m: the members
    chan,       \* the state of each subscription's channel
    quit,       \* quit channels that were closed
    held,       \* the message each publisher received and has not passed on
    todo,       \* the members each publisher has still to send it to
    \* History:
    log,        \* messages in the order publishers locked the group for them
    from,       \* the length of log when a subscription joined
    got         \* what each subscription received

groupVars == <<mu, group, chan, quit, held, todo, log, from, got>>

\* The type invariant: the members are the subscriptions whose channel is open.
GroupTypeOK ==
    /\ mu \in Pubs \cup {Nil}
    /\ group = {s \in Subs : chan[s] = "open"}
    /\ chan \in [Subs -> {"none", "open", "closed"}]
    /\ quit \in SUBSET Subs
    /\ held \in [Pubs -> Msgs \cup {Nil}]
    /\ todo \in [Pubs -> SUBSET Subs]
    /\ log \in Seq(Msgs) /\ Len(log) <= MaxLog
    /\ from \in [Subs -> Nat]
    /\ got \in [Subs -> Seq(Msgs)]

GroupInit ==
    /\ mu = Nil
    /\ group = {}
    /\ chan = [s \in Subs |-> "none"]
    /\ quit = {}
    /\ held = [p \in Pubs |-> Nil]
    /\ todo = [p \in Pubs |-> {}]
    /\ log = <<>>
    /\ from = [s \in Subs |-> 0]
    /\ got = [s \in Subs |-> <<>>]

----------------------------------------------------------------------------
(* subscribe *)

\* A new channel joins the group.
Subscribe(s) ==
    /\ mu = Nil
    /\ chan[s] = "none"
    /\ chan' = [chan EXCEPT ![s] = "open"]
    /\ group' = group \cup {s}
    /\ from' = [from EXCEPT ![s] = Len(log)]
    /\ UNCHANGED <<mu, quit, held, todo, log, got>>

\* Fault: the goroutine closes the channel without the lock.
Unsubscribe_Unlocked(s) ==
    /\ s \in quit /\ chan[s] = "open"
    /\ chan' = [chan EXCEPT ![s] = "closed"]
    /\ group' = group \ {s}
    /\ UNCHANGED <<mu, quit, held, todo, log, from, got>>
\* Fault: the closed channel is not deleted from the group.
Unsubscribe_StaysMember(s) ==
    /\ mu = Nil
    /\ s \in quit /\ chan[s] = "open"
    /\ chan' = [chan EXCEPT ![s] = "closed"]
    /\ UNCHANGED <<mu, group, quit, held, todo, log, from, got>>
\* The goroutine that subscribe starts: after <-quit it locks the group,
\* removes the channel and closes it.
Unsubscribe(s) ==
    /\ mu = Nil
    /\ s \in quit /\ chan[s] = "open"
    /\ chan' = [chan EXCEPT ![s] = "closed"]
    /\ group' = group \ {s}
    /\ UNCHANGED <<mu, quit, held, todo, log, from, got>>

----------------------------------------------------------------------------
(* publish *)

\* The next message of the channel publish ranges over.
Take(p, m) ==
    /\ held[p] = Nil
    /\ held' = [held EXCEPT ![p] = m]
    /\ UNCHANGED <<mu, group, chan, quit, todo, log, from, got>>

Lock(p) ==
    /\ mu = Nil /\ held[p] # Nil
    /\ Len(log) < MaxLog
    /\ mu' = p
    /\ todo' = [todo EXCEPT ![p] = group]
    /\ log' = Append(log, held[p])
    /\ UNCHANGED <<group, chan, quit, held, from, got>>

\* v <- msg: the receiver is at the other end.
Send(p, s) ==
    /\ mu = p /\ s \in todo[p]
    /\ todo' = [todo EXCEPT ![p] = @ \ {s}]
    /\ got' = [got EXCEPT ![s] = Append(@, held[p])]
    /\ UNCHANGED <<mu, group, chan, quit, held, log, from>>

\* Fault: the publisher gives up on members that are not ready (a select with a
\* default around the send).
Unlock_Early(p) ==
    /\ mu = p
    /\ mu' = Nil
    /\ held' = [held EXCEPT ![p] = Nil]
    /\ todo' = [todo EXCEPT ![p] = {}]
    /\ UNCHANGED <<group, chan, quit, log, from, got>>
\* Fault: the lock is never released.
Unlock_Never(p) == FALSE /\ UNCHANGED groupVars
Unlock(p) ==
    /\ mu = p /\ todo[p] = {}
    /\ mu' = Nil
    /\ held' = [held EXCEPT ![p] = Nil]
    /\ UNCHANGED <<group, chan, quit, todo, log, from, got>>

----------------------------------------------------------------------------
(* The group with subscribers that keep the contract. *)

\* The owner of the subscription closes its quit channel.
CloseQuit(s) ==
    /\ s \notin quit
    /\ quit' = quit \cup {s}
    /\ UNCHANGED <<mu, group, chan, held, todo, log, from, got>>

Publish(p) == Lock(p) \/ (\E s \in Subs : Send(p, s)) \/ Unlock(p)

GroupNext ==
    \/ \E s \in Subs : Subscribe(s) \/ Unsubscribe(s) \/ CloseQuit(s)
    \/ \E p \in Pubs : Publish(p) \/ \E m \in Msgs : Take(p, m)

GroupSpec == GroupInit /\ [][GroupNext]_groupVars

\* Publishers and the goroutines that unsubscribe keep running.  sync.Mutex does
\* not starve a waiter, so a goroutine that waits for it again and again gets it.
GroupFairSpec ==
    /\ GroupSpec
    /\ \A p \in Pubs : WF_groupVars(Publish(p))
    /\ \A s \in Subs : SF_groupVars(Unsubscribe(s))

----------------------------------------------------------------------------
(* Correctness. *)

\* A publisher never sends on a closed channel, which would panic, nor on one
\* that left the group: unsubscribing waits for the publisher that is at work.
NoSendOnClosed ==
    \A p \in Pubs : \A s \in todo[p] : mu = p /\ chan[s] = "open" /\ s \in group

\* "Each subscriber receives a copy of the message" (mqtt.go:268): a member has
\* received every message published since it joined, once and in order, but for
\* the one now being sent.
Behind(s) == IF \E p \in Pubs : s \in todo[p] THEN 1 ELSE 0
ExactCopies ==
    \A s \in group : got[s] = SubSeq(log, from[s] + 1, Len(log) - Behind(s))

\* What was received before the channel was closed is an unbroken run of the
\* messages published: leaving loses none in the middle.
NoGaps ==
    \A s \in Subs : chan[s] # "none" =>
        got[s] = SubSeq(log, from[s] + 1, from[s] + Len(got[s]))

\* mqtt_test.go:48, "unsubscribes are cleaned up": closing quit leads to the
\* channel being closed and removed from the group.
UnsubscribesAreCleanedUp ==
    \A s \in Subs : (s \in quit /\ chan[s] = "open") ~> (chan[s] = "closed" /\ s \notin group)
=============================================================================
