------------------------- MODULE ListenGroupProofs -------------------------
(***************************************************************************)
(* Theorems about ListenGroup, for any number of subscriptions, publishers *)
(* and messages.                                                           *)
(*                                                                         *)
(* What a subscription received is described position by position: Copies  *)
(* says where in the log it comes from, Count how much of it there is.     *)
(* Both are inductive together with the shape of the critical section, and *)
(* they give the two properties about SubSeq.                              *)
(***************************************************************************)
EXTENDS ListenGroup, SequenceTheorems, TLAPS

\* Inside its critical section a publisher sends the last message of the log,
\* and only there does it have members to send to.
Critical ==
    /\ NoSendOnClosed
    /\ mu # Nil => held[mu] # Nil /\ Len(log) > 0 /\ log[Len(log)] = held[mu]

\* A subscription received a run of the log that starts where it joined.
Copies ==
    \A s \in Subs :
        /\ chan[s] = "none" => got[s] = <<>>
        /\ chan[s] # "none" =>
            /\ from[s] + Len(got[s]) <= Len(log)
            /\ \A k \in 1..Len(got[s]) : got[s][k] = log[from[s] + k]

\* A member received all of it, but for the message now being sent.
Count ==
    \A s \in group :
        from[s] + Len(got[s]) =
            IF mu # Nil /\ s \in todo[mu] THEN Len(log) - 1 ELSE Len(log)

GroupInv == GroupTypeOK /\ Critical /\ Copies /\ Count

----------------------------------------------------------------------------

\* A group starts with no members.
LEMMA GroupInitInv == GroupInit => GroupInv
  <1> SUFFICES ASSUME GroupInit PROVE GroupInv
    OBVIOUS
  <1>1. GroupTypeOK
    BY MaxLogAssumption DEF GroupInit, GroupTypeOK
  <1>2. Critical
    BY DEF GroupInit, Critical, NoSendOnClosed
  <1>3. Copies
    BY DEF GroupInit, Copies
  <1>4. Count
    BY DEF GroupInit, Count
  <1> QED BY <1>1, <1>2, <1>3, <1>4 DEF GroupInv

\* Every step keeps the types.
LEMMA GroupTyped ==
    ASSUME GroupInv, [GroupNext]_groupVars
    PROVE  GroupTypeOK'
  <1> USE DEF GroupInv, GroupTypeOK
  <1>1. ASSUME NEW s \in Subs, Subscribe(s) PROVE GroupTypeOK'
    <2>1. Len(log) \in Nat
      BY LenProperties
    <2> QED BY <1>1, <2>1 DEF Subscribe
  <1>2. ASSUME NEW s \in Subs, Unsubscribe(s) PROVE GroupTypeOK'
    BY <1>2 DEF Unsubscribe
  <1>3. ASSUME NEW s \in Subs, CloseQuit(s) PROVE GroupTypeOK'
    BY <1>3 DEF CloseQuit
  <1>4. ASSUME NEW p \in Pubs, Lock(p) PROVE GroupTypeOK'
    <2>1. held[p] \in Msgs
      BY <1>4 DEF Lock
    <2>2. log' \in Seq(Msgs) /\ Len(log') = Len(log) + 1
      BY <1>4, <2>1, AppendProperties DEF Lock
    <2> QED BY <1>4, <2>2, MaxLogAssumption, LenProperties DEF Lock
  <1>5. ASSUME NEW p \in Pubs, NEW s \in Subs, Send(p, s) PROVE GroupTypeOK'
    <2>1. held[p] \in Msgs
      BY <1>5, GroupNilAssumption DEF Send, Critical
    <2>2. Append(got[s], held[p]) \in Seq(Msgs)
      BY <2>1, AppendProperties
    <2> QED BY <1>5, <2>2 DEF Send
  <1>6. ASSUME NEW p \in Pubs, Unlock(p) PROVE GroupTypeOK'
    BY <1>6 DEF Unlock
  <1>7. ASSUME NEW p \in Pubs, NEW m \in Msgs, Take(p, m) PROVE GroupTypeOK'
    BY <1>7 DEF Take
  <1>8. ASSUME UNCHANGED groupVars PROVE GroupTypeOK'
    BY <1>8 DEF groupVars
  <1> QED BY <1>1, <1>2, <1>3, <1>4, <1>5, <1>6, <1>7, <1>8 DEF GroupNext, Publish

\* A publisher sends the last message of the log, and only with the lock.
LEMMA GroupCritical ==
    ASSUME GroupInv, [GroupNext]_groupVars
    PROVE  Critical'
  <1> USE DEF GroupInv, GroupTypeOK, Critical, NoSendOnClosed
  <1>1. ASSUME NEW s \in Subs, Subscribe(s) PROVE Critical'
    BY <1>1 DEF Subscribe
  <1>2. ASSUME NEW s \in Subs, Unsubscribe(s) PROVE Critical'
    BY <1>2, GroupNilAssumption DEF Unsubscribe
  <1>3. ASSUME NEW s \in Subs, CloseQuit(s) PROVE Critical'
    BY <1>3 DEF CloseQuit
  <1>4. ASSUME NEW p \in Pubs, Lock(p) PROVE Critical'
    <2>1. held[p] \in Msgs
      BY <1>4 DEF Lock
    <2>2. Len(log') > 0 /\ log'[Len(log')] = held[p]
      BY <1>4, <2>1, AppendProperties, LenProperties DEF Lock
    <2>3. \A p2 \in Pubs : p2 # p => todo[p2] = {}
      BY <1>4, GroupNilAssumption DEF Lock
    <2>4. \A p2 \in Pubs : todo'[p2] = IF p2 = p THEN group ELSE {}
      BY <1>4, <2>3 DEF Lock
    <2> QED BY <1>4, <2>2, <2>4 DEF Lock
  <1>5. ASSUME NEW p \in Pubs, NEW s \in Subs, Send(p, s) PROVE Critical'
    BY <1>5 DEF Send
  <1>6. ASSUME NEW p \in Pubs, Unlock(p) PROVE Critical'
    BY <1>6 DEF Unlock
  <1>7. ASSUME NEW p \in Pubs, NEW m \in Msgs, Take(p, m) PROVE Critical'
    <2>1. mu # p
      BY <1>7, GroupNilAssumption DEF Take
    <2> QED BY <1>7, <2>1 DEF Take
  <1>8. ASSUME UNCHANGED groupVars PROVE Critical'
    BY <1>8 DEF groupVars
  <1> QED BY <1>1, <1>2, <1>3, <1>4, <1>5, <1>6, <1>7, <1>8 DEF GroupNext, Publish

\* A member received what was published since it joined, but for what is being sent.
LEMMA GroupCopies ==
    ASSUME GroupInv, [GroupNext]_groupVars
    PROVE  Copies' /\ Count'
  <1> USE DEF GroupInv, GroupTypeOK
  <1>0. /\ Len(log) \in Nat
        /\ \A s \in Subs : Len(got[s]) \in Nat
    BY LenProperties
  <1>1. ASSUME NEW s \in Subs, Subscribe(s) PROVE Copies' /\ Count'
    <2>1. Len(got[s]) = 0
      BY <1>1, EmptySeq DEF Subscribe, Copies
    <2>2. Copies'
      BY <1>0, <1>1, <2>1 DEF Subscribe, Copies
    <2>3. Count'
      BY <1>0, <1>1, <2>1 DEF Subscribe, Count
    <2> QED BY <2>2, <2>3
  <1>2. ASSUME NEW s \in Subs, Unsubscribe(s) PROVE Copies' /\ Count'
    BY <1>2 DEF Unsubscribe, Copies, Count
  <1>3. ASSUME NEW s \in Subs, CloseQuit(s) PROVE Copies' /\ Count'
    BY <1>3 DEF CloseQuit, Copies, Count
  <1>4. ASSUME NEW p \in Pubs, Lock(p) PROVE Copies' /\ Count'
    <2>1. held[p] \in Msgs
      BY <1>4 DEF Lock
    <2>2. /\ Len(log') = Len(log) + 1
          /\ \A k \in 1..Len(log) : log'[k] = log[k]
      BY <1>4, <2>1, AppendProperties DEF Lock
    <2>3. Copies'
      BY <1>0, <1>4, <2>2 DEF Lock, Copies
    <2>4. /\ mu' # Nil /\ todo'[mu'] = group
          /\ \A s \in group : from[s] + Len(got[s]) = Len(log)
      BY <1>4, GroupNilAssumption DEF Lock, Count
    <2>5. Count'
      BY <1>0, <1>4, <2>2, <2>4 DEF Lock, Count
    <2> QED BY <2>3, <2>5
  <1>5. ASSUME NEW p \in Pubs, NEW s \in Subs, Send(p, s) PROVE Copies' /\ Count'
    <2>1. /\ mu = p /\ p # Nil /\ s \in todo[p] /\ s \in group
          /\ held[p] \in Msgs /\ held[p] = log[Len(log)]
      BY <1>5, GroupNilAssumption DEF Send, Critical, NoSendOnClosed
    <2>2. from[s] + Len(got[s]) = Len(log) - 1
      BY <2>1 DEF Count
    <2>3. /\ Len(got'[s]) = Len(got[s]) + 1
          /\ got'[s][Len(got[s]) + 1] = held[p]
          /\ \A k \in 1..Len(got[s]) : got'[s][k] = got[s][k]
      BY <1>5, <2>1, AppendProperties DEF Send
    <2>4. \A t \in Subs \ {s} : got'[t] = got[t]
      BY <1>5 DEF Send
    <2>5. chan[s] = "open"
      BY <2>1
    <2>6. Copies'
      <3>1. \A k \in 1..Len(got'[s]) : got'[s][k] = log[from[s] + k]
        <4> SUFFICES ASSUME NEW k \in 1..Len(got'[s]) PROVE got'[s][k] = log[from[s] + k]
          OBVIOUS
        <4>1. CASE k \in 1..Len(got[s])
          BY <2>3, <2>5, <4>1 DEF Copies
        <4>2. CASE k = Len(got[s]) + 1
          <5>1. from[s] + k = Len(log)
            BY <1>0, <2>2, <4>2
          <5> QED BY <2>1, <2>3, <4>2, <5>1
        <4> QED BY <1>0, <2>3, <4>1, <4>2
      <3>2. from[s] + Len(got'[s]) <= Len(log)
        BY <1>0, <2>2, <2>3
      <3> QED BY <1>5, <2>4, <2>5, <3>1, <3>2 DEF Send, Copies
    <2>7. Count'
      <3>1. todo'[p] = todo[p] \ {s}
        BY <1>5 DEF Send
      <3> QED BY <1>0, <1>5, <2>1, <2>2, <2>3, <2>4, <3>1 DEF Send, Count
    <2> QED BY <2>6, <2>7
  <1>6. ASSUME NEW p \in Pubs, Unlock(p) PROVE Copies' /\ Count'
    BY <1>6, GroupNilAssumption DEF Unlock, Copies, Count
  <1>7. ASSUME NEW p \in Pubs, NEW m \in Msgs, Take(p, m) PROVE Copies' /\ Count'
    BY <1>7 DEF Take, Copies, Count
  <1>8. ASSUME UNCHANGED groupVars PROVE Copies' /\ Count'
    BY <1>8 DEF groupVars, Copies, Count
  <1> QED BY <1>1, <1>2, <1>3, <1>4, <1>5, <1>6, <1>7, <1>8 DEF GroupNext, Publish

\* The conjunction is inductive.
LEMMA GroupInvariant == GroupSpec => []GroupInv
  <1>1. GroupInv /\ [GroupNext]_groupVars => GroupInv'
    BY GroupTyped, GroupCritical, GroupCopies DEF GroupInv
  <1> QED BY GroupInitInv, <1>1, PTL DEF GroupSpec

----------------------------------------------------------------------------
\* What the invariant says in terms of SubSeq.
LEMMA CopiesAreRuns ==
    ASSUME GroupInv, NEW s \in Subs, chan[s] # "none"
    PROVE  got[s] = SubSeq(log, from[s] + 1, from[s] + Len(got[s]))
  <1> DEFINE run == SubSeq(log, from[s] + 1, from[s] + Len(got[s]))
  <1> USE DEF GroupInv, GroupTypeOK
  <1>1. /\ Len(log) \in Nat /\ Len(got[s]) \in Nat /\ from[s] \in Nat
        /\ from[s] + Len(got[s]) <= Len(log)
        /\ \A k \in 1..Len(got[s]) : got[s][k] = log[from[s] + k]
    BY LenProperties DEF Copies
  <1>2. /\ run \in Seq(Msgs)
        /\ Len(run) = Len(got[s])
        /\ \A k \in 1..Len(got[s]) : run[k] = log[from[s] + k]
    <2> DEFINE m == from[s] + 1
               n == from[s] + Len(got[s])
    <2>1. m \in Int /\ n \in Int /\ n - m + 1 = Len(got[s]) /\ m..n \subseteq 1..Len(log)
      BY <1>1
    <2>2. \A k \in m..n : log[k] \in Msgs
      BY <2>1, ElementOfSeq
    <2> HIDE DEF m, n
    <2>3. /\ SubSeq(log, m, n) \in Seq(Msgs)
          /\ Len(SubSeq(log, m, n)) = IF m <= n THEN n - m + 1 ELSE 0
          /\ \A k \in 1..(n - m + 1) : SubSeq(log, m, n)[k] = log[m + k - 1]
      BY <2>1, <2>2, SubSeqProperties
    <2>4. run = SubSeq(log, m, n)
      BY DEF m, n
    <2>5. Len(got[s]) \in Nat /\ from[s] \in Nat /\ m = from[s] + 1
      BY <1>1 DEF m
    <2>6. Len(SubSeq(log, m, n)) = Len(got[s])
      BY <2>1, <2>3, <2>5
    <2>7. \A k \in 1..Len(got[s]) : m + k - 1 = from[s] + k
      BY <2>5
    <2> HIDE DEF run
    <2> QED BY <2>1, <2>3, <2>4, <2>6, <2>7
  <1>3. /\ Len(run) = Len(got[s])
        /\ \A k \in 1..Len(got[s]) : run[k] = got[s][k]
    BY <1>1, <1>2
  <1> HIDE DEF run
  <1> QED BY <1>2, <1>3, SeqEqual DEF run

\* The variables keep their types, and the members are the open channels.
THEOREM GroupTypeCorrect == GroupSpec => []GroupTypeOK
  BY GroupInvariant, PTL DEF GroupInv

\* No publisher ever sends on a closed channel, or outside its critical section.
THEOREM SendCorrect == GroupSpec => []NoSendOnClosed
  <1>1. GroupInv => NoSendOnClosed
    BY DEF GroupInv, Critical
  <1> QED BY <1>1, GroupInvariant, PTL

\* Joining, leaving and the two publishers' turns lose or repeat no message.
THEOREM GapsCorrect == GroupSpec => []NoGaps
  <1>1. GroupInv => NoGaps
    BY CopiesAreRuns DEF NoGaps
  <1> QED BY <1>1, GroupInvariant, PTL

\* Members lag the log by the message being sent to them and by nothing else.
THEOREM CopiesCorrect == GroupSpec => []ExactCopies
  <1>1. ASSUME GroupInv, NEW s \in group
        PROVE  got[s] = SubSeq(log, from[s] + 1, Len(log) - Behind(s))
    <2> USE DEF GroupInv, GroupTypeOK
    <2>1. s \in Subs /\ chan[s] # "none"
      BY <1>1
    <2>2. (\E p \in Pubs : s \in todo[p]) <=> (mu # Nil /\ s \in todo[mu])
      BY <1>1, GroupNilAssumption DEF Critical, NoSendOnClosed
    <2>3. from[s] + Len(got[s]) = Len(log) - Behind(s)
      BY <1>1, <2>1, <2>2, LenProperties DEF Count, Behind
    <2> QED BY <1>1, <2>1, <2>3, CopiesAreRuns
  <1>2. GroupInv => ExactCopies
    BY <1>1 DEF ExactCopies
  <1> QED BY <1>2, GroupInvariant, PTL
=============================================================================
