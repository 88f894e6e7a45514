--------------------------- MODULE EwelinkProofs ---------------------------
(***************************************************************************)
(* Proofs about Ewelink, for any number of goroutines and tokens.          *)
(***************************************************************************)
EXTENDS Ewelink, TLAPS

\* The ranges of the variables; the bounds that relate them are in the parts below.
Types ==
    /\ token \in Nat /\ issued \in 0..MaxTokens
    /\ refreshable \in BOOLEAN
    /\ age \in {"never", "fresh", "old"}
    /\ pc \in [Procs -> PCs]
    /\ depth \in [Procs -> Nat]
    /\ bearer \in [Procs -> Nat]
    /\ known \in [Procs -> SUBSET Tokens]
    /\ foreign \in [Procs -> Nat]
    /\ cleared \in [Procs -> BOOLEAN] /\ tokenless \in [Procs -> BOOLEAN]
    /\ refused \in SUBSET Tokens

\* A token is known to the program only once it was issued.
Issuing ==
    /\ token <= issued
    /\ refused \subseteq 1..issued
    /\ \A g \in Procs : bearer[g] <= issued /\ foreign[g] <= issued

\* A refused token is out of the account, and out of every later request.
Refusing ==
    /\ token \notin refused
    /\ \A g \in Procs : known[g] \subseteq refused
    /\ \A g \in Procs : Sent(g) => bearer[g] \notin known[g]

\* Where a goroutine has seen a token or has logged in, there is one, unless
\* another cleared it or the answer to the login held none.
Blanking ==
    \A g \in Procs :
        /\ pc[g] \in {"age", "decode", "stamp", "read", "refresh"} /\ token = 0
              => cleared[g] \/ tokenless[g]
        /\ Sent(g) /\ bearer[g] = 0 => cleared[g] \/ tokenless[g]

\* A goroutine passes the check of a nested Token only after another login.
Nesting ==
    \A g \in Procs :
        /\ depth[g] <= foreign[g] + 1
        /\ pc[g] \in {"age", "clear"} => depth[g] <= foreign[g]
        /\ pc[g] = "check" /\ token # 0 => depth[g] <= foreign[g]
        /\ pc[g] = "idle" => depth[g] = 0 /\ foreign[g] = 0
        /\ pc[g] = "refresh" => depth[g] > 0

IInv == Types /\ Issuing /\ Refusing /\ Blanking /\ Nesting

\* The invariant holds of an account nobody has used.
LEMMA InitIInv == Init => IInv
<1> SUFFICES ASSUME Init PROVE IInv
  OBVIOUS
<1>1. /\ cleared \in [Procs -> BOOLEAN] /\ tokenless \in [Procs -> BOOLEAN]
      /\ refreshable \in BOOLEAN
  BY Zenon DEF Init
<1>2. /\ token = 0 /\ issued = 0 /\ refused = {} /\ age = "never"
      /\ pc = [g \in Procs |-> "idle"] /\ depth = [g \in Procs |-> 0]
      /\ bearer = [g \in Procs |-> 0] /\ known = [g \in Procs |-> {}]
      /\ foreign = [g \in Procs |-> 0]
  BY Zenon DEF Init
<1>3. Types
  BY <1>1, <1>2, BoundAssumption DEF Types, PCs, Tokens
<1>4. Issuing
  BY <1>2 DEF Issuing
<1>5. Refusing
  BY <1>2 DEF Refusing, Sent
<1>6. Blanking
  BY <1>2 DEF Blanking, Sent
<1>7. Nesting
  <2> SUFFICES ASSUME NEW g \in Procs
               PROVE  /\ depth[g] <= foreign[g] + 1
                      /\ pc[g] \in {"age", "clear"} => depth[g] <= foreign[g]
                      /\ pc[g] = "check" /\ token # 0 => depth[g] <= foreign[g]
                      /\ pc[g] = "idle" => depth[g] = 0 /\ foreign[g] = 0
                      /\ pc[g] = "refresh" => depth[g] > 0
    BY DEF Nesting
  <2>1. pc[g] = "idle" /\ depth[g] = 0 /\ foreign[g] = 0
    BY <1>2
  <2> QED
    BY <2>1
<1> QED
  BY <1>3, <1>4, <1>5, <1>6, <1>7 DEF IInv

\* Clearing the token tells every other goroutine at work.
LEMMA BlankTypes == ASSUME NEW g, Types, Blank(g) PROVE token' = 0 /\ cleared' \in [Procs -> BOOLEAN]
<1>1. ASSUME NEW k \in Procs PROVE (IF k = g THEN cleared[k] ELSE pc[k] # "idle") \in BOOLEAN
  BY DEF Types
<1> QED
  BY <1>1, Zenon DEF Blank

\* A request carries an issued token, or none.
LEMMA RefuseTypes ==
    ASSUME NEW g \in Procs, Types, Issuing, Refuse(g) PROVE refused' \in SUBSET Tokens
<1>1. bearer[g] \in 0..issued /\ issued <= MaxTokens
  BY BoundAssumption DEF Types, Issuing
<1>2. {bearer[g]} \ {0} \subseteq Tokens
  BY <1>1, BoundAssumption DEF Types, Tokens
<1>3. refused' = refused \cup ({bearer[g]} \ {0})
  BY DEF Refuse
<1> QED
  BY <1>2, <1>3 DEF Types

----------------------------------------------------------------------------
(* One lemma per part of the invariant, one step per action. *)

\* Every step keeps the types, and a goroutine's depth within the tokens.
LEMMA TypesStep == IInv /\ [Next]_vars => Types'
<1> SUFFICES ASSUME IInv, [Next]_vars PROVE Types'
  OBVIOUS
<1> USE BoundAssumption DEF IInv, Types, PCs, Tokens
<1>1. ASSUME NEW g \in Procs, Power(g) PROVE Types'
  BY <1>1 DEF Power, Goto
<1>2. ASSUME NEW g \in Procs, CheckToken(g) PROVE Types'
  BY <1>2 DEF CheckToken, Goto
<1>3. ASSUME NEW g \in Procs, CheckAge(g) PROVE Types'
  BY <1>3 DEF CheckAge, Goto
<1>4. ASSUME NEW g \in Procs, Clear(g) PROVE Types'
  BY <1>4, BlankTypes DEF Clear, Goto
<1>5. ASSUME NEW g \in Procs, DecodeToken(g) PROVE Types'
  BY <1>5 DEF DecodeToken, Goto
<1>16. ASSUME NEW g \in Procs, DecodeNoToken(g) PROVE Types'
  BY <1>16, BlankTypes DEF DecodeNoToken, Goto
<1>6. ASSUME NEW g \in Procs, DecodeRefresh(g) PROVE Types'
  BY <1>6 DEF DecodeRefresh, Goto
<1>7. ASSUME NEW g \in Procs, Stamp(g) PROVE Types'
  BY <1>7 DEF Stamp, Goto
<1>8. ASSUME NEW g \in Procs, LoginFails(g) PROVE Types'
  <2>1. token' \in Nat /\ cleared' \in [Procs -> BOOLEAN]
    BY <1>8, BlankTypes DEF LoginFails
  <2> QED
    <3>1. CASE Leave(g)
      BY <1>8, <2>1, <3>1 DEF LoginFails, Leave, Goto
    <3>2. CASE /\ depth[g] > 0 /\ Goto(g, "login")
               /\ depth' = [depth EXCEPT ![g] = @ - 1]
               /\ UNCHANGED <<bearer, known, foreign, tokenless>>
      <4>1. /\ pc' = [pc EXCEPT ![g] = "login"] /\ depth' = [depth EXCEPT ![g] = @ - 1]
            /\ UNCHANGED <<bearer, known, foreign, tokenless>>
            /\ UNCHANGED <<refreshable, age, issued, refused>>
        BY <1>8, <3>2 DEF LoginFails, Goto
      <4>2. depth' \in [Procs -> Nat] /\ pc' \in [Procs -> PCs]
        BY <3>2, <4>1
      <4> QED
        BY <2>1, <4>1, <4>2
    <3> QED
      BY <1>8, <3>1, <3>2 DEF LoginFails, Fail
<1>9. ASSUME NEW g \in Procs, ReadToken(g) PROVE Types'
  BY <1>9 DEF ReadToken, Goto
<1>10. ASSUME NEW g \in Procs, ReadTorn(g) PROVE Types'
  BY <1>10 DEF ReadTorn, Leave, Goto
<1>11. ASSUME NEW g \in Procs, RefreshOK(g) PROVE Types'
  BY <1>11 DEF RefreshOK, Goto, Nesting
<1>12. ASSUME NEW g \in Procs, RefreshFails(g) PROVE Types'
  <2>1. token' \in Nat /\ cleared' \in [Procs -> BOOLEAN] /\ refused' \in SUBSET Tokens
    <3>1. CASE UNCHANGED <<token, refused, cleared>>
      BY <3>1
    <3>2. CASE Refuse(g)
      BY <3>2, BlankTypes, RefuseTypes DEF Refuse
    <3> QED
      BY <1>12, <3>1, <3>2 DEF RefreshFails
  <2> QED
    <3>1. depth[g] - 1 \in Nat
      BY <1>12 DEF RefreshFails, Nesting
    <3> QED
      BY <1>12, <2>1, <3>1 DEF RefreshFails, Goto
<1>13. ASSUME NEW g \in Procs, CommandEnds(g) PROVE Types'
  <2>1. token' \in Nat /\ cleared' \in [Procs -> BOOLEAN] /\ refused' \in SUBSET Tokens
    <3>1. CASE UNCHANGED <<token, refused, cleared>>
      BY <3>1
    <3>2. CASE Refuse(g)
      BY <3>2, BlankTypes, RefuseTypes DEF Refuse
    <3> QED
      BY <1>13, <3>1, <3>2 DEF CommandEnds
  <2> QED
    BY <1>13, <2>1 DEF CommandEnds, Leave, Goto
<1>14. CASE Tire
  BY <1>14 DEF Tire, mine
<1>15. CASE UNCHANGED vars
  BY <1>15 DEF vars, mine
<1> QED
  BY <1>1, <1>2, <1>3, <1>4, <1>5, <1>6, <1>7, <1>8, <1>9, <1>10, <1>11, <1>12,
     <1>13, <1>14, <1>15, <1>16 DEF Next, Run

\* A token is known to the program only once it was issued.
LEMMA IssuingStep == IInv /\ [Next]_vars => Issuing'
<1> SUFFICES ASSUME IInv, [Next]_vars PROVE Issuing'
  OBVIOUS
<1> USE BoundAssumption DEF IInv, Types, PCs, Tokens, Issuing
<1>1. ASSUME NEW g \in Procs, Power(g) PROVE Issuing'
  BY <1>1 DEF Power, Goto
<1>2. ASSUME NEW g \in Procs, CheckToken(g) PROVE Issuing'
  BY <1>2 DEF CheckToken, Goto
<1>3. ASSUME NEW g \in Procs, CheckAge(g) PROVE Issuing'
  BY <1>3 DEF CheckAge, Goto
<1>4. ASSUME NEW g \in Procs, Clear(g) PROVE Issuing'
  BY <1>4 DEF Clear, Goto, Blank
<1>5. ASSUME NEW g \in Procs, DecodeToken(g) PROVE Issuing'
  BY <1>5 DEF DecodeToken, Goto
<1>16. ASSUME NEW g \in Procs, DecodeNoToken(g) PROVE Issuing'
  BY <1>16 DEF DecodeNoToken, Goto, Blank
<1>6. ASSUME NEW g \in Procs, DecodeRefresh(g) PROVE Issuing'
  BY <1>6 DEF DecodeRefresh, Goto
<1>7. ASSUME NEW g \in Procs, Stamp(g) PROVE Issuing'
  BY <1>7 DEF Stamp, Goto
<1>8. ASSUME NEW g \in Procs, LoginFails(g) PROVE Issuing'
  BY <1>8 DEF LoginFails, Fail, Leave, Goto, Blank
<1>9. ASSUME NEW g \in Procs, ReadToken(g) PROVE Issuing'
  BY <1>9 DEF ReadToken, Goto
<1>10. ASSUME NEW g \in Procs, ReadTorn(g) PROVE Issuing'
  BY <1>10 DEF ReadTorn, Leave, Goto
<1>11. ASSUME NEW g \in Procs, RefreshOK(g) PROVE Issuing'
  BY <1>11 DEF RefreshOK, Goto
<1>12. ASSUME NEW g \in Procs, RefreshFails(g) PROVE Issuing'
  <2>1. token' <= issued /\ refused' \subseteq 1..issued
    <3>1. CASE UNCHANGED <<token, refused, cleared>>
      BY <3>1
    <3>2. CASE Refuse(g)
      <4>1. bearer[g] \in 0..issued
        OBVIOUS
      <4>2. token' = 0 /\ refused' = refused \cup ({bearer[g]} \ {0})
        BY <3>2 DEF Refuse, Blank
      <4> QED
        <5>1. {bearer[g]} \ {0} \subseteq 1..issued
          BY <4>1
        <5>2. token' <= issued
          BY <4>2
        <5>3. refused' \subseteq 1..issued
          BY <4>2, <5>1, Zenon DEF Issuing
        <5> QED
          BY <5>2, <5>3
    <3> QED
      BY <1>12, <3>1, <3>2 DEF RefreshFails
  <2> QED
    BY <1>12, <2>1 DEF RefreshFails, Goto
<1>13. ASSUME NEW g \in Procs, CommandEnds(g) PROVE Issuing'
  <2>1. token' <= issued /\ refused' \subseteq 1..issued
    <3>1. CASE UNCHANGED <<token, refused, cleared>>
      BY <3>1
    <3>2. CASE Refuse(g)
      <4>1. bearer[g] \in 0..issued
        OBVIOUS
      <4>2. token' = 0 /\ refused' = refused \cup ({bearer[g]} \ {0})
        BY <3>2 DEF Refuse, Blank
      <4> QED
        <5>1. {bearer[g]} \ {0} \subseteq 1..issued
          BY <4>1
        <5>2. token' <= issued
          BY <4>2
        <5>3. refused' \subseteq 1..issued
          BY <4>2, <5>1, Zenon DEF Issuing
        <5> QED
          BY <5>2, <5>3
    <3> QED
      BY <1>13, <3>1, <3>2 DEF CommandEnds
  <2> QED
    BY <1>13, <2>1 DEF CommandEnds, Goto, Leave
<1>14. CASE Tire
  BY <1>14 DEF Tire, mine
<1>15. CASE UNCHANGED vars
  BY <1>15 DEF vars, mine
<1> QED
  BY <1>1, <1>2, <1>3, <1>4, <1>5, <1>6, <1>7, <1>8, <1>9, <1>10, <1>11, <1>12,
     <1>13, <1>14, <1>15, <1>16 DEF Next, Run

\* A refused token stays out of the account, and out of every later request.
LEMMA RefusingStep == IInv /\ [Next]_vars => Refusing'
<1> SUFFICES ASSUME IInv, [Next]_vars PROVE Refusing'
  OBVIOUS
<1> USE BoundAssumption DEF IInv, Types, PCs, Tokens, Refusing, Issuing, Sent
<1>1. ASSUME NEW g \in Procs, Power(g) PROVE Refusing'
  BY <1>1 DEF Power, Goto
<1>2. ASSUME NEW g \in Procs, CheckToken(g) PROVE Refusing'
  BY <1>2 DEF CheckToken, Goto
<1>3. ASSUME NEW g \in Procs, CheckAge(g) PROVE Refusing'
  BY <1>3 DEF CheckAge, Goto
<1>4. ASSUME NEW g \in Procs, Clear(g) PROVE Refusing'
  BY <1>4 DEF Clear, Goto, Blank
<1>5. ASSUME NEW g \in Procs, DecodeToken(g) PROVE Refusing'
  BY <1>5 DEF DecodeToken, Goto
<1>16. ASSUME NEW g \in Procs, DecodeNoToken(g) PROVE Refusing'
  BY <1>16 DEF DecodeNoToken, Goto, Blank
<1>6. ASSUME NEW g \in Procs, DecodeRefresh(g) PROVE Refusing'
  BY <1>6 DEF DecodeRefresh, Goto
<1>7. ASSUME NEW g \in Procs, Stamp(g) PROVE Refusing'
  BY <1>7 DEF Stamp, Goto
<1>8. ASSUME NEW g \in Procs, LoginFails(g) PROVE Refusing'
  BY <1>8 DEF LoginFails, Fail, Leave, Goto, Blank
<1>9. ASSUME NEW g \in Procs, ReadToken(g) PROVE Refusing'
  BY <1>9 DEF ReadToken, Goto
<1>10. ASSUME NEW g \in Procs, ReadTorn(g) PROVE Refusing'
  BY <1>10 DEF ReadTorn, Leave, Goto
<1>11. ASSUME NEW g \in Procs, RefreshOK(g) PROVE Refusing'
  BY <1>11 DEF RefreshOK, Goto
<1>12. ASSUME NEW g \in Procs, RefreshFails(g) PROVE Refusing'
  BY <1>12 DEF RefreshFails, Goto, Blank, Refuse
<1>13. ASSUME NEW g \in Procs, CommandEnds(g) PROVE Refusing'
  BY <1>13 DEF CommandEnds, Leave, Goto, Blank, Refuse
<1>14. CASE Tire
  BY <1>14 DEF Tire, mine
<1>15. CASE UNCHANGED vars
  BY <1>15 DEF vars, mine
<1> QED
  BY <1>1, <1>2, <1>3, <1>4, <1>5, <1>6, <1>7, <1>8, <1>9, <1>10, <1>11, <1>12,
     <1>13, <1>14, <1>15, <1>16 DEF Next, Run

\* Where a goroutine has seen a token or has logged in, the lack of one is explained.
LEMMA BlankingStep == IInv /\ [Next]_vars => Blanking'
<1> SUFFICES ASSUME IInv, [Next]_vars PROVE Blanking'
  OBVIOUS
<1> USE BoundAssumption DEF IInv, Types, PCs, Tokens, Blanking, Sent
<1>1. ASSUME NEW g \in Procs, Power(g) PROVE Blanking'
  BY <1>1 DEF Power, Goto
<1>2. ASSUME NEW g \in Procs, CheckToken(g) PROVE Blanking'
  BY <1>2 DEF CheckToken, Goto
<1>3. ASSUME NEW g \in Procs, CheckAge(g) PROVE Blanking'
  BY <1>3 DEF CheckAge, Goto
<1>4. ASSUME NEW g \in Procs, Clear(g) PROVE Blanking'
  BY <1>4 DEF Clear, Goto, Blank
<1>5. ASSUME NEW g \in Procs, DecodeToken(g) PROVE Blanking'
  BY <1>5 DEF DecodeToken, Goto
<1>16. ASSUME NEW g \in Procs, DecodeNoToken(g) PROVE Blanking'
  BY <1>16 DEF DecodeNoToken, Goto, Blank
<1>6. ASSUME NEW g \in Procs, DecodeRefresh(g) PROVE Blanking'
  BY <1>6 DEF DecodeRefresh, Goto
<1>7. ASSUME NEW g \in Procs, Stamp(g) PROVE Blanking'
  BY <1>7 DEF Stamp, Goto
<1>8. ASSUME NEW g \in Procs, LoginFails(g) PROVE Blanking'
  BY <1>8 DEF LoginFails, Fail, Leave, Goto, Blank
<1>9. ASSUME NEW g \in Procs, ReadToken(g) PROVE Blanking'
  BY <1>9 DEF ReadToken, Goto
<1>10. ASSUME NEW g \in Procs, ReadTorn(g) PROVE Blanking'
  BY <1>10 DEF ReadTorn, Leave, Goto
<1>11. ASSUME NEW g \in Procs, RefreshOK(g) PROVE Blanking'
  BY <1>11 DEF RefreshOK, Goto, Nesting
<1>12. ASSUME NEW g \in Procs, RefreshFails(g) PROVE Blanking'
  BY <1>12 DEF RefreshFails, Goto, Blank, Refuse
<1>13. ASSUME NEW g \in Procs, CommandEnds(g) PROVE Blanking'
  BY <1>13 DEF CommandEnds, Leave, Goto, Blank, Refuse
<1>14. CASE Tire
  BY <1>14 DEF Tire, mine
<1>15. CASE UNCHANGED vars
  BY <1>15 DEF vars, mine
<1> QED
  BY <1>1, <1>2, <1>3, <1>4, <1>5, <1>6, <1>7, <1>8, <1>9, <1>10, <1>11, <1>12,
     <1>13, <1>14, <1>15, <1>16 DEF Next, Run

\* Token and maybeRefresh call each other only for a token stored meanwhile.
LEMMA NestingStep == IInv /\ [Next]_vars => Nesting'
<1> SUFFICES ASSUME IInv, [Next]_vars PROVE Nesting'
  OBVIOUS
<1> USE BoundAssumption DEF IInv, Types, PCs, Tokens, Nesting
<1>1. ASSUME NEW g \in Procs, Power(g) PROVE Nesting'
  BY <1>1 DEF Power, Goto
<1>2. ASSUME NEW g \in Procs, CheckToken(g) PROVE Nesting'
  BY <1>2 DEF CheckToken, Goto
<1>3. ASSUME NEW g \in Procs, CheckAge(g) PROVE Nesting'
  BY <1>3 DEF CheckAge, Goto
<1>4. ASSUME NEW g \in Procs, Clear(g) PROVE Nesting'
  BY <1>4 DEF Clear, Goto, Blank
<1>5. ASSUME NEW g \in Procs, DecodeToken(g) PROVE Nesting'
  BY <1>5 DEF DecodeToken, Goto
<1>16. ASSUME NEW g \in Procs, DecodeNoToken(g) PROVE Nesting'
  BY <1>16 DEF DecodeNoToken, Goto, Blank
<1>6. ASSUME NEW g \in Procs, DecodeRefresh(g) PROVE Nesting'
  BY <1>6 DEF DecodeRefresh, Goto
<1>7. ASSUME NEW g \in Procs, Stamp(g) PROVE Nesting'
  BY <1>7 DEF Stamp, Goto
<1>8. ASSUME NEW g \in Procs, LoginFails(g) PROVE Nesting'
  BY <1>8 DEF LoginFails, Fail, Leave, Goto, Blank
<1>9. ASSUME NEW g \in Procs, ReadToken(g) PROVE Nesting'
  BY <1>9 DEF ReadToken, Goto
<1>10. ASSUME NEW g \in Procs, ReadTorn(g) PROVE Nesting'
  BY <1>10 DEF ReadTorn, Leave, Goto
<1>11. ASSUME NEW g \in Procs, RefreshOK(g) PROVE Nesting'
  BY <1>11 DEF RefreshOK, Goto
<1>12. ASSUME NEW g \in Procs, RefreshFails(g) PROVE Nesting'
  BY <1>12 DEF RefreshFails, Goto, Blank, Refuse
<1>13. ASSUME NEW g \in Procs, CommandEnds(g) PROVE Nesting'
  BY <1>13 DEF CommandEnds, Leave, Goto, Blank, Refuse
<1>14. CASE Tire
  BY <1>14 DEF Tire, mine
<1>15. CASE UNCHANGED vars
  BY <1>15 DEF vars, mine
<1> QED
  BY <1>1, <1>2, <1>3, <1>4, <1>5, <1>6, <1>7, <1>8, <1>9, <1>10, <1>11, <1>12,
     <1>13, <1>14, <1>15, <1>16 DEF Next, Run

\* The conjunction is inductive.
THEOREM Invariance == Spec => []IInv
<1>1. IInv /\ [Next]_vars => IInv'
  BY TypesStep, IssuingStep, RefusingStep, BlankingStep, NestingStep DEF IInv
<1> QED
  BY InitIInv, <1>1, PTL DEF Spec

----------------------------------------------------------------------------
\* Every variable keeps its type; a goroutine nests no deeper than one call of
\* maybeRefresh more than the tokens the cloud has issued.
THEOREM TypeCorrect == Spec => []TypeOK
<1>1. IInv => TypeOK
  BY BoundAssumption DEF IInv, Types, Issuing, Nesting, TypeOK, Tokens
<1> QED
  BY Invariance, <1>1, PTL

\* A token whose 401 was handled is not sent by a command that begins later.
THEOREM RefusedTokensStayOut == Spec => []RefusedStaysOut
<1>1. IInv => RefusedStaysOut
  BY DEF IInv, Refusing, RefusedStaysOut
<1> QED
  BY Invariance, <1>1, PTL

\* A request goes out without a token only after another goroutine cleared it,
\* or after a login of its own that was answered without one.
THEOREM BlanksExplained == Spec => []BlankIsExplained
<1>1. IInv => BlankIsExplained
  BY DEF IInv, Blanking, BlankIsExplained
<1> QED
  BY Invariance, <1>1, PTL

\* The recursion of Token and maybeRefresh is one call deep, and one more for
\* each login of another goroutine in the meantime.
THEOREM RecursionIsBounded == Spec => []NestsOnlyWhenDisturbed
<1>1. IInv => NestsOnlyWhenDisturbed
  BY DEF IInv, Nesting, NestsOnlyWhenDisturbed
<1> QED
  BY Invariance, <1>1, PTL
=============================================================================
