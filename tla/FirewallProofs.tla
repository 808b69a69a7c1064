--------------------------- MODULE FirewallProofs ---------------------------
(***************************************************************************)
(* Proofs about the firewall manager, for any rulesets and any bound on    *)
(* the number of jumps: what a successful call leaves in the tables, what  *)
(* is in them at any other moment, and how often traffic is sent through.  *)
(***************************************************************************)
EXTENDS Firewall, Induction, SequenceTheorems

\* A call works on a revision and has returned nothing yet, and its loop starts with
\* the first rule.
Calling ==
  /\ pc # "idle" => rev \in Revisions /\ result = "none"
  /\ pc \notin {"idle", "append"} => i = 0

\* A jump leads from a chain that is there to a chain that is there, and a call that
\* is past ensureChain has seen or made one.
Linked ==
  /\ links > 0 => exists /\ docker
  /\ pc \in {"flush", "append"} => links > 0

\* The chain is what the loop has kept of some revision up to some rule; while the
\* loop runs, of its own revision up to the rule it has come to.
Filling ==
  /\ \E r \in Revisions : \E n \in 0 .. Len(Rules(r)) : chain = Kept(r)[n]
  /\ pc = "append" => i \in 0 .. Len(Rules(rev)) /\ chain = Kept(rev)[i]

\* A jump is inserted where there is none, or the agent could not see that there is.
Inserting == pc \in {"create_docker", "link"} => links = 0 \/ blind

IInv ==
  TypeOK /\ Calling /\ Linked /\ Filling /\ Inserting /\ SuccessMeansInstalled /\ OneJump
-----------------------------------------------------------------------------
\* The loop over the rules of a revision, one rule at a time.
LEMMA KeptEquation ==
  ASSUME NEW r \in Revisions
  PROVE  Kept(r) = [n \in 0 .. Len(Rules(r)) |->
                      IF n = 0 THEN <<>>
                      ELSE IF Rules(r)[n] = EmptyRule THEN Kept(r)[n - 1]
                      ELSE Append(Kept(r)[n - 1], Rules(r)[n])]
<1> DEFINE last == Len(Rules(r))
           rule == Rules(r)
           V    == Seq(AllRules)
           step == [n \in 1 .. last |->
                      [s \in V |-> IF rule[n] = EmptyRule THEN s ELSE Append(s, rule[n])]]
           Def(f) == [n \in 0 .. last |->
                        IF n = 0 THEN <<>>
                        ELSE IF rule[n] = EmptyRule THEN f[n - 1]
                        ELSE Append(f[n - 1], rule[n])]
<1>1. rule \in V /\ last \in Nat
  BY FirewallAssumption
<1>2. step \in [1 .. last -> [V -> V]]
  BY <1>1
<1>3. PICK f : IsLoop(f, V, <<>>, last, step)
  <2>1. <<>> \in V
    OBVIOUS
  <2> HIDE DEF step, last, V
  <2> QED
    BY <1>1, <1>2, <2>1, LoopRecursion
<1>4. f = Def(f)
  <2>1. f = [n \in 0 .. last |-> f[n]]
    BY <1>3 DEF IsLoop
  <2>2. ASSUME NEW n \in 0 .. last, n # 0
        PROVE  f[n] = IF rule[n] = EmptyRule THEN f[n - 1] ELSE Append(f[n - 1], rule[n])
    <3>1. n \in 1 .. last /\ n - 1 \in 0 .. last
      BY <1>1, <2>2
    <3>2. f[n - 1] \in V /\ f[n] = step[n][f[n - 1]]
      BY <1>3, <3>1 DEF IsLoop
    <3> QED
      BY <3>1, <3>2
  <2> QED
    BY <1>3, <2>1, <2>2 DEF IsLoop
<1>5. Kept(r) = CHOOSE g : g = Def(g)
  BY DEF Kept
<1> HIDE DEF Def
<1>6. Kept(r) = Def(Kept(r))
  BY <1>4, <1>5
<1> QED
  BY <1>6 DEF Def

LEMMA KeptStep ==
  ASSUME NEW r \in Revisions
  PROVE  /\ Len(Rules(r)) \in Nat
         /\ Kept(r)[0] = <<>>
         /\ \A n \in 0 .. Len(Rules(r)) - 1 :
              Kept(r)[n + 1] = IF Rules(r)[n + 1] = EmptyRule THEN Kept(r)[n]
                               ELSE Append(Kept(r)[n], Rules(r)[n + 1])
<1> DEFINE D == [n \in 0 .. Len(Rules(r)) |->
                   IF n = 0 THEN <<>>
                   ELSE IF Rules(r)[n] = EmptyRule THEN Kept(r)[n - 1]
                   ELSE Append(Kept(r)[n - 1], Rules(r)[n])]
<1>1. Len(Rules(r)) \in Nat
  BY FirewallAssumption
<1>2. D[0] = <<>>
  BY <1>1
<1>3. ASSUME NEW n \in 0 .. Len(Rules(r)) - 1
      PROVE  D[n + 1] = IF Rules(r)[n + 1] = EmptyRule THEN Kept(r)[n]
                        ELSE Append(Kept(r)[n], Rules(r)[n + 1])
  <2>1. n + 1 \in 0 .. Len(Rules(r)) /\ n + 1 # 0 /\ (n + 1) - 1 = n
    BY <1>1
  <2> QED
    BY <2>1
<1>4. Kept(r) = D
  BY KeptEquation, Zenon
<1> HIDE DEF D
<1> QED
  BY <1>1, <1>2, <1>3, <1>4

LEMMA KeptType ==
  ASSUME NEW r \in Revisions, NEW n \in 0 .. Len(Rules(r))
  PROVE  Kept(r)[n] \in Seq(AllRules)
<1> DEFINE V == Seq(AllRules)
           T == {m \in Nat : m <= Len(Rules(r)) => Kept(r)[m] \in V}
<1>1. <<>> \in V /\ \A s \in V, e \in AllRules : Append(s, e) \in V
  OBVIOUS
<1> HIDE DEF V
<1>2. 0 \in T
  BY <1>1, KeptStep
<1>3. ASSUME NEW m \in Nat, m \in T PROVE m + 1 \in T
  <2> SUFFICES ASSUME m + 1 <= Len(Rules(r)) PROVE Kept(r)[m + 1] \in V
    OBVIOUS
  <2>1. m \in 0 .. Len(Rules(r)) - 1 /\ Kept(r)[m] \in V
    BY <1>3, KeptStep
  <2>2. Rules(r)[m + 1] \in AllRules
    BY <2>1, FirewallAssumption
  <2> QED
    BY <1>1, <2>1, <2>2, KeptStep
<1> HIDE DEF T
<1>4. Nat \subseteq T
  BY <1>2, <1>3, NatSetInduction
<1> QED
  BY <1>4, KeptStep DEF T, V

\* A shorter run of the loop has added a beginning of what a longer one adds.
LEMMA KeptGrows ==
  ASSUME NEW r \in Revisions, NEW m \in 0 .. Len(Rules(r)), NEW n \in m .. Len(Rules(r))
  PROVE  IsPrefix(Kept(r)[m], Kept(r)[n])
<1> DEFINE T == {d \in Nat : m + d <= Len(Rules(r)) => IsPrefix(Kept(r)[m], Kept(r)[m + d])}
<1>1. 0 \in T
  BY KeptType DEF IsPrefix
<1>2. ASSUME NEW d \in Nat, d \in T PROVE d + 1 \in T
  <2> SUFFICES ASSUME m + (d + 1) <= Len(Rules(r))
               PROVE  IsPrefix(Kept(r)[m], Kept(r)[m + (d + 1)])
    OBVIOUS
  <2> DEFINE s == Kept(r)[m]
             t == Kept(r)[m + d]
             u == Kept(r)[m + (d + 1)]
             e == Rules(r)[m + d + 1]
  <2>1. m + d \in 0 .. Len(Rules(r)) - 1 /\ m + (d + 1) = m + d + 1
    BY KeptStep
  <2>2. s \in Seq(AllRules) /\ t \in Seq(AllRules) /\ e \in AllRules
    BY <2>1, KeptStep, KeptType, FirewallAssumption
  <2>3. u = t \/ u = Append(t, e)
    BY <2>1, KeptStep
  <2>4. IsPrefix(s, t)
    BY <1>2, <2>1
  <2> HIDE DEF s, t, u, e
  <2>5. IsPrefix(s, Append(t, e))
    BY <2>2, <2>4 DEF IsPrefix
  <2> QED
    BY <2>3, <2>4, <2>5 DEF s, u
<1> HIDE DEF T
<1>3. Nat \subseteq T
  BY <1>1, <1>2, NatSetInduction
<1>4. n - m \in Nat /\ m + (n - m) = n /\ n <= Len(Rules(r))
  BY KeptStep
<1> QED
  BY <1>3, <1>4 DEF T
-----------------------------------------------------------------------------
LEMMA InitInductive == Init => IInv
<1> SUFFICES ASSUME Init PROVE IInv
  OBVIOUS
<1>1. PICK r \in Revisions : TRUE
  BY FirewallAssumption
<1>2. 0 \in 0 .. Len(Rules(r)) /\ chain = Kept(r)[0]
  BY KeptStep DEF Init
<1>3. Filling
  BY <1>1, <1>2 DEF Init, Filling
<1>4. chain \in Seq(AllRules) /\ links \in 0 .. MaxLinks
  BY FirewallAssumption DEF Init
<1>5. TypeOK
  BY <1>4 DEF Init, TypeOK, Commands
<1>6. Calling /\ Linked /\ Inserting /\ SuccessMeansInstalled /\ OneJump
  BY DEF Init, Calling, Linked, Inserting, SuccessMeansInstalled, OneJump
<1> QED
  BY <1>3, <1>5, <1>6 DEF IInv

\* A step that leaves the chain and the loop alone only has to account for the rest.
LEMMA FillingStays ==
  ASSUME Filling, UNCHANGED chain,
         pc' = "append" => pc = "append" /\ UNCHANGED <<rev, i>>
  PROVE  Filling'
BY DEF Filling

\* Every command, and what happens around them, preserves the invariant.
LEMMA NextInductive == IInv /\ [Next]_vars => IInv'
<1> SUFFICES ASSUME IInv, [Next]_vars PROVE IInv'
  OBVIOUS
<1>0. MaxLinks \in Nat
  BY FirewallAssumption
<1> USE <1>0 DEF IInv, Commands
<1>1. ASSUME NEW r \in Revisions, ApplyRevision(r) PROVE IInv'
  <2>1. Filling'
    BY <1>1, FillingStays DEF ApplyRevision, tables
  <2> QED
    BY <1>1, <2>1 DEF ApplyRevision, tables, TypeOK, Calling, Linked, Inserting,
       SuccessMeansInstalled, OneJump
<1>2. CASE CreateChain
  <2>1. Filling'
    BY <1>2, FillingStays DEF CreateChain, Goto
  <2> QED
    BY <1>2, <2>1 DEF CreateChain, Goto, TypeOK, Calling, Linked, Inserting,
       SuccessMeansInstalled, OneJump
<1>3. CASE ListLinks
  <2>1. Filling'
    BY <1>3, FillingStays DEF ListLinks, Goto, tables
  <2> QED
    BY <1>3, <2>1 DEF ListLinks, Goto, tables, TypeOK, Calling, Linked, Inserting,
       SuccessMeansInstalled, OneJump
<1>4. CASE ListFails
  <2>1. Filling'
    BY <1>4, FillingStays DEF ListFails, Goto
  <2>2. blind' \in BOOLEAN /\ (links = 0 \/ blind') /\ (blind => blind')
    BY <1>4 DEF ListFails, Linked, TypeOK
  <2> QED
    BY <1>4, <2>1, <2>2 DEF ListFails, Goto, TypeOK, Calling, Linked, Inserting,
       SuccessMeansInstalled, OneJump
<1>5. CASE CreateDockerUser
  <2>1. Filling'
    BY <1>5, FillingStays DEF CreateDockerUser, Goto
  <2> QED
    BY <1>5, <2>1 DEF CreateDockerUser, Goto, TypeOK, Calling, Linked, Inserting,
       SuccessMeansInstalled, OneJump
<1>6. CASE InsertLink
  <2>1. Filling'
    BY <1>6, FillingStays DEF InsertLink, Goto, Return
  <2>2. TypeOK' /\ links' = links + 1 /\ pc' \in {"idle", "flush"}
    BY <1>6 DEF InsertLink, Goto, Return, TypeOK
  <2>3. Calling' /\ SuccessMeansInstalled'
    BY <1>6 DEF InsertLink, Goto, Return, Calling, SuccessMeansInstalled
  <2>4. Linked' /\ Inserting' /\ OneJump'
    BY <1>6, <2>2 DEF InsertLink, TypeOK, Linked, Inserting, OneJump
  <2> QED
    BY <2>1, <2>2, <2>3, <2>4
<1>7. CASE CommandFails \/ Crash
  <2>1. Filling'
    BY <1>7, FillingStays DEF CommandFails, Crash, Return, tables
  <2> QED
    BY <1>7, <2>1 DEF CommandFails, Crash, Return, tables, TypeOK, Calling, Linked, Inserting,
       SuccessMeansInstalled, OneJump
<1>8. CASE DockerStarts
  <2>1. Filling'
    BY <1>8, FillingStays DEF DockerStarts, call
  <2> QED
    BY <1>8, <2>1 DEF DockerStarts, call, TypeOK, Calling, Linked, Inserting,
       SuccessMeansInstalled, OneJump
<1>9. CASE UNCHANGED vars
  <2>1. Filling'
    BY <1>9, FillingStays DEF vars, tables, call
  <2> QED
    BY <1>9, <2>1 DEF vars, tables, call, TypeOK, Calling, Linked, Inserting,
       SuccessMeansInstalled, OneJump
<1>10. CASE Flush
  <2>1. /\ rev \in Revisions /\ i = 0
        /\ chain' = <<>> /\ UNCHANGED <<rev, i, exists, docker, links, blind>>
    BY <1>10 DEF Flush, Goto, Return, Calling
  <2>2. Kept(rev)[0] = <<>> /\ 0 \in 0 .. Len(Rules(rev))
    BY <2>1, KeptStep
  <2>3. Filling'
    BY <2>1, <2>2 DEF Filling
  <2>4. <<>> \in Seq(AllRules)
    OBVIOUS
  <2> QED
    BY <1>10, <2>1, <2>3, <2>4 DEF Flush, Goto, Return, TypeOK, Calling, Linked, Inserting,
       SuccessMeansInstalled, OneJump
<1>11. CASE SkipRule
  <2>1. rev \in Revisions /\ i \in 0 .. Len(Rules(rev)) - 1 /\ chain = Kept(rev)[i]
    BY <1>11, KeptStep DEF SkipRule, More, Calling, Filling, TypeOK
  <2>2. Kept(rev)[i + 1] = Kept(rev)[i] /\ i + 1 \in 0 .. Len(Rules(rev))
    <3>1. Len(Rules(rev)) \in Nat /\ i + 1 \in 0 .. Len(Rules(rev))
      BY <2>1, KeptStep
    <3>2. Kept(rev)[i + 1] = IF Rules(rev)[i + 1] = EmptyRule THEN Kept(rev)[i]
                             ELSE Append(Kept(rev)[i], Rules(rev)[i + 1])
      BY <2>1, KeptStep
    <3> QED
      BY <1>11, <2>1, <3>1, <3>2 DEF SkipRule
  <2>3. Filling'
    BY <1>11, <2>1, <2>2 DEF SkipRule, Filling, tables
  <2> QED
    BY <1>11, <2>3 DEF SkipRule, tables, TypeOK, Calling, Linked, Inserting,
       SuccessMeansInstalled, OneJump
<1>12. CASE AppendRule
  <2>1. rev \in Revisions /\ i \in 0 .. Len(Rules(rev)) - 1 /\ chain = Kept(rev)[i]
    BY <1>12, KeptStep DEF AppendRule, More, Calling, Filling, TypeOK
  <2>2. chain' = Kept(rev)[i + 1] /\ i + 1 \in 0 .. Len(Rules(rev))
    <3>1. Len(Rules(rev)) \in Nat /\ i + 1 \in 0 .. Len(Rules(rev))
      BY <2>1, KeptStep
    <3>2. Kept(rev)[i + 1] = IF Rules(rev)[i + 1] = EmptyRule THEN Kept(rev)[i]
                             ELSE Append(Kept(rev)[i], Rules(rev)[i + 1])
      BY <2>1, KeptStep
    <3> QED
      BY <1>12, <2>1, <3>1, <3>2 DEF AppendRule
  <2>3. Filling'
    BY <1>12, <2>1, <2>2 DEF AppendRule, Return, Filling
  <2>4. chain' \in Seq(AllRules)
    BY <2>1, <2>2, KeptType
  <2> QED
    BY <1>12, <2>3, <2>4 DEF AppendRule, Return, TypeOK, Calling, Linked, Inserting,
       SuccessMeansInstalled, OneJump
<1>13. CASE Finish
  <2>1. chain = Effective(rev)
    BY <1>13, KeptStep DEF Finish, More, Calling, Filling, TypeOK, Effective
  <2>2. Filling'
    BY <1>13, FillingStays DEF Finish, Return, tables
  <2>3. SuccessMeansInstalled'
    BY <1>13, <2>1 DEF Finish, Return, tables, Linked, SuccessMeansInstalled, Effective
  <2> QED
    BY <1>13, <2>2, <2>3 DEF Finish, Return, tables, TypeOK, Calling, Linked, Inserting, OneJump
<1>14. CASE Reboot
  <2>1. PICK r \in Revisions : TRUE
    BY FirewallAssumption
  <2>2. chain' = Kept(r)[0] /\ 0 \in 0 .. Len(Rules(r))
    BY <1>14, <2>1, KeptStep DEF Reboot
  <2>3. Filling'
    BY <1>14, <2>1, <2>2 DEF Reboot, Return, Filling
  <2>4. chain' \in Seq(AllRules) /\ links' \in 0 .. MaxLinks
    BY <1>14 DEF Reboot
  <2>5. TypeOK'
    BY <1>14, <2>4 DEF Reboot, Return, TypeOK
  <2>6. Calling' /\ Linked' /\ Inserting' /\ SuccessMeansInstalled' /\ OneJump'
    BY <1>14 DEF Reboot, Return, Calling, Linked, Inserting, SuccessMeansInstalled, OneJump
  <2> QED
    BY <2>3, <2>5, <2>6
<1> QED
  BY <1>1, <1>2, <1>3, <1>4, <1>5, <1>6, <1>7, <1>8, <1>9, <1>10,
     <1>11, <1>12, <1>13, <1>14 DEF Next, Command

LEMMA Inductive == Spec => []IInv
<1>1. Init => IInv
  BY InitInductive
<1>2. IInv /\ [Next]_vars => IInv'
  BY NextInductive
<1> QED
  BY <1>1, <1>2, PTL DEF Spec
-----------------------------------------------------------------------------
\* The variables keep their types.
THEOREM TypeCorrect == Spec => []TypeOK
<1>1. IInv => TypeOK
  BY DEF IInv
<1> QED
  BY <1>1, Inductive, PTL

\* After a call of ApplyRevision that succeeds, exactly the revision's rules are in a
\* chain that traffic is sent through.
THEOREM SuccessIsInstalled == Spec => []SuccessMeansInstalled
<1>1. IInv => SuccessMeansInstalled
  BY DEF IInv
<1> QED
  BY <1>1, Inductive, PTL

\* Whatever fails or dies between two commands, the chain never holds rules of two
\* revisions.
THEOREM NeverMixed == Spec => []NoMixedRevisions
<1>1. IInv => NoMixedRevisions
  <2> SUFFICES ASSUME IInv PROVE NoMixedRevisions
    OBVIOUS
  <2>1. PICK r \in Revisions : \E n \in 0 .. Len(Rules(r)) : chain = Kept(r)[n]
    BY DEF IInv, Filling
  <2>2. PICK n \in 0 .. Len(Rules(r)) : chain = Kept(r)[n]
    BY <2>1
  <2>3. Len(Rules(r)) \in n .. Len(Rules(r))
    BY KeptStep
  <2>4. IsPrefix(Kept(r)[n], Kept(r)[Len(Rules(r))])
    BY <2>3, KeptGrows
  <2> QED
    BY <2>2, <2>4 DEF NoMixedRevisions, Effective
<1> QED
  BY <1>1, Inductive, PTL

\* A second jump takes a listing that failed although DOCKER-USER was there.
THEOREM JumpsOnce == Spec => []OneJump
<1>1. IInv => OneJump
  BY DEF IInv
<1> QED
  BY <1>1, Inductive, PTL
=============================================================================
