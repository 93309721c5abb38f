-------------------------- MODULE KeyRotationProofs -------------------------
(***************************************************************************)
(* What runs of the rotation preserve, for every set of usages, jobs and   *)
(* identifiers, every configuration, and every skew a key's life covers.   *)
(***************************************************************************)
EXTENDS KeyRotation, KeyTableLemmas

-----------------------------------------------------------------------------
(* The shape of each action, stated once *)

\* What TypeOK says, job by job.
LEMMA TypeOKOf ==
    ASSUME TypeOK, NEW j \in Job
    PROVE  /\ clock \in Int /\ begun[j] \in Int /\ Skew[j] \in Int
           /\ Now(j) \in Int
           /\ keys \subseteq Row /\ written[j] \subseteq Row
           /\ todo[j] \subseteq Usage
           /\ latest[j] \subseteq Int
           /\ \A k \in Visible(j) : k \in Row
BY JobAssumption DEF TypeOK, Now, Visible

LEMMA InitType == Init => TypeOK
BY DEF Init, TypeOK, UniqueIds

LEMMA NextType == IInv /\ [Next]_vars => TypeOK'
<1> SUFFICES ASSUME IInv, [Next]_vars
             PROVE  TypeOK'
    OBVIOUS
<1> USE DEF IInv, TypeOK
<1>1. CASE Tick
    BY <1>1 DEF Tick, jobVars
<1>2. ASSUME NEW j \in Job, Begin(j) PROVE TypeOK'
    BY <1>2 DEF Begin
<1>3. ASSUME NEW j \in Job, NEW u \in Usage, Search(j, u) PROVE TypeOK'
    <2>1. latest' \in [Job -> SUBSET Int]
          BY <1>3, TypeOKOf DEF Search, MainKeys, Newest, Matching, Row
    <2> QED BY <1>3, <2>1 DEF Search
<1>4. ASSUME NEW j \in Job, Generate(j) PROVE TypeOK'
    BY <1>4 DEF Generate
<1>5. ASSUME NEW j \in Job, Advance(j), written' \in [Job -> SUBSET Row]
      PROVE TypeOK'
    BY <1>5 DEF Advance
<1>6. ASSUME NEW j \in Job, Skip(j) PROVE TypeOK'
    BY <1>5, <1>6 DEF Skip
<1>7. ASSUME NEW j \in Job, Insert(j) PROVE TypeOK'
    <2>1. PICK id \in KeyId :
             written' = [written EXCEPT ![j] = @ \cup {NewRow(id, usage[j], Now(j))}]
          BY <1>7 DEF Insert
    <2>2. usage[j] \in Usage
          BY <1>7 DEF Insert, RunsEnsure, RunConsistent
    <2>3. NewRow(id, usage[j], Now(j)) \in Row
          BY <2>2, NewRowStored, TypeOKOf
    <2>4. written' \in [Job -> SUBSET Row]
          BY <2>1, <2>3
    <2> QED BY <1>5, <1>7, <2>4 DEF Insert
<1>8. ASSUME NEW j \in Job, NEW outcome \in {"ok", "error"}, Finish(j, outcome),
             keys' \subseteq Row, UniqueIds(keys')
      PROVE TypeOK'
    BY <1>8 DEF Finish
<1>9. ASSUME NEW j \in Job, keys' = keys \cup written[j]
      PROVE keys' \subseteq Row /\ UniqueIds(keys')
    BY <1>9 DEF UniqueIds, IdsDistinct
<1>10. ASSUME NEW j \in Job, Commit(j) \/ CommitUnacknowledged(j) PROVE TypeOK'
    BY <1>8, <1>9, <1>10 DEF Commit, CommitUnacknowledged
<1>11. ASSUME NEW j \in Job, Fail(j) PROVE TypeOK'
    BY <1>8, <1>11 DEF Fail
<1>12. ASSUME NEW k \in keys, NEW lead \in RevokeLead, Revoke(k, lead) PROVE TypeOK'
    <2>1. clock + lead \in Int
          BY JobAssumption
    <2>2. RevokedRow(k, clock + lead) \in Row /\ RevokedRow(k, clock + lead).id = k.id
          BY <2>1, RevokedRowStored DEF RowsStored
    <2>3. keys' \subseteq Row /\ UniqueIds(keys')
          BY <1>12, <2>2 DEF Revoke, UniqueIds
    <2> QED BY <1>12, <2>3 DEF Revoke, jobVars
<1>13. CASE UNCHANGED vars
    BY <1>13 DEF vars, jobVars
<1> QED BY <1>1, <1>2, <1>3, <1>4, <1>6, <1>7, <1>10, <1>11, <1>12, <1>13
        DEF Next, JobStep

LEMMA NextStored == IInv /\ [Next]_vars => RowsStored'
<1> SUFFICES ASSUME IInv, [Next]_vars
             PROVE  RowsStored'
    OBVIOUS
<1> USE DEF IInv, TypeOK, RowsStored
<1>1. ASSUME UNCHANGED <<keys, written>> PROVE RowsStored'
    BY <1>1
<1>2. ASSUME NEW j \in Job, Insert(j) PROVE RowsStored'
    <2>1. PICK id \in KeyId :
             written' = [written EXCEPT ![j] = @ \cup {NewRow(id, usage[j], Now(j))}]
          BY <1>2 DEF Insert
    <2>2. usage[j] \in Usage
          BY <1>2 DEF Insert, RunsEnsure, RunConsistent
    <2>3. Stored(NewRow(id, usage[j], Now(j)))
          BY <2>2, NewRowStored, TypeOKOf
    <2> QED BY <1>2, <2>1, <2>3 DEF Insert, Advance
<1>3. ASSUME NEW j \in Job, Commit(j) \/ CommitUnacknowledged(j) PROVE RowsStored'
    BY <1>3 DEF Commit, CommitUnacknowledged, Finish
<1>4. ASSUME NEW j \in Job, Fail(j) PROVE RowsStored'
    BY <1>4 DEF Fail, Finish
<1>5. ASSUME NEW k \in keys, NEW lead \in RevokeLead, Revoke(k, lead) PROVE RowsStored'
    <2>1. clock + lead \in Int
          BY JobAssumption
    <2>2. Stored(RevokedRow(k, clock + lead))
          BY <2>1, RevokedRowStored
    <2> QED BY <1>5, <2>2 DEF Revoke, jobVars
<1> QED BY <1>1, <1>2, <1>3, <1>4, <1>5
        DEF Next, JobStep, Tick, Begin, Search, Generate, Skip, Advance, vars, jobVars

LEMMA NextIdsDistinct == IInv /\ [Next]_vars => IdsDistinct'
<1> SUFFICES ASSUME IInv, [Next]_vars
             PROVE  IdsDistinct'
    OBVIOUS
<1> USE DEF IInv, TypeOK, IdsDistinct, UniqueIds
<1>1. ASSUME UNCHANGED <<keys, written>> PROVE IdsDistinct'
    BY <1>1
<1>2. ASSUME NEW j \in Job, Insert(j) PROVE IdsDistinct'
    <2>1. PICK id \in KeyId :
             /\ \A k \in keys \cup UNION {written[i] : i \in Job} : k.id # id
             /\ written' = [written EXCEPT ![j] = @ \cup {NewRow(id, usage[j], Now(j))}]
          BY <1>2 DEF Insert
    <2> DEFINE new == NewRow(id, usage[j], Now(j))
    <2>2. new.id = id
          BY DEF NewRow
    <2>3. /\ \A k \in keys : k.id # id
          /\ \A i \in Job : \A n \in written[i] : n.id # id
          BY <2>1
    <2>4. keys' = keys
          BY <1>2 DEF Insert, Advance
    <2> HIDE DEF new
    <2>5. /\ written'[j] = written[j] \cup {new}
          /\ \A i \in Job : i # j => written'[i] = written[i]
          BY <2>1 DEF new
    <2> QED BY <2>2, <2>3, <2>4, <2>5
<1>3. ASSUME NEW j \in Job, Commit(j) \/ CommitUnacknowledged(j) PROVE IdsDistinct'
    BY <1>3 DEF Commit, CommitUnacknowledged, Finish
<1>4. ASSUME NEW j \in Job, Fail(j) PROVE IdsDistinct'
    BY <1>4 DEF Fail, Finish
<1>5. ASSUME NEW k \in keys, NEW lead \in RevokeLead, Revoke(k, lead) PROVE IdsDistinct'
    <2>1. clock + lead \in Int
          BY JobAssumption
    <2>2. RevokedRow(k, clock + lead).id = k.id
          BY <2>1, RevokedRowStored DEF RowsStored
    <2> QED BY <1>5, <2>2 DEF Revoke, jobVars
<1> QED BY <1>1, <1>2, <1>3, <1>4, <1>5
        DEF Next, JobStep, Tick, Begin, Search, Generate, Skip, Advance, vars, jobVars

LEMMA NextRunConsistent == IInv /\ [Next]_vars => \A i \in Job : RunConsistent(i)'
<1> SUFFICES ASSUME IInv, [Next]_vars, NEW i \in Job
             PROVE  RunConsistent(i)'
    OBVIOUS
<1> USE DEF IInv, TypeOK, RunsEnsure, RunConsistent
<1>1. CASE Tick
    BY <1>1 DEF Tick, jobVars
<1>2. ASSUME NEW j \in Job, Begin(j) PROVE RunConsistent(i)'
    BY <1>2 DEF Begin
<1>3. ASSUME NEW j \in Job, NEW u \in Usage, Search(j, u) PROVE RunConsistent(i)'
    <2>1. \A c \in latest'[j] : c = Round(c)
          BY <1>3 DEF Search, MainKeys, Newest, Matching, Visible, RowsStored, Stored
    <2> QED BY <1>3, <2>1 DEF Search
<1>4. ASSUME NEW j \in Job, Generate(j) PROVE RunConsistent(i)'
    BY <1>4 DEF Generate
<1>5. ASSUME NEW j \in Job, Skip(j) PROVE RunConsistent(i)'
    BY <1>5 DEF Skip, Advance
<1>6. ASSUME NEW j \in Job, Insert(j) PROVE RunConsistent(i)'
    <2>1. PICK id \in KeyId :
             written' = [written EXCEPT ![j] = @ \cup {NewRow(id, usage[j], Now(j))}]
          BY <1>6 DEF Insert
    <2> DEFINE new == NewRow(id, usage[j], Now(j))
    <2>2. new.usage = usage[j] /\ new.deletedAt = {}
          BY DEF NewRow
    <2> HIDE DEF new
    <2>3. /\ written'[j] = written[j] \cup {new}
          /\ i # j => written'[i] = written[i]
          BY <2>1 DEF new
    <2> QED BY <1>6, <2>2, <2>3 DEF Insert, Advance
<1>7. ASSUME NEW j \in Job, NEW outcome, Finish(j, outcome) PROVE RunConsistent(i)'
    BY <1>7 DEF Finish
<1>8. ASSUME NEW k \in keys, NEW lead \in RevokeLead, Revoke(k, lead)
      PROVE RunConsistent(i)'
    BY <1>8 DEF Revoke, jobVars
<1>9. CASE UNCHANGED vars
    BY <1>9 DEF vars, jobVars
<1> QED BY <1>1, <1>2, <1>3, <1>4, <1>5, <1>6, <1>7, <1>8, <1>9
        DEF Next, JobStep, Commit, CommitUnacknowledged, Fail

\* A key that a run may rely on is still there, for that run, once revoked.
LEMMA CurrentOnceRevoked ==
    ASSUME IInv, NEW j \in Job, NEW k \in keys, NEW lead \in RevokeLead,
           CurrentAsOf(k, begun[j])
    PROVE  CurrentAsOf(RevokedRow(k, clock + lead), begun[j])
<1>1. clock + lead \in Int /\ begun[j] \in Int /\ begun[j] =< clock + lead
      BY JobAssumption DEF IInv, TypeOK, RunsEnsure, RunConsistent
<1> QED BY <1>1, RevokedIsCurrent DEF IInv, TypeOK

LEMMA NextCovered == IInv /\ [Next]_vars => \A i \in Job : Covered(i)'
<1> SUFFICES ASSUME IInv, [Next]_vars, NEW i \in Job, pc'[i] # "idle",
                    NEW u \in Usage \ todo'[i]
             PROVE  \E k \in Visible(i)' : Ensures(i, k, u)'
    BY DEF Covered
<1> USE DEF IInv, TypeOK, RunsEnsure
<1>1. ASSUME pc[i] # "idle", u \notin todo[i], begun'[i] = begun[i],
             Visible(i) \subseteq Visible(i)'
      PROVE  \E k \in Visible(i)' : Ensures(i, k, u)'
    BY <1>1 DEF Covered, Ensures
<1>2. CASE Tick \/ UNCHANGED vars
    BY <1>1, <1>2 DEF Tick, vars, jobVars, Visible
<1>3. ASSUME NEW j \in Job, Begin(j) PROVE \E k \in Visible(i)' : Ensures(i, k, u)'
    BY <1>1, <1>3 DEF Begin, Visible
<1>4. ASSUME NEW j \in Job, NEW v \in Usage, Search(j, v)
      PROVE \E k \in Visible(i)' : Ensures(i, k, u)'
    BY <1>1, <1>4 DEF Search, Visible
<1>5. ASSUME NEW j \in Job, Generate(j) PROVE \E k \in Visible(i)' : Ensures(i, k, u)'
    BY <1>1, <1>5 DEF Generate, Visible
<1>6. ASSUME NEW j \in Job, Skip(j) PROVE \E k \in Visible(i)' : Ensures(i, k, u)'
    <2>1. CASE i = j /\ u = usage[j]
          <3>1. PICK c \in latest[j] : ~(Now(j) - c >= Sec(Rotation[u]))
                BY <1>6, <2>1 DEF Skip, Due
          <3>2. PICK k \in Visible(j) : /\ k.usage = u
                                        /\ k.createdAt = c
                                        /\ CurrentAsOf(k, begun[j])
                BY <1>6, <2>1, <3>1 DEF Skip, LatestStands
          <3>3. begun[j] \in Int /\ clock \in Int /\ c \in Int /\ begun[j] =< clock
                BY TypeOKOf DEF RunConsistent
          <3>4. Sec(Rotation[u]) \in Int
                BY ConfigAssumption DEF Sec
          <3>5. begun[j] + Skew[j] - c < Sec(Rotation[u])
                BY <3>1, <3>3, <3>4, JobAssumption DEF Now
          <3>6. InWindow(k, begun[j] + Skew[j])
                <4>1. k.createdAt = c /\ k.usage = u
                      BY <3>2
                <4> QED BY <4>1, <3>3, <3>4, <3>5, JobAssumption DEF InWindow
          <3>7. Ensures(j, k, u)
                BY <3>2, <3>6 DEF Ensures
          <3> QED BY <1>6, <2>1, <3>7 DEF Skip, Advance, Visible, Ensures
    <2>2. CASE ~(i = j /\ u = usage[j])
          BY <1>1, <1>6, <2>2 DEF Skip, Advance, Visible
    <2> QED BY <2>1, <2>2
<1>7. ASSUME NEW j \in Job, Insert(j) PROVE \E k \in Visible(i)' : Ensures(i, k, u)'
    <2>1. PICK id \in KeyId :
             written' = [written EXCEPT ![j] = @ \cup {NewRow(id, usage[j], Now(j))}]
          BY <1>7 DEF Insert
    <2> DEFINE new == NewRow(id, usage[j], Now(j))
    <2>2. keys' = keys /\ begun' = begun
          BY <1>7 DEF Insert, Advance
    <2>3. CASE i = j /\ u = usage[j]
          <3>1. /\ begun[j] \in Int /\ clock \in Int /\ Skew[j] \in Int
                /\ begun[j] =< clock /\ TTL[u] \in Int /\ Now(j) \in Int
                BY ConfigAssumption, TypeOKOf DEF RunConsistent
          <3>2. /\ new.usage = u /\ new.deletedAt = {}
                /\ new.createdAt = Round(Now(j))
                /\ new.expiresAt = Round(Now(j)) + Sec(TTL[u])
                BY <2>3, <3>1, RoundShift DEF NewRow
          <3> HIDE DEF new
          <3>3. Round(Now(j)) \in Int /\ Now(j) - 1 =< Round(Now(j))
                BY <3>1, RoundNear
          <3>4. Sec(TTL[u]) \in Int /\ Sec(TTL[u]) + Skew[j] >= 2
                BY <3>1, SkewAssumption DEF Sec
          <3>5. new.expiresAt > begun[j]
                BY <3>1, <3>2, <3>3, <3>4 DEF Now
          <3>6. Round(begun[j] + Skew[j]) =< Round(Now(j))
                BY <3>1, RoundMonotone DEF Now
          <3>7. Ensures(j, new, u)
                BY <3>2, <3>5, <3>6 DEF Ensures, CurrentAsOf, InWindow
          <3>8. new \in Visible(j)'
                BY <2>1 DEF Visible, new
          <3> QED BY <2>2, <2>3, <3>7, <3>8 DEF Ensures
    <2>4. CASE ~(i = j /\ u = usage[j])
          <3>1. Visible(i) \subseteq Visible(i)'
                BY <2>1, <2>2 DEF Visible
          <3>2. pc[i] # "idle" /\ u \notin todo[i]
                BY <1>7, <2>4 DEF Insert, Advance
          <3> QED BY <1>1, <2>2, <3>1, <3>2
    <2> QED BY <2>3, <2>4
<1>8. ASSUME NEW j \in Job, NEW outcome, Finish(j, outcome), keys \subseteq keys'
      PROVE \E k \in Visible(i)' : Ensures(i, k, u)'
    BY <1>1, <1>8 DEF Finish, Visible
<1>9. ASSUME NEW k \in keys, NEW lead \in RevokeLead, Revoke(k, lead)
      PROVE \E m \in Visible(i)' : Ensures(i, m, u)'
    <2> DEFINE new == RevokedRow(k, clock + lead)
    <2>1. /\ keys' = (keys \ {k}) \cup {new}
          /\ pc' = pc /\ todo' = todo /\ begun' = begun /\ written' = written
          BY <1>9 DEF Revoke, jobVars
    <2>2. PICK m \in Visible(i) : Ensures(i, m, u)
          BY <2>1 DEF Covered
    <2>3. CASE m = k
          <3>1. clock + lead \in Int
                BY JobAssumption
          <3>2. new.usage = k.usage /\ new.createdAt = k.createdAt
                BY <3>1, RevokedRowStored DEF RowsStored
          <3>3. CurrentAsOf(new, begun[i])
                BY <2>2, <2>3, CurrentOnceRevoked DEF Ensures
          <3>4. Ensures(i, new, u)
                BY <2>2, <2>3, <3>2, <3>3 DEF Ensures, InWindow
          <3> QED BY <2>1, <3>4 DEF Visible, Ensures
    <2>4. CASE m # k
          BY <2>1, <2>2, <2>4 DEF Visible, Ensures
    <2> QED BY <2>3, <2>4
<1> QED BY <1>2, <1>3, <1>4, <1>5, <1>6, <1>7, <1>8, <1>9
        DEF Next, JobStep, Commit, CommitUnacknowledged, Fail

LEMMA NextLatestStands == IInv /\ [Next]_vars => \A i \in Job : LatestStands(i)'
<1> SUFFICES ASSUME IInv, [Next]_vars, NEW i \in Job, pc'[i] = "found",
                    NEW c \in latest'[i]
             PROVE  \E k \in Visible(i)' : /\ k.usage = usage'[i]
                                           /\ k.createdAt = c
                                           /\ CurrentAsOf(k, begun'[i])
    BY DEF LatestStands, CurrentAsOf
<1> DEFINE Stands == \E k \in Visible(i)' : /\ k.usage = usage'[i]
                                            /\ k.createdAt = c
                                            /\ CurrentAsOf(k, begun'[i])
<1> USE DEF IInv, TypeOK, RunsEnsure
<1>1. ASSUME pc[i] = "found", UNCHANGED <<latest[i], usage[i], begun[i]>>,
             Visible(i) \subseteq Visible(i)'
      PROVE  Stands
    BY <1>1 DEF LatestStands
<1>2. CASE Tick \/ UNCHANGED vars
    BY <1>1, <1>2 DEF Tick, vars, jobVars, Visible
<1>3. ASSUME NEW j \in Job, Begin(j) PROVE Stands
    BY <1>1, <1>3 DEF Begin, Visible
<1>4. ASSUME NEW j \in Job, NEW v \in Usage, Search(j, v) PROVE Stands
    <2>1. CASE i = j
          <3>1. PICK k \in MainKeys(Visible(j), v, begun[j]) : c = k.createdAt
                BY <1>4, <2>1 DEF Search
          <3>2. k \in Visible(j) /\ k.usage = v /\ Active(k, begun[j])
                BY <3>1 DEF MainKeys, Newest, Matching
          <3>3. k \in Row /\ Stored(k) /\ begun[j] \in Int
                BY <3>2, TypeOKOf DEF RowsStored, Visible
          <3>4. CurrentAsOf(k, begun[j])
                BY <3>2, <3>3, ActiveIsCurrent
          <3> QED BY <1>4, <2>1, <3>1, <3>2, <3>4 DEF Search, Visible
    <2>2. CASE i # j
          BY <1>1, <1>4, <2>2 DEF Search, Visible
    <2> QED BY <2>1, <2>2
<1>5. ASSUME NEW j \in Job, Generate(j) PROVE Stands
    BY <1>1, <1>5 DEF Generate, Visible
<1>6. ASSUME NEW j \in Job, Skip(j) PROVE Stands
    BY <1>1, <1>6 DEF Skip, Advance, Visible
<1>7. ASSUME NEW j \in Job, Insert(j) PROVE Stands
    BY <1>1, <1>7 DEF Insert, Advance, Visible
<1>8. ASSUME NEW j \in Job, NEW outcome, Finish(j, outcome), keys \subseteq keys'
      PROVE Stands
    BY <1>1, <1>8 DEF Finish, Visible
<1>9. ASSUME NEW k \in keys, NEW lead \in RevokeLead, Revoke(k, lead) PROVE Stands
    <2> DEFINE new == RevokedRow(k, clock + lead)
    <2>1. /\ keys' = (keys \ {k}) \cup {new}
          /\ UNCHANGED jobVars
          BY <1>9 DEF Revoke
    <2>2. PICK m \in Visible(i) : /\ m.usage = usage[i]
                                  /\ m.createdAt = c
                                  /\ CurrentAsOf(m, begun[i])
          BY <2>1 DEF jobVars, LatestStands
    <2>3. CASE m = k
          <3>1. clock + lead \in Int
                BY JobAssumption
          <3>2. new.usage = k.usage /\ new.createdAt = k.createdAt
                BY <3>1, RevokedRowStored DEF RowsStored
          <3>3. CurrentAsOf(new, begun[i])
                BY <2>2, <2>3, CurrentOnceRevoked
          <3>4. new \in Visible(i)'
                BY <2>1 DEF Visible
          <3> HIDE DEF new
          <3> QED BY <2>1, <2>2, <2>3, <3>2, <3>3, <3>4 DEF jobVars
    <2>4. CASE m # k
          BY <2>1, <2>2, <2>4 DEF Visible, jobVars
    <2> QED BY <2>3, <2>4
<1> QED BY <1>2, <1>3, <1>4, <1>5, <1>6, <1>7, <1>8, <1>9
        DEF Next, JobStep, Commit, CommitUnacknowledged, Fail

LEMMA NextAllOrNothing == IInv /\ [Next]_vars => AllOrNothing'
<1> SUFFICES ASSUME IInv, [Next]_vars
             PROVE  AllOrNothing'
    OBVIOUS
<1> USE DEF IInv, TypeOK, RunsEnsure, AllOrNothing
<1>1. ASSUME UNCHANGED keys PROVE AllOrNothing'
    BY <1>1
<1>2. ASSUME NEW j \in Job, Commit(j) \/ CommitUnacknowledged(j) PROVE AllOrNothing'
    BY <1>2 DEF Commit, CommitUnacknowledged, Covered, Ensures, Visible
<1>3. ASSUME NEW k \in keys, NEW lead \in RevokeLead, Revoke(k, lead) PROVE AllOrNothing'
    <2>1. clock + lead \in Int
          BY JobAssumption
    <2>2. RevokedRow(k, clock + lead).usage = k.usage
          BY <2>1, RevokedRowStored DEF RowsStored
    <2> QED BY <1>3, <2>2 DEF Revoke
<1> QED BY <1>1, <1>2, <1>3
        DEF Next, JobStep, Tick, Begin, Search, Generate, Skip, Insert, Advance,
            Fail, vars


-----------------------------------------------------------------------------
(* The theorems that need no exclusion between runs *)

LEMMA InitIInv == Init => IInv
<1> SUFFICES ASSUME Init PROVE IInv
    OBVIOUS
<1>1. TypeOK /\ RowsStored /\ IdsDistinct /\ AllOrNothing
      BY InitType DEF Init, RowsStored, IdsDistinct, UniqueIds, AllOrNothing
<1>2. RunsEnsure
      BY DEF Init, RunsEnsure, RunConsistent, Covered, LatestStands
<1> QED BY <1>1, <1>2 DEF IInv

LEMMA NextIInv == IInv /\ [Next]_vars => IInv'
BY NextType, NextStored, NextIdsDistinct, NextRunConsistent, NextCovered,
   NextLatestStands, NextAllOrNothing
   DEF IInv, RunsEnsure

LEMMA Inductive == Spec => []IInv
BY InitIInv, NextIInv, PTL DEF Spec

\* The variables of the rotation keep their types, and a key is generated once.
THEOREM TypeCorrect == Spec => []TypeOK
<1>1. IInv => TypeOK
      BY DEF IInv
<1> QED BY <1>1, Inductive, PTL

\* The rotation is a single unit of work: all usages have a key, or none ever did.
THEOREM RotationIsAllOrNothing == Spec => []AllOrNothing
<1>1. IInv => AllOrNothing
      BY DEF IInv
<1> QED BY <1>1, Inductive, PTL

LEMMA CommitEnsures ==
    IInv /\ [Next]_vars =>
        \A j \in Job : reported'[j] = "ok" /\ reported[j] # "ok" =>
            \A u \in Usage : \E k \in keys' : Ensures(j, k, u)
<1> SUFFICES ASSUME IInv, [Next]_vars, NEW j \in Job,
                    reported'[j] = "ok", reported[j] # "ok",
                    NEW u \in Usage
             PROVE  \E k \in keys' : Ensures(j, k, u)
    OBVIOUS
<1> USE DEF IInv, TypeOK
<1>1. Commit(j)
      BY DEF Next, JobStep, Tick, Begin, Search, Generate, Skip, Insert, Advance,
             Commit, CommitUnacknowledged, Fail, Finish, Revoke, vars, jobVars
<1> QED BY <1>1 DEF Commit, RunsEnsure, Covered, Visible

\* A run that reports success leaves every usage with a current key.
THEOREM SuccessEnsures == Spec => SuccessEnsuresEveryUsage
<1>1. IInv /\ [Next]_vars =>
          [\A j \in Job : reported'[j] = "ok" /\ reported[j] # "ok" =>
              \A u \in Usage : \E k \in keys' : Ensures(j, k, u)]_vars
      BY CommitEnsures
<1> QED BY <1>1, Inductive, PTL DEF Spec, SuccessEnsuresEveryUsage

-----------------------------------------------------------------------------
(* Withdrawal is final *)

LEMMA NextWithdrawn ==
    IInv /\ IInv' /\ [Next]_vars =>
        \A k \in keys, m \in keys' :
            k.id = m.id /\ Active(m, clock') => Active(k, clock)
<1> SUFFICES ASSUME IInv, IInv', [Next]_vars,
                    NEW k \in keys, NEW m \in keys',
                    k.id = m.id, Active(m, clock')
             PROVE  Active(k, clock)
    OBVIOUS
<1> USE DEF IInv, TypeOK
<1>1. ASSUME keys \subseteq keys', clock' \in {clock, clock + 1} PROVE Active(k, clock)
    <2>1. k = m
          BY <1>1 DEF UniqueIds
    <2> QED BY <1>1, <2>1, ActiveEarlier
<1>2. ASSUME NEW j \in Job, Commit(j) \/ CommitUnacknowledged(j) PROVE Active(k, clock)
    BY <1>1, <1>2 DEF Commit, CommitUnacknowledged, Finish
<1>3. ASSUME NEW n \in keys, NEW lead \in RevokeLead, Revoke(n, lead)
      PROVE Active(k, clock)
    <2> DEFINE new == RevokedRow(n, clock + lead)
    <2>1. clock + lead \in Int
          BY JobAssumption
    <2>2. new.id = n.id /\ new.expiresAt = n.expiresAt
          BY <2>1, RevokedRowStored DEF RowsStored
    <2>3. Revocable(n, clock) /\ keys' = (keys \ {n}) \cup {new} /\ clock' = clock
          BY <1>3 DEF Revoke
    <2>4. CASE m = new
          <3>1. k = n
                BY <2>2, <2>4 DEF UniqueIds
          <3> QED BY <2>2, <2>3, <2>4, <3>1 DEF Active, Revocable
    <2>5. CASE m # new
          <3>1. k = m
                BY <2>3, <2>5 DEF UniqueIds
          <3> QED BY <2>3, <3>1
    <2> QED BY <2>4, <2>5
<1> QED BY <1>1, <1>2, <1>3
        DEF Next, JobStep, Tick, Begin, Search, Generate, Skip, Insert, Advance,
            Fail, Finish, vars, jobVars

\* A key that has stopped being served is never served again.
THEOREM WithdrawalIsFinal == Spec => WithdrawnForGood
<1>1. IInv /\ IInv' /\ [Next]_vars =>
          [\A k \in keys, m \in keys' :
              k.id = m.id /\ Active(m, clock') => Active(k, clock)]_vars
      BY NextWithdrawn
<1> QED BY <1>1, Inductive, PTL DEF Spec, WithdrawnForGood

-----------------------------------------------------------------------------
(* One run at a time *)

LEMMA NextOneRun == ~Overlap /\ IInv /\ SerialInv /\ [Next]_vars => OneRun'
<1> SUFFICES ASSUME ~Overlap, IInv, SerialInv, [Next]_vars
             PROVE  OneRun'
    OBVIOUS
<1> USE DEF IInv, TypeOK, SerialInv, OneRun
<1>1. ASSUME NEW j \in Job, Begin(j) PROVE OneRun'
    BY <1>1 DEF Begin
<1>2. ASSUME \A j \in Job : pc[j] = "idle" => pc'[j] = "idle" PROVE OneRun'
    BY <1>2
<1> QED BY <1>1, <1>2
        DEF Next, JobStep, Tick, Search, Generate, Skip, Insert, Advance,
            Commit, CommitUnacknowledged, Fail, Finish, Revoke, vars, jobVars

\* What the table serves of a usage, to a run in progress, only shrinks.
LEMMA MatchingShrinks ==
    ASSUME IInv, SerialInv, [Next]_vars, NEW i \in Job, NEW u \in Usage,
           pc[i] # "idle", pc'[i] # "idle",
           NEW m \in Matching(keys', u, begun[i])
    PROVE  \E k \in Matching(keys, u, begun[i]) : k.createdAt = m.createdAt
<1> USE DEF IInv, TypeOK
<1>1. ASSUME UNCHANGED keys
      PROVE  \E k \in Matching(keys, u, begun[i]) : k.createdAt = m.createdAt
    BY <1>1
<1>2. ASSUME NEW j \in Job, Commit(j) \/ CommitUnacknowledged(j)
      PROVE  FALSE
    <2>1. pc[j] # "idle" /\ pc'[j] = "idle"
          BY <1>2 DEF Commit, CommitUnacknowledged, Finish
    <2> QED BY <2>1 DEF SerialInv, OneRun
<1>3. ASSUME NEW n \in keys, NEW lead \in RevokeLead, Revoke(n, lead)
      PROVE  \E k \in Matching(keys, u, begun[i]) : k.createdAt = m.createdAt
    <2> DEFINE new == RevokedRow(n, clock + lead)
    <2>1. clock + lead \in Int
          BY JobAssumption
    <2>2. /\ new.usage = n.usage /\ new.createdAt = n.createdAt
          /\ new.expiresAt = n.expiresAt
          BY <2>1, RevokedRowStored DEF RowsStored
    <2>3. n.deletedAt = {} /\ keys' = (keys \ {n}) \cup {new}
          BY <1>3 DEF Revoke, Revocable
    <2>4. CASE m = new
          <3>1. n \in Matching(keys, u, begun[i])
                BY <2>2, <2>3, <2>4 DEF Matching, Active
          <3> QED BY <2>2, <2>4, <3>1
    <2>5. CASE m # new
          BY <2>3, <2>5 DEF Matching
    <2> QED BY <2>4, <2>5
<1> QED BY <1>1, <1>2, <1>3
        DEF Next, JobStep, Tick, Begin, Search, Generate, Skip, Insert, Advance,
            Fail, vars

LEMMA NextLatestBounds ==
    IInv /\ SerialInv /\ [Next]_vars => \A i \in Job : LatestBounds(i)'
<1> SUFFICES ASSUME IInv, SerialInv, [Next]_vars, NEW i \in Job, pc'[i] = "found",
                    NEW m \in Matching(keys', usage'[i], begun'[i])
             PROVE  \E c \in latest'[i] : m.createdAt =< c
    BY DEF LatestBounds, Matching, Active
<1> USE DEF IInv, TypeOK, RunsEnsure
<1>1. ASSUME pc[i] = "found", UNCHANGED <<latest[i], usage[i], begun[i]>>
      PROVE  \E c \in latest'[i] : m.createdAt =< c
    <2>1. usage[i] \in Usage
          BY <1>1 DEF RunConsistent
    <2>2. PICK k \in Matching(keys, usage[i], begun[i]) : k.createdAt = m.createdAt
          BY <1>1, <2>1, MatchingShrinks
    <2> QED BY <1>1, <2>2 DEF SerialInv, LatestBounds
<1>2. ASSUME NEW j \in Job, NEW u \in Usage, Search(j, u)
      PROVE  \E c \in latest'[i] : m.createdAt =< c
    <2>1. CASE i = j
          <3>1. m \in Matching(Visible(j), u, begun[j])
                BY <1>2, <2>1 DEF Search, Matching, Visible
          <3>2. PICK k \in MainKeys(Visible(j), u, begun[j]) :
                   latest' = [latest EXCEPT ![j] = {k.createdAt}]
                BY <1>2, <3>1 DEF Search
          <3> QED BY <2>1, <3>1, <3>2 DEF MainKeys, Newest
    <2>2. CASE i # j
          BY <1>1, <1>2, <2>2 DEF Search
    <2> QED BY <2>1, <2>2
<1>3. ASSUME ~ \E j \in Job, u \in Usage : Search(j, u)
      PROVE  pc[i] = "found" /\ UNCHANGED <<latest[i], usage[i], begun[i]>>
    BY <1>3 DEF Next, JobStep, Tick, Begin, Generate, Skip, Insert, Advance,
                Commit, CommitUnacknowledged, Fail, Finish, Revoke, vars, jobVars
<1> QED BY <1>1, <1>2, <1>3

\* The database's clock never goes back.
LEMMA ClockAdvances == TypeOK /\ [Next]_vars => clock =< clock'
<1> SUFFICES ASSUME TypeOK, [Next]_vars
             PROVE  clock =< clock'
    OBVIOUS
<1>1. clock \in Nat
      BY DEF TypeOK
<1>2. clock' = clock \/ clock' = clock + 1
      BY DEF Next, JobStep, Tick, Begin, Search, Generate, Skip, Insert, Advance,
             Commit, CommitUnacknowledged, Fail, Finish, Revoke, vars
<1> QED BY <1>1, <1>2

LEMMA NextWindowElapsed ==
    IInv /\ SerialInv /\ [Next]_vars => \A i \in Job : WindowElapsed(i)'
<1> SUFFICES ASSUME IInv, SerialInv, [Next]_vars, NEW i \in Job, pc'[i] = "insert",
                    NEW m \in Matching(keys', usage'[i], begun'[i])
             PROVE  Now(i)' - m.createdAt >= Sec(Rotation[usage'[i]])
    BY DEF WindowElapsed, Matching, Active, Now, Sec
<1> USE DEF IInv, TypeOK, RunsEnsure
<1>1. clock =< clock' /\ clock \in Int /\ clock' \in Int /\ Skew[i] \in Int
      BY ClockAdvances, NextType, JobAssumption
<1>2. /\ pc[i] \in {"found", "insert"}
      /\ UNCHANGED <<usage[i], begun[i]>>
      /\ pc[i] = "found" => Due(i)
    BY DEF Next, JobStep, Tick, Begin, Search, Generate, Skip, Insert, Advance,
           Commit, CommitUnacknowledged, Fail, Finish, Revoke, vars, jobVars
<1>3. usage[i] \in Usage
      BY <1>2 DEF RunConsistent
<1>4. PICK k \in Matching(keys, usage[i], begun[i]) : k.createdAt = m.createdAt
      BY <1>2, <1>3, MatchingShrinks
<1>5. k.createdAt \in Int /\ Sec(Rotation[usage[i]]) \in Int
      BY <1>3, ConfigAssumption DEF Matching, Row, Sec
<1>6. Now(i) - k.createdAt >= Sec(Rotation[usage[i]])
      <2>1. CASE pc[i] = "found"
            <3>1. PICK c \in latest[i] : k.createdAt =< c
                  BY <1>4, <2>1 DEF SerialInv, LatestBounds
            <3>2. Now(i) - c >= Sec(Rotation[usage[i]])
                  BY <1>2, <2>1, <3>1 DEF Due
            <3>3. c \in Int
                  BY <3>1
            <3> QED BY <1>1, <1>5, <3>1, <3>2, <3>3 DEF Now
      <2>2. CASE pc[i] = "insert"
            BY <1>4, <2>2 DEF SerialInv, WindowElapsed
      <2> QED BY <1>2, <2>1, <2>2
<1> QED BY <1>1, <1>2, <1>4, <1>5, <1>6 DEF Now

LEMMA NextWrittenSpaced ==
    IInv /\ SerialInv /\ [Next]_vars => \A i \in Job : WrittenSpaced(i)'
<1> SUFFICES ASSUME IInv, SerialInv, [Next]_vars, NEW i \in Job,
                    NEW n \in written'[i],
                    NEW m \in Matching(keys', n.usage, begun'[i])
             PROVE  Spaced(m, n)
    BY DEF WrittenSpaced, Matching, Active, Spaced, Sec
<1> USE DEF IInv, TypeOK, RunsEnsure
<1>1. /\ pc[i] # "idle" /\ pc'[i] # "idle" /\ begun'[i] = begun[i]
      <2>1. pc'[i] # "idle"
            BY NextRunConsistent DEF RunConsistent
      <2>2. CASE written'[i] = written[i]
            <3>1. pc[i] # "idle"
                  BY <2>2 DEF RunConsistent
            <3> QED BY <2>1, <3>1
                    DEF Next, JobStep, Tick, Begin, Search, Generate, Skip, Insert,
                        Advance, Commit, CommitUnacknowledged, Fail, Finish, Revoke,
                        vars, jobVars
      <2>3. CASE written'[i] # written[i]
            <3>1. Insert(i)
                  BY <2>1, <2>3
                  DEF Next, JobStep, Tick, Begin, Search, Generate, Skip, Insert,
                      Advance, Commit, CommitUnacknowledged, Fail, Finish, Revoke,
                      vars, jobVars
            <3> QED BY <2>1, <3>1 DEF Insert, Advance
      <2> QED BY <2>2, <2>3
<1>2. n.usage \in Usage
      BY NextType DEF Row
<1>3. PICK k \in Matching(keys, n.usage, begun[i]) : k.createdAt = m.createdAt
      BY <1>1, <1>2, MatchingShrinks
<1>4. Spaced(k, n)
      <2>1. CASE n \in written[i]
            BY <1>3, <2>1 DEF SerialInv, WrittenSpaced
      <2>2. CASE n \notin written[i]
            <3>1. Insert(i)
                  BY <2>2 DEF Next, JobStep, Tick, Begin, Search, Generate, Skip,
                              Insert, Advance, Commit, CommitUnacknowledged, Fail,
                              Finish, Revoke, vars, jobVars
            <3>2. pc[i] = "insert" /\ usage[i] \in Usage
                  BY <3>1 DEF Insert, RunConsistent
            <3>3. /\ n.usage = usage[i]
                  /\ n.createdAt = Round(Now(i))
                  BY <2>2, <3>1 DEF Insert, NewRow
            <3>4. Now(i) - k.createdAt >= Sec(Rotation[usage[i]])
                  BY <1>3, <3>2, <3>3 DEF SerialInv, WindowElapsed
            <3>5. /\ Now(i) \in Int /\ Rotation[usage[i]] \in Int
                  /\ k.createdAt \in Int /\ k.createdAt = Round(k.createdAt)
                  BY <3>2, ConfigAssumption, TypeOKOf
                     DEF Matching, Row, RowsStored, Stored
            <3>6. /\ k.createdAt + Sec(Rotation[usage[i]]) \in Int
                  /\ k.createdAt + Sec(Rotation[usage[i]]) =< Now(i)
                  BY <3>4, <3>5 DEF Sec
            <3>7. Round(k.createdAt + Sec(Rotation[usage[i]]))
                      = k.createdAt + Sec(Rotation[usage[i]])
                  BY <3>5, RoundFixed
            <3>8. k.createdAt + Sec(Rotation[usage[i]]) =< Round(Now(i))
                  BY <3>5, <3>6, <3>7, RoundMonotone
            <3>9. Round(Now(i)) \in Int /\ Sec(Rotation[usage[i]]) \in Int
                  BY <3>5, RoundNear DEF Sec
            <3> QED BY <3>3, <3>5, <3>8, <3>9 DEF Spaced
      <2> QED BY <2>1, <2>2
<1> QED BY <1>3, <1>4 DEF Spaced

LEMMA InitSerialInv == Init => SerialInv
BY DEF Init, SerialInv, OneRun, LatestBounds, WindowElapsed, WrittenSpaced

LEMMA SerialInductive ==
    ASSUME ~Overlap
    PROVE  Spec => [](IInv /\ SerialInv)
<1>1. Init => IInv /\ SerialInv
      BY InitIInv, InitSerialInv
<1>2. IInv /\ SerialInv /\ [Next]_vars => IInv' /\ SerialInv'
      <2>1. IInv /\ SerialInv /\ [Next]_vars => SerialInv'
            BY NextOneRun, NextLatestBounds, NextWindowElapsed, NextWrittenSpaced
               DEF SerialInv
      <2> QED BY <2>1, NextIInv
<1> QED BY <1>1, <1>2, PTL DEF Spec

-----------------------------------------------------------------------------
(* The rotation implements the key ring *)

\* The operators on rows mean the same in the instance.
LEMMA RingOperators ==
    /\ Ring!Row = Row
    /\ \A n : Ring!Sec(n) = Sec(n)
    /\ \A rows, u, t : Ring!Matching(rows, u, t) = Matching(rows, u, t)
    /\ \A k, t : Ring!Revocable(k, t) = Revocable(k, t)
    /\ \A k, n : Ring!Spaced(k, n) = Spaced(k, n)
    /\ \A rows : Ring!UniqueIds(rows) = UniqueIds(rows)
BY DEF Ring!Row, Ring!Sec, Ring!Matching, Ring!Revocable, Ring!Spaced,
       Ring!UniqueIds, Ring!Active, Row, Sec, Matching, Revocable, Spaced,
       UniqueIds, Active

LEMMA StepImplementsRing ==
    IInv /\ IInv' /\ SerialInv /\ [Next]_vars => [Ring!Next]_(Ring!ringVars)
<1> SUFFICES ASSUME IInv, IInv', SerialInv, [Next]_vars
             PROVE  Ring!Next \/ UNCHANGED <<clock, keys>>
    BY DEF Ring!ringVars
<1> USE DEF IInv, TypeOK
<1>1. CASE Tick
    BY <1>1 DEF Tick, Ring!Next, Ring!Tick
<1>2. ASSUME NEW j \in Job, Commit(j) \/ CommitUnacknowledged(j)
      PROVE  Ring!Publish
    <2>1. /\ pc[j] = "next" /\ todo[j] = {} /\ clock' = clock
          /\ keys' = keys \cup written[j]
          BY <1>2 DEF Commit, CommitUnacknowledged, Finish
    <2>2. keys' \ keys = written[j]
          BY <2>1 DEF IdsDistinct
    <2>3. \A n \in written[j] : /\ n.deletedAt = {}
                                /\ n.expiresAt = n.createdAt + Sec(TTL[n.usage])
          BY DEF RunsEnsure, RunConsistent, RowsStored, Stored
    <2>4. \A n, m \in written[j] : n.usage = m.usage => n = m
          BY DEF RunsEnsure, RunConsistent
    <2>5. ASSUME NEW n \in written[j], NEW k \in Matching(keys, n.usage, clock)
          PROVE  Spaced(k, n)
          <3>1. k \in Row /\ Active(k, clock)
                BY DEF Matching
          <3>2. begun[j] \in Int /\ clock \in Int /\ begun[j] =< clock
                BY DEF RunsEnsure, RunConsistent
          <3>3. Active(k, begun[j])
                BY <3>1, <3>2, ActiveEarlier
          <3> QED BY <2>5, <3>3 DEF Matching, SerialInv, WrittenSpaced
    <2>6. \A u \in Usage : \E k \in keys' : k.usage = u
          BY <2>1 DEF RunsEnsure, Covered, Visible, Ensures
    <2> QED BY <2>1, <2>2, <2>3, <2>4, <2>5, <2>6, RingOperators DEF Ring!Publish
<1>3. ASSUME NEW k \in keys, NEW lead \in RevokeLead, Revoke(k, lead)
      PROVE  Ring!Revoke
    <2>1. /\ Revocable(k, clock) /\ clock' = clock
          /\ keys' = (keys \ {k}) \cup {RevokedRow(k, clock + lead)}
          BY <1>3 DEF Revoke
    <2> DEFINE r == RevokedRow(k, clock + lead)
    <2>0. r.deletedAt = {Round(clock + lead)}
          <3>1. clock + lead \in Int
                BY JobAssumption
          <3> QED BY <3>1, RevokedRowStored DEF RowsStored
    <2>2. r \in keys' /\ r \in Row
          BY <2>1
    <2>3. r = [k EXCEPT !.deletedAt = r.deletedAt]
          BY <2>0 DEF RevokedRow
    <2> HIDE DEF r
    <2>4. keys' = (keys \ {k}) \cup {r}
          BY <2>1 DEF r
    <2> QED BY <2>1, <2>2, <2>3, <2>4, RingOperators DEF Ring!Revoke
<1>4. ASSUME NEW j \in Job, Begin(j) \/ Generate(j) \/ Skip(j) \/ Insert(j) \/ Fail(j)
      PROVE  UNCHANGED <<clock, keys>>
    BY <1>4 DEF Begin, Generate, Skip, Insert, Advance, Fail, Finish
<1>5. ASSUME NEW j \in Job, NEW u \in Usage, Search(j, u)
      PROVE  UNCHANGED <<clock, keys>>
    BY <1>5 DEF Search
<1> QED BY <1>1, <1>2, <1>3, <1>4, <1>5 DEF Next, JobStep, Ring!Next, vars

\* Runs that never overlap implement the key ring: each commits a whole batch,
\* spaced from every key that is still served, or changes nothing.
THEOREM RotationImplementsRing ==
    ASSUME ~Overlap
    PROVE  Spec => RingSpec
<1>1. Init => Ring!Init
      BY DEF Init, Ring!Init
<1> QED BY <1>1, StepImplementsRing, SerialInductive, PTL
        DEF Spec, RingSpec, Ring!Spec

RingProofs == INSTANCE KeyRingProofs

LEMMA RingProofsOperators ==
    /\ RingProofs!Row = Row
    /\ \A n : RingProofs!Sec(n) = Sec(n)
    /\ \A rows, u, t : RingProofs!Matching(rows, u, t) = Matching(rows, u, t)
    /\ \A k, t : RingProofs!Revocable(k, t) = Revocable(k, t)
    /\ \A k, n : RingProofs!Spaced(k, n) = Spaced(k, n)
    /\ \A rows : RingProofs!UniqueIds(rows) = UniqueIds(rows)
    /\ \A rows, t : RingProofs!AllSpaced(rows, t) = AllSpaced(rows, t)
BY DEF RingProofs!Row, RingProofs!Sec, RingProofs!Matching, RingProofs!Revocable,
       RingProofs!Spaced, RingProofs!UniqueIds, RingProofs!Active,
       RingProofs!AllSpaced, Row, Sec, Matching, Revocable, Spaced, UniqueIds,
       Active, AllSpaced

LEMMA NextSpaced ==
    IInv /\ IInv' /\ SerialInv /\ ActiveSpaced /\ [Next]_vars => ActiveSpaced'
<1> SUFFICES ASSUME IInv, IInv', SerialInv, ActiveSpaced, [Next]_vars
             PROVE  ActiveSpaced'
    OBVIOUS
<1>1. RingProofs!RingTypeOK
      BY RingProofsOperators DEF RingProofs!RingTypeOK, IInv, TypeOK
<1>2. RingProofs!RingSpaced
      BY RingProofsOperators DEF RingProofs!RingSpaced, ActiveSpaced
<1>3. [RingProofs!Next]_(RingProofs!ringVars)
      BY StepImplementsRing, RingOperators, RingProofsOperators
         DEF Ring!Next, Ring!ringVars, Ring!Tick, Ring!Publish, Ring!Revoke,
             RingProofs!Next, RingProofs!ringVars, RingProofs!Tick,
             RingProofs!Publish, RingProofs!Revoke
<1>4. RingProofs!RingSpaced'
      <2>1. RingProofs!ConfigAssumption
            BY ConfigAssumption DEF RingProofs!ConfigAssumption
      <2> QED BY <2>1, <1>1, <1>2, <1>3, RingProofs!RingNextSpaced
<1> QED BY <1>4, RingProofsOperators DEF RingProofs!RingSpaced, ActiveSpaced

\* The keys of a usage that are served at once are a rotation interval apart.
THEOREM ActiveKeysSpaced ==
    ASSUME ~Overlap
    PROVE  Spec => []ActiveSpaced
<1>1. Init => ActiveSpaced
      BY DEF Init, ActiveSpaced, AllSpaced
<1>2. IInv /\ IInv' /\ SerialInv /\ ActiveSpaced /\ [Next]_vars => ActiveSpaced'
      BY NextSpaced
<1> QED BY <1>1, <1>2, SerialInductive, PTL DEF Spec

LEMMA SpacedMeansSingle ==
    ASSUME TypeOK, ActiveSpaced, \A u \in Usage : Rotation[u] > 0
    PROVE  SingleMainKey
<1> SUFFICES ASSUME NEW u \in Usage,
                    NEW k \in MainKeys(keys, u, clock),
                    NEW m \in MainKeys(keys, u, clock),
                    k # m
             PROVE  FALSE
    BY DEF SingleMainKey
<1>1. /\ k \in Row /\ m \in Row /\ k \in keys /\ m \in keys
      /\ k.usage = u /\ m.usage = u
      /\ Active(k, clock) /\ Active(m, clock)
      /\ k.createdAt =< m.createdAt /\ m.createdAt =< k.createdAt
      BY DEF MainKeys, Newest, Matching, TypeOK
<1>2. Spaced(k, m) \/ Spaced(m, k)
      BY <1>1 DEF ActiveSpaced, AllSpaced
<1>3. Rotation[u] \in Nat /\ Rotation[u] > 0
      BY ConfigAssumption
<1> QED BY <1>1, <1>2, <1>3 DEF Spaced, Sec, Row

\* Every usage has at most one main key, if its rotation interval is not zero.
THEOREM MainKeyIsSingle ==
    ASSUME ~Overlap, \A u \in Usage : Rotation[u] > 0
    PROVE  Spec => []SingleMainKey
<1>1. TypeOK /\ ActiveSpaced => SingleMainKey
      BY SpacedMeansSingle
<1> QED BY <1>1, TypeCorrect, ActiveKeysSpaced, PTL

-----------------------------------------------------------------------------
(* How many keys are served at once *)

\* Every key was dated by the clock of some job.
Dated(k) == \E j \in Job : k.createdAt =< Round(Now(j))

CountInv == /\ IsFiniteSet(keys)
            /\ \A k \in keys : Dated(k)
            /\ \A j \in Job : IsFiniteSet(written[j]) /\ \A n \in written[j] : Dated(n)

\* Clocks go on.
LEMMA DatedStays ==
    ASSUME TypeOK, [Next]_vars, NEW k \in Row, Dated(k)
    PROVE  Dated(k)'
<1>1. PICK j \in Job : k.createdAt =< Round(Now(j))
      BY DEF Dated
<1>2. clock =< clock' /\ clock' \in Int
      <2>1. clock' = clock \/ clock' = clock + 1
            BY DEF Next, Tick, JobStep, Begin, Search, Generate, Skip, Advance, Insert,
                   Commit, CommitUnacknowledged, Fail, Finish, Revoke, vars
      <2> QED BY <2>1 DEF TypeOK
<1>3. Now(j) \in Int /\ Now(j)' \in Int /\ Now(j) =< Now(j)'
      BY <1>2, TypeOKOf, JobAssumption DEF Now
<1>4. Round(Now(j)) \in Int /\ Round(Now(j)') \in Int /\ Round(Now(j)) =< Round(Now(j)')
      BY <1>3, RoundNear, RoundMonotone
<1>5. k.createdAt =< Round(Now(j)')
      BY <1>1, <1>4 DEF Row
<1> QED BY <1>5 DEF Dated, Now, Round

LEMMA NextCount == IInv /\ CountInv /\ [Next]_vars => CountInv'
<1> SUFFICES ASSUME IInv, CountInv, [Next]_vars
             PROVE  CountInv'
    OBVIOUS
<1>0. /\ TypeOK
      /\ \A k \in keys : Dated(k)'
      /\ \A j \in Job : \A n \in written[j] : Dated(n)'
      BY DatedStays DEF IInv, CountInv, TypeOK
<1>1. ASSUME UNCHANGED <<keys, written>>
      PROVE  CountInv'
      BY <1>0, <1>1 DEF CountInv
<1>2. ASSUME NEW j \in Job, Insert(j)
      PROVE  CountInv'
      <2>1. PICK id \in KeyId :
               written' = [written EXCEPT ![j] = @ \cup {NewRow(id, usage[j], Now(j))}]
            BY <1>2 DEF Insert
      <2> PICK n : n = NewRow(id, usage[j], Now(j))
          OBVIOUS
      <2>2. keys' = keys /\ clock' = clock
            BY <1>2 DEF Insert, Advance
      <2>3. n.createdAt = Round(Now(j)) /\ Round(Now(j)) \in Int
            BY <1>0, TypeOKOf, RoundNear DEF NewRow
      <2>4. Dated(n)
            BY <2>3 DEF Dated
      <2>5. Dated(n)'
            BY <2>2, <2>4 DEF Dated, Now
      <2>6. /\ written'[j] = written[j] \cup {n}
            /\ \A i \in Job : i # j => written'[i] = written[i]
            BY <2>1, <1>0 DEF TypeOK
      <2>7. IsFiniteSet(written[j] \cup {n})
            BY FS_AddElement DEF CountInv
      <2> QED BY <1>0, <2>2, <2>5, <2>6, <2>7 DEF CountInv
<1>3. ASSUME NEW j \in Job, keys' = keys \cup written[j] \/ keys' = keys,
             written' = [written EXCEPT ![j] = {}]
      PROVE  CountInv'
      <2>1. IsFiniteSet(keys') /\ IsFiniteSet({})
            <3>1. IsFiniteSet(keys \cup written[j])
                  BY FS_Union DEF CountInv
            <3> QED BY <1>3, <3>1, FS_EmptySet DEF CountInv
      <2>2. \A i \in Job : written'[i] = written[i] \/ written'[i] = {}
            BY <1>0, <1>3 DEF TypeOK
      <2> QED BY <1>0, <1>3, <2>1, <2>2 DEF CountInv
<1>4. ASSUME NEW j \in Job, Commit(j) \/ CommitUnacknowledged(j) \/ Fail(j)
      PROVE  CountInv'
      BY <1>3, <1>4 DEF Commit, CommitUnacknowledged, Fail, Finish
<1>5. ASSUME NEW k \in keys, NEW lead \in RevokeLead, Revoke(k, lead)
      PROVE  CountInv'
      <2>1. /\ keys' = (keys \ {k}) \cup {RevokedRow(k, clock + lead)}
            /\ clock' = clock /\ written' = written
            BY <1>5 DEF Revoke, jobVars
      <2>2. IsFiniteSet(keys')
            BY <2>1, FS_RemoveElement, FS_AddElement DEF CountInv
      <2>3. RevokedRow(k, clock + lead).createdAt = k.createdAt
            BY <1>0, JobAssumption, RevokedIsRow DEF TypeOK
      <2>4. Dated(RevokedRow(k, clock + lead))'
            BY <1>0, <2>1, <2>3 DEF Dated, Now
      <2> QED BY <1>0, <2>1, <2>2, <2>4 DEF CountInv
<1> QED BY <1>1, <1>2, <1>4, <1>5
        DEF Next, JobStep, Tick, Begin, Search, Generate, Skip, Advance, vars, jobVars

LEMMA CountBounds ==
    ASSUME IInv, CountInv, ActiveSpaced, Job # {}
    PROVE  ActiveBounded
<1> SUFFICES ASSUME NEW u \in Usage
             PROVE  \E j \in Job :
                       Sec(Rotation[u]) * (Cardinality(Matching(keys, u, clock)) - 1)
                           =< Sec(TTL[u]) + Skew[j]
    BY DEF ActiveBounded
<1> DEFINE S == Matching(keys, u, clock)
<1>1. /\ clock \in Int /\ keys \in SUBSET Row /\ S \in SUBSET Row
      /\ \A k \in keys : Stored(k)
      BY DEF IInv, TypeOK, RowsStored, Matching
<1>2. IsFiniteSet(S) /\ Cardinality(S) \in Nat
      <2>1. S \in SUBSET keys
            BY DEF Matching
      <2> QED BY <2>1, FS_Subset, FS_CardinalityType DEF CountInv
<1>3. \A j \in Job : /\ Sec(TTL[u]) \in Int /\ Skew[j] \in Int
                     /\ Sec(TTL[u]) + Skew[j] >= 0
      BY SkewAssumption, JobAssumption, ConfigAssumption DEF Sec
<1> PICK i \in Job : TRUE
    OBVIOUS
<1>4. Rotation[u] \in Nat
      BY ConfigAssumption
<1>5. CASE S = {}
      <2>1. Cardinality(S) = 0
            BY <1>5, FS_EmptySet
      <2> HIDE DEF S
      <2>2. Sec(Rotation[u]) * (Cardinality(S) - 1) =< 0
            BY <1>4, <2>1 DEF Sec
      <2>3. Sec(Rotation[u]) * (Cardinality(S) - 1) =< Sec(TTL[u]) + Skew[i]
            BY <1>3, <1>4, <2>1, <2>2 DEF Sec
      <2> QED BY <2>3 DEF S
<1>6. CASE S # {} /\ Rotation[u] = 0
      <2> HIDE DEF S
      <2>1. Sec(Rotation[u]) * (Cardinality(S) - 1) = 0
            BY <1>2, <1>6 DEF Sec
      <2>2. Sec(Rotation[u]) * (Cardinality(S) - 1) =< Sec(TTL[u]) + Skew[i]
            BY <1>3, <2>1
      <2> QED BY <2>2 DEF S
<1>7. CASE S # {} /\ Rotation[u] > 0
      <2>1. PICK m \in S : \A k \in S : k.createdAt =< m.createdAt
            BY <1>1, <1>2, <1>7, NewestOfFinite DEF Newest
      <2>2. PICK j \in Job : m.createdAt =< Round(Now(j))
            BY <2>1 DEF CountInv, Dated, Matching
      <2>3. Round(Now(j)) \in Int /\ Round(Now(j)) =< clock + Skew[j] + 1
            BY <1>1, <1>3, RoundNear DEF Now
      <2>4. \A k \in S : k.createdAt \in Int
            BY <1>1 DEF Row
      <2>5. \A k \in S : k.createdAt =< clock + Skew[j] + 1
            BY <1>1, <1>3, <2>1, <2>2, <2>3, <2>4
      <2>6. Sec(Rotation[u]) * (Cardinality(S) - 1) =< Sec(TTL[u]) + Skew[j]
            BY <1>1, <1>3, <1>7, <2>5, ActiveCount DEF ActiveSpaced
      <2> QED BY <2>6
<1> QED BY <1>4, <1>5, <1>6, <1>7

\* Without overlap, the keys of a usage served at once are no more than rotation intervals
\* in a lifetime, whatever is revoked, retried or rolled back: far below LIMIT.
THEOREM ActiveKeysBounded ==
    ASSUME ~Overlap, Job # {}
    PROVE  Spec => []ActiveBounded
<1>1. Init => CountInv
      BY FS_EmptySet DEF Init, CountInv
<1>2. IInv /\ CountInv /\ [Next]_vars => CountInv'
      BY NextCount
<1>3. IInv /\ CountInv /\ ActiveSpaced => ActiveBounded
      BY CountBounds
<1> QED BY <1>1, <1>2, <1>3, Inductive, ActiveKeysSpaced, PTL DEF Spec

=============================================================================
