---------------------------- MODULE PartyHubProofs ----------------------------
(* Theorems about PartyHub, for every value of its constants. *)
EXTENDS PartyHub, FiniteSetTheorems, TLAPS

USE PartyHubAssumption

\* Removing a member keeps the types of what it changes.
LEMMA RemoveMemberType ==
  ASSUME TypeOK, NEW p \in Codes, NEW i, RemoveMember(p, i)
  PROVE  /\ members' \in [Codes -> SUBSET Objs]
         /\ code' \in [Objs -> Codes \cup {NoCode}]
         /\ parties' \in SUBSET Codes
  BY DEF TypeOK, RemoveMember

\* Leaving a party, or a party that is gone, keeps the types.
LEMMA LeavePartyType ==
  ASSUME TypeOK, NEW o \in Objs, code[o] # NoCode, LeaveParty(o)
  PROVE  /\ members' \in [Codes -> SUBSET Objs]
         /\ code' \in [Objs -> Codes \cup {NoCode}]
         /\ parties' \in SUBSET Codes
  <1>1. code[o] \in Codes
    BY DEF TypeOK
  <1>2. CASE RemoveMember(code[o], info[o].id)
    BY <1>1, <1>2, RemoveMemberType
  <1>3. CASE code' = [code EXCEPT ![o] = NoCode] /\ UNCHANGED <<parties, members>>
    BY <1>3 DEF TypeOK
  <1> QED
    BY <1>2, <1>3 DEF LeaveParty

\* Adding a member keeps the types of what it changes.
LEMMA AddMemberType ==
  ASSUME TypeOK, NEW p \in Codes, NEW o \in Objs, AddMember(p, o)
  PROVE  /\ members' \in [Codes -> SUBSET Objs]
         /\ code' \in [Objs -> Codes \cup {NoCode}]
         /\ halted' \in SUBSET Codes
  BY DEF TypeOK, AddMember

\* A leave that panics half-way removes members and may leave an empty party.
LEMMA LeavePanicsType ==
  ASSUME TypeOK, NEW cn \in Conns, LeavePanics(cn)
  PROVE  /\ st' \in [Conns -> ConnState]
         /\ members' \in [Codes -> SUBSET Objs]
         /\ code' \in [Objs -> Codes \cup {NoCode}]
         /\ halted' \in SUBSET Codes
  <1>1. st' \in [Conns -> ConnState] /\ code[cl[cn]] \in Codes
    BY DEF TypeOK, LeavePanics, ConnState
  <1> QED
    BY <1>1 DEF TypeOK, LeavePanics

\* The empty hub has the right types.
LEMMA TypeInit == Init => TypeOK
  BY DEF Init, TypeOK, ConnState

\* One step per action: the variables the action assigns keep their types.
LEMMA TypeNext == TypeOK /\ [Next]_vars => TypeOK'
  <1> SUFFICES ASSUME TypeOK, [Next]_vars PROVE TypeOK'
    OBVIOUS
  <1>1. ASSUME NEW cn \in Conns, Open(cn) PROVE TypeOK'
    BY <1>1 DEF TypeOK, Open, ConnState
  <1>2. ASSUME NEW cn \in Conns, NEW i \in Ids, NEW n \in Names, RegisterRejected(cn, i, n)
        PROVE  TypeOK'
    BY <1>2 DEF TypeOK, RegisterRejected, ConnState
  <1>3. ASSUME NEW cn \in Conns, NEW i \in Ids, NEW n \in Names, NEW o \in Objs,
               Register(cn, i, n, o)
        PROVE  TypeOK'
    <2>1. st' \in [Conns -> ConnState]
      BY <1>3 DEF TypeOK, Register, CloseConn, ConnState
    <2>2. [id |-> i, name |-> n, conn |-> cn, test |-> FALSE] \in Info
      BY DEF Info
    <2> QED
      BY <1>3, <2>1, <2>2 DEF TypeOK, Register
  <1>4. ASSUME NEW cn \in Conns, ReadFails(cn) PROVE TypeOK'
    <2>1. clients' \in [Ids -> Objs \cup {NoObj}]
      BY <1>4 DEF TypeOK, ReadFails
    <2> QED
      BY <1>4, <2>1 DEF TypeOK, ReadFails, ConnState
  <1>5. ASSUME NEW cn \in Conns, FinishDisconnect(cn) PROVE TypeOK'
    <2>1. st' \in [Conns -> ConnState]
      BY <1>5 DEF TypeOK, FinishDisconnect, ConnState
    <2>2. /\ members' \in [Codes -> SUBSET Objs]
          /\ code' \in [Objs -> Codes \cup {NoCode}]
          /\ parties' \in SUBSET Codes
      <3>1. cl[cn] \in Objs
        BY <1>5 DEF FinishDisconnect, TypeOK
      <3>2. CASE code[cl[cn]] # NoCode /\ LeaveParty(cl[cn])
        BY <3>1, <3>2, LeavePartyType
      <3>3. CASE UNCHANGED <<code, parties, members>>
        BY <3>3 DEF TypeOK
      <3> QED
        BY <1>5, <3>2, <3>3 DEF FinishDisconnect
    <2> QED
      BY <1>5, <2>1, <2>2 DEF TypeOK, FinishDisconnect
  <1>6. ASSUME NEW cn \in Conns, NEW p \in Codes, HandleCreateParty(cn, p) PROVE TypeOK'
    <2>1. cl[cn] \in Objs
      BY <1>6 DEF HandleCreateParty, InLoop, TypeOK
    <2> QED
      BY <1>6, <2>1, AddMemberType DEF TypeOK, HandleCreateParty
  <1>7. ASSUME NEW cn \in Conns, NEW p \in Codes, HandleJoinParty(cn, p) PROVE TypeOK'
    <2>1. cl[cn] \in Objs
      BY <1>7 DEF HandleJoinParty, InLoop, TypeOK
    <2> QED
      BY <1>7, <2>1, AddMemberType DEF TypeOK, HandleJoinParty
  <1>8. ASSUME NEW cn \in Conns, HandleLeaveParty(cn) PROVE TypeOK'
    <2>1. cl[cn] \in Objs
      BY <1>8 DEF HandleLeaveParty, InLoop, TypeOK
    <2> QED
      BY <1>8, <2>1, LeavePartyType DEF TypeOK, HandleLeaveParty
  <1>9. ASSUME NEW i \in Ids, NEW n \in Names, NEW o \in Objs, CreateTestClient(i, n, o)
        PROVE  TypeOK'
    <2>1. [id |-> i, name |-> n, conn |-> NoConn, test |-> TRUE] \in Info
      BY DEF Info
    <2> QED
      BY <1>9, <2>1 DEF TypeOK, CreateTestClient
  <1>10. ASSUME NEW i \in Ids, RemoveTestClient(i) PROVE TypeOK'
    <2>1. /\ clients[i] \in Objs
          /\ code[clients[i]] \in Codes \cup {NoCode}
      BY <1>10 DEF RemoveTestClient, TypeOK
    <2> QED
      BY <1>10, <2>1 DEF TypeOK, RemoveTestClient
  <1>11. ASSUME NEW r \in removal, FinishRemoval(r) PROVE TypeOK'
    <2>1. removal' \in SUBSET (Objs \X (Codes \cup {NoCode}))
      BY <1>11 DEF FinishRemoval, TypeOK
    <2>2. /\ members' \in [Codes -> SUBSET Objs]
          /\ code' \in [Objs -> Codes \cup {NoCode}]
          /\ parties' \in SUBSET Codes
      BY <1>11, RemoveMemberType DEF FinishRemoval, TypeOK
    <2> QED
      BY <1>11, <2>1, <2>2 DEF FinishRemoval, TypeOK
  <1>12. CASE CleanupTestClients
    BY <1>12 DEF TypeOK, CleanupTestClients
  <1>13. ASSUME NEW i \in Ids, NEW p \in Codes, NEW S \in SUBSET Ids, CreateTestParty(i, p, S)
         PROVE  TypeOK'
    BY <1>13 DEF TypeOK, CreateTestParty
  <1>14. ASSUME NEW i \in Ids, NEW p \in Codes, JoinTestParty(i, p) PROVE TypeOK'
    <2>1. clients[i] \in Objs
      BY <1>14 DEF JoinTestParty, TypeOK
    <2> QED
      BY <1>14, <2>1, AddMemberType DEF TypeOK, JoinTestParty
  <1>15. ASSUME NEW i \in Ids, LeaveTestParty(i) PROVE TypeOK'
    <2>1. clients[i] \in Objs
      BY <1>15 DEF LeaveTestParty, TypeOK
    <2> QED
      BY <1>15, <2>1, LeavePartyType DEF TypeOK, LeaveTestParty
  <1>16. ASSUME NEW p \in Codes, DeleteParty(p) PROVE TypeOK'
    BY <1>16 DEF TypeOK, DeleteParty
  <1>17. CASE CleanupEmptyParties
    BY <1>17 DEF TypeOK, CleanupEmptyParties
  <1>18. CASE UNCHANGED vars
    BY <1>18 DEF TypeOK, vars
  <1>19. ASSUME NEW cn \in Conns, Panic(cn) PROVE TypeOK'
    BY <1>19 DEF TypeOK, Panic, ConnState
  <1>20. ASSUME NEW cn \in Conns, NEW i \in Ids, NEW n \in Names, NEW o \in Objs,
                RegisterPanics(cn, i, n, o)
         PROVE  TypeOK'
    <2>1. st' \in [Conns -> ConnState]
      BY <1>20 DEF TypeOK, RegisterPanics, ConnState
    <2>2. [id |-> i, name |-> n, conn |-> cn, test |-> FALSE] \in Info
      BY DEF Info
    <2> QED
      BY <1>20, <2>1, <2>2 DEF TypeOK, RegisterPanics
  <1>21. ASSUME NEW cn \in Conns, LeavePanics(cn) PROVE TypeOK'
    BY <1>21, LeavePanicsType DEF TypeOK, LeavePanics
  <1> QED
    BY <1>1, <1>2, <1>3, <1>4, <1>5, <1>6, <1>7, <1>8, <1>9, <1>10, <1>11, <1>12, <1>13,
       <1>14, <1>15, <1>16, <1>17, <1>18, <1>19, <1>20, <1>21
       DEF Next, ConnNext, AdminNext

\* Every variable of the hub keeps its type, whatever connections, clients and
\* administrators do.
THEOREM TypeCorrect == Spec => []TypeOK
  BY TypeInit, TypeNext, PTL DEF Spec

-----------------------------------------------------------------------------
(* The party invariant *)

\* Members is a set of objects of the finite pool.
LEMMA MembersFinite ==
  ASSUME TypeOK, NEW p \in Codes
  PROVE  IsFiniteSet(members[p]) /\ Cardinality(members[p]) \in Nat
  <1>1. members[p] \in SUBSET Objs
    BY DEF TypeOK
  <1> QED
    BY <1>1, FS_Subset, FS_CardinalityType

\* RemoveMember takes a subset away and deletes the party it emptied.
LEMMA RemoveMemberInv ==
  ASSUME PartyInv, NEW p \in parties, NEW i, RemoveMember(p, i), UNCHANGED <<info, halted>>
  PROVE  MembersAgree' /\ NoEmptyParty' /\ Capacity'
  <1> USE DEF PartyInv
  <1>0. p \in Codes
    BY DEF TypeOK
  <1> DEFINE removed == {m \in members[p] : info[m].id = i}
             rest == members[p] \ removed
  <1>1. /\ members' = [members EXCEPT ![p] = rest]
        /\ code' = [m \in Objs |-> IF m \in removed THEN NoCode ELSE code[m]]
        /\ parties' = IF rest = {} THEN parties \ {p} ELSE parties
    BY DEF RemoveMember
  <1>2. /\ members'[p] = rest
        /\ \A q \in Codes : q # p => members'[q] = members[q]
        /\ \A q \in Codes : members'[q] \subseteq members[q]
    BY <1>0, <1>1 DEF TypeOK
  <1>3. MembersAgree'
    <2> SUFFICES ASSUME NEW q \in Codes, NEW o \in members'[q]
                 PROVE  /\ q \in parties' /\ o \in Allocated' /\ code'[o] = q
                        /\ \A m \in members'[q] : info'[m].id = info'[o].id => m = o
      BY DEF MembersAgree
    <2>1. /\ o \in members[q] /\ q \in parties /\ o \in Allocated /\ code[o] = q
          /\ \A m \in members[q] : info[m].id = info[o].id => m = o
      BY <1>2 DEF MembersAgree
    <2>2. o \notin removed
      <3>1. CASE q = p
        BY <1>2, <3>1
      <3>2. CASE q # p
        BY <1>0, <2>1, <3>2 DEF MembersAgree
      <3> QED
        BY <3>1, <3>2
    <2>3. q \in parties'
      BY <1>1, <1>2, <2>1
    <2> QED
      BY <1>1, <1>2, <2>1, <2>2, <2>3 DEF Allocated
  <1>4. NoEmptyParty'
    BY <1>0, <1>1, <1>2 DEF NoEmptyParty, TypeOK
  <1>5. Capacity'
    <2> SUFFICES ASSUME NEW q \in Codes PROVE Cardinality(members'[q]) <= MaxMembers
      BY DEF Capacity
    <2>1. Cardinality(members'[q]) <= Cardinality(members[q]) /\ Cardinality(members'[q]) \in Nat
      BY <1>2, MembersFinite, FS_Subset, FS_CardinalityType
    <2> QED
      BY <2>1, MembersFinite DEF Capacity
  <1> QED
    BY <1>3, <1>4, <1>5

\* LeaveParty leaves parties consistent, whether the party still exists or not.
LEMMA LeavePartyInv ==
  ASSUME PartyInv, NEW o \in Objs, code[o] # NoCode, LeaveParty(o), UNCHANGED <<info, halted>>
  PROVE  MembersAgree' /\ NoEmptyParty' /\ Capacity'
  <1>1. CASE code[o] \in parties /\ RemoveMember(code[o], info[o].id)
    BY <1>1, RemoveMemberInv
  <1>2. CASE /\ code[o] \notin parties
             /\ code' = [code EXCEPT ![o] = NoCode]
             /\ UNCHANGED <<parties, members>>
    <2>1. \A p \in Codes : o \notin members[p]
      BY <1>2 DEF PartyInv, MembersAgree
    <2>2. MembersAgree'
      BY <1>2, <2>1 DEF PartyInv, TypeOK, MembersAgree, Allocated
    <2> QED
      BY <1>2, <2>2 DEF PartyInv, NoEmptyParty, Capacity
  <1> QED
    BY <1>1, <1>2 DEF LeaveParty

\* AddMember of an object that is in no party, to a party with room or to the
\* new party of code p.
LEMMA AddMemberInv ==
  ASSUME PartyInv, NEW p \in Codes, NEW o \in Allocated, code[o] = NoCode,
         AddMember(p, o), parties' = parties \cup {p}, info' = info,
         HasRoom(p)
  PROVE  MembersAgree' /\ NoEmptyParty' /\ Capacity'
  <1> USE DEF PartyInv
  <1>0. o \in Objs
    BY DEF Allocated
  <1> DEFINE others == {m \in members[p] : info[m].id # info[o].id}
  <1>1. /\ members' = [members EXCEPT ![p] = others \cup {o}]
        /\ code' = [code EXCEPT ![o] = p]
        /\ halted' = halted \ {p}
    BY DEF AddMember
  <1>2. /\ members'[p] = others \cup {o}
        /\ \A q \in Codes : q # p => members'[q] = members[q]
        /\ \A q \in Codes : o \notin members[q]
        /\ \A m \in Objs : m # o => code'[m] = code[m]
        /\ code'[o] = p
    BY <1>0, <1>1 DEF TypeOK, MembersAgree
  <1>3. MembersAgree'
    <2> SUFFICES ASSUME NEW q \in Codes, NEW m \in members'[q]
                 PROVE  /\ q \in parties' /\ m \in Allocated' /\ code'[m] = q
                        /\ \A k \in members'[q] : info'[k].id = info'[m].id => k = m
      BY DEF MembersAgree
    <2>1. CASE q # p
      BY <1>2, <2>1 DEF MembersAgree, Allocated, TypeOK
    <2>2. CASE q = p /\ m = o
      BY <1>2, <2>2 DEF Allocated
    <2>3. CASE q = p /\ m \in others
      BY <1>2, <2>3 DEF MembersAgree, Allocated, TypeOK
    <2> QED
      BY <1>2, <2>1, <2>2, <2>3
  <1>4. NoEmptyParty'
    BY <1>1, <1>2 DEF NoEmptyParty, TypeOK
  <1>5. Capacity'
    <2> SUFFICES ASSUME NEW q \in Codes PROVE Cardinality(members'[q]) <= MaxMembers
      BY DEF Capacity
    <2>1. CASE q # p
      BY <1>2, <2>1 DEF Capacity
    <2>2. CASE q = p
      <3>1. /\ IsFiniteSet(others) /\ Cardinality(others) \in Nat
            /\ Cardinality(others) <= Cardinality(members[p])
        BY MembersFinite, FS_Subset, FS_CardinalityType
      <3> HIDE DEF others
      <3>2. /\ Cardinality(others \cup {o}) \in Nat
            /\ Cardinality(others \cup {o}) = IF o \in others THEN Cardinality(others)
                                                               ELSE Cardinality(others) + 1
        BY <3>1, FS_AddElement, FS_CardinalityType
      <3>3. Cardinality(members[p]) \in Nat /\ Cardinality(members[p]) < MaxMembers
        BY MembersFinite DEF HasRoom
      <3>4. members'[q] = others \cup {o}
        BY <1>2, <2>2
      <3> QED
        BY <3>1, <3>2, <3>3, <3>4
    <2> QED
      BY <2>1, <2>2
  <1> QED
    BY <1>3, <1>4, <1>5

\* Steps that touch no party and only allocate objects.
LEMMA FrameInv ==
  ASSUME PartyInv, UNCHANGED <<code, parties, members, halted>>,
         \A m \in Allocated : m \in Allocated' /\ info'[m] = info[m]
  PROVE  MembersAgree' /\ NoEmptyParty' /\ Capacity'
  <1>1. MembersAgree'
    <2> SUFFICES ASSUME NEW q \in Codes, NEW o \in members[q]
                 PROVE  /\ q \in parties /\ o \in Allocated' /\ code[o] = q
                        /\ \A m \in members[q] : info'[m].id = info'[o].id => m = o
      BY DEF MembersAgree
    <2> QED
      BY DEF PartyInv, MembersAgree
  <1> QED
    BY <1>1 DEF PartyInv, NoEmptyParty, Capacity

\* CleanupTestClients takes a set out of each party and deletes those it empties.
LEMMA CleanupTestClientsInv ==
  ASSUME PartyInv, CleanupTestClients
  PROVE  MembersAgree' /\ NoEmptyParty' /\ Capacity'
  <1> USE DEF PartyInv
  <1> DEFINE gone == {o \in Registered : info[o].test}
             left(p) == {m \in members[p] :
                           \E o \in gone : code[o] = p /\ info[o].id = info[m].id}
  <1>1. /\ members' = [p \in Codes |-> members[p] \ left(p)]
        /\ code' = [o \in Objs |-> IF \E p \in Codes : o \in left(p) THEN NoCode ELSE code[o]]
        /\ parties' = {p \in parties :
                         members[p] \ left(p) # {} \/ \A o \in gone : code[o] # p}
        /\ UNCHANGED <<info, halted>>
    BY DEF CleanupTestClients
  <1>2. \A p \in Codes : members'[p] = members[p] \ left(p)
    BY <1>1
  <1>3. \A p \in Codes : (\A o \in gone : code[o] # p) => left(p) = {}
    OBVIOUS
  <1>4. MembersAgree'
    <2> SUFFICES ASSUME NEW q \in Codes, NEW o \in members'[q]
                 PROVE  /\ q \in parties' /\ o \in Allocated' /\ code'[o] = q
                        /\ \A m \in members'[q] : info'[m].id = info'[o].id => m = o
      BY DEF MembersAgree
    <2>1. o \in members[q] /\ o \notin left(q)
      BY <1>2
    <2>2. /\ q \in parties /\ o \in Allocated /\ code[o] = q /\ o \in Objs
          /\ \A m \in members[q] : info[m].id = info[o].id => m = o
      BY <2>1 DEF MembersAgree, Allocated
    <2>3. \A p \in Codes : o \notin left(p)
      BY <2>1, <2>2 DEF MembersAgree
    <2>4. q \in parties'
      BY <1>1, <2>1, <2>2
    <2>5. code'[o] = q
      BY <1>1, <2>2, <2>3
    <2> QED
      BY <1>1, <1>2, <2>2, <2>4, <2>5 DEF Allocated
  <1>5. NoEmptyParty'
    <2> SUFFICES ASSUME NEW p \in parties', p \notin halted' PROVE members'[p] # {}
      BY DEF NoEmptyParty
    <2>1. p \in Codes /\ members[p] # {}
      BY <1>1 DEF NoEmptyParty, TypeOK
    <2>2. CASE members[p] \ left(p) # {}
      BY <1>2, <2>1, <2>2
    <2>3. CASE \A o \in gone : code[o] # p
      <3>1. left(p) = {}
        BY <1>3, <2>1, <2>3
      <3> QED
        BY <1>2, <2>1, <3>1
    <2> QED
      BY <1>1, <2>2, <2>3
  <1>6. Capacity'
    <2> SUFFICES ASSUME NEW q \in Codes PROVE Cardinality(members'[q]) <= MaxMembers
      BY DEF Capacity
    <2>1. Cardinality(members'[q]) <= Cardinality(members[q]) /\ Cardinality(members'[q]) \in Nat
      BY <1>2, MembersFinite, FS_Subset, FS_CardinalityType
    <2> QED
      BY <2>1, MembersFinite DEF Capacity
  <1> QED
    BY <1>4, <1>5, <1>6

\* CreateTestParty fills a new party with free objects of different IDs.
LEMMA CreateTestPartyInv ==
  ASSUME PartyInv, NEW i \in Ids, NEW p \in Codes, NEW S \in SUBSET Ids,
         CreateTestParty(i, p, S)
  PROVE  MembersAgree' /\ NoEmptyParty' /\ Capacity'
  <1> USE DEF PartyInv
  <1>1. PICK A \in SUBSET {clients[j] : j \in {k \in S : clients[k] # NoObj}} :
          /\ \A o \in A : code[o] = NoCode
          /\ clients[i] \notin A
          /\ Cardinality(A) < MaxMembers
          /\ members' = [members EXCEPT ![p] = A \cup {clients[i]}]
          /\ code' = [o \in Objs |-> IF o \in A \cup {clients[i]} THEN p ELSE code[o]]
    BY DEF CreateTestParty
  <1>2. /\ p \notin parties /\ parties' = parties \cup {p} /\ info' = info /\ halted' = halted \ {p}
        /\ clients[i] # NoObj /\ code[clients[i]] = NoCode
    BY DEF CreateTestParty
  <1> DEFINE all == A \cup {clients[i]}
  <1>3. \A o \in all : \E j \in Ids : clients[j] = o /\ clients[j] # NoObj
    BY <1>1, <1>2
  <1>4. /\ all \subseteq Objs
        /\ \A o \in all : o \in Allocated /\ code[o] = NoCode
        /\ \A o, m \in all : info[o].id = info[m].id => o = m
    BY <1>1, <1>2, <1>3 DEF WiringOK, Allocated
  <1>5. /\ members'[p] = all
        /\ \A q \in Codes : q # p => members'[q] = members[q]
        /\ \A q \in Codes : \A o \in all : o \notin members[q]
    BY <1>1, <1>4 DEF TypeOK, MembersAgree
  <1>6. MembersAgree'
    <2> SUFFICES ASSUME NEW q \in Codes, NEW o \in members'[q]
                 PROVE  /\ q \in parties' /\ o \in Allocated' /\ code'[o] = q
                        /\ \A m \in members'[q] : info'[m].id = info'[o].id => m = o
      BY DEF MembersAgree
    <2>1. CASE q = p
      BY <1>1, <1>2, <1>4, <1>5, <2>1 DEF Allocated
    <2>2. CASE q # p
      <3>1. o \in members[q] /\ o \in Objs /\ o \notin all
        BY <1>5, <2>2 DEF TypeOK
      <3>2. code'[o] = code[o]
        BY <1>1, <3>1
      <3> QED
        BY <1>2, <1>5, <2>2, <3>1, <3>2 DEF MembersAgree, Allocated
    <2> QED
      BY <2>1, <2>2
  <1>7. NoEmptyParty'
    BY <1>2, <1>5 DEF NoEmptyParty, TypeOK
  <1>8. Capacity'
    <2> SUFFICES ASSUME NEW q \in Codes PROVE Cardinality(members'[q]) <= MaxMembers
      BY DEF Capacity
    <2>1. CASE q # p
      BY <1>5, <2>1 DEF Capacity
    <2>2. CASE q = p
      <3>1. IsFiniteSet(A) /\ Cardinality(A) \in Nat
        BY <1>4, FS_Subset, FS_CardinalityType
      <3>2. Cardinality(A \cup {clients[i]}) = Cardinality(A) + 1
        BY <1>1, <3>1, FS_AddElement
      <3> QED
        BY <1>1, <1>5, <2>2, <3>1, <3>2
    <2> QED
      BY <2>1, <2>2
  <1> QED
    BY <1>6, <1>7, <1>8

\* DeleteParty frees every member.
LEMMA DeletePartyInv ==
  ASSUME PartyInv, NEW p \in Codes, DeleteParty(p)
  PROVE  MembersAgree' /\ NoEmptyParty' /\ Capacity'
  <1> USE DEF PartyInv
  <1>1. /\ parties' = parties \ {p} /\ UNCHANGED <<info, halted>>
        /\ code' = [o \in Objs |-> IF o \in members[p] THEN NoCode ELSE code[o]]
        /\ members'[p] = {}
        /\ \A q \in Codes : q # p => members'[q] = members[q]
    BY DEF DeleteParty, TypeOK
  <1>2. MembersAgree'
    <2> SUFFICES ASSUME NEW q \in Codes, NEW o \in members'[q]
                 PROVE  /\ q \in parties' /\ o \in Allocated' /\ code'[o] = q
                        /\ \A m \in members'[q] : info'[m].id = info'[o].id => m = o
      BY DEF MembersAgree
    <2>1. q # p /\ o \in members[q] /\ o \in Objs /\ o \notin members[p]
      BY <1>1 DEF TypeOK, MembersAgree
    <2> QED
      BY <1>1, <2>1 DEF MembersAgree, Allocated
  <1>3. NoEmptyParty'
    BY <1>1 DEF NoEmptyParty, TypeOK
  <1>4. Capacity'
    <2>1. Cardinality({}) <= MaxMembers
      BY FS_EmptySet
    <2> QED
      BY <1>1, <2>1 DEF Capacity
  <1> QED
    BY <1>2, <1>3, <1>4

\* A leave that panics half-way takes members away and names what it empties.
LEMMA LeavePanicsInv ==
  ASSUME PartyInv, NEW cn \in Conns, LeavePanics(cn)
  PROVE  MembersAgree' /\ NoEmptyParty' /\ Capacity'
  <1> USE DEF PartyInv
  <1> DEFINE p == code[cl[cn]]
             removed == {m \in members[p] : info[m].id = info[cl[cn]].id}
  <1>1. /\ p \in parties /\ p \in Codes
        /\ members' = [members EXCEPT ![p] = @ \ removed]
        /\ code' = [m \in Objs |-> IF m \in removed THEN NoCode ELSE code[m]]
        /\ halted' = IF members[p] \ removed = {} THEN halted \cup {p} ELSE halted
        /\ UNCHANGED <<info, parties>>
    BY DEF LeavePanics, TypeOK
  <1>2. /\ members'[p] = members[p] \ removed
        /\ \A q \in Codes : q # p => members'[q] = members[q]
        /\ \A q \in Codes : members'[q] \subseteq members[q]
        /\ removed \subseteq members[p]
    BY <1>1 DEF TypeOK
  <1> HIDE DEF p, removed
  <1>3. MembersAgree'
    <2> SUFFICES ASSUME NEW q \in Codes, NEW o \in members'[q]
                 PROVE  /\ q \in parties' /\ o \in Allocated' /\ code'[o] = q
                        /\ \A m \in members'[q] : info'[m].id = info'[o].id => m = o
      BY DEF MembersAgree
    <2>1. /\ o \in members[q] /\ q \in parties /\ o \in Allocated /\ code[o] = q
          /\ \A m \in members[q] : info[m].id = info[o].id => m = o
      BY <1>2 DEF MembersAgree
    <2>2. o \notin removed
      BY <1>1, <1>2, <2>1 DEF MembersAgree
    <2> QED
      BY <1>1, <1>2, <2>1, <2>2 DEF Allocated
  <1>4. NoEmptyParty'
    BY <1>1, <1>2 DEF NoEmptyParty, TypeOK
  <1>5. Capacity'
    <2> SUFFICES ASSUME NEW q \in Codes PROVE Cardinality(members'[q]) <= MaxMembers
      BY DEF Capacity
    <2>1. Cardinality(members'[q]) <= Cardinality(members[q]) /\ Cardinality(members'[q]) \in Nat
      BY <1>2, MembersFinite, FS_Subset, FS_CardinalityType
    <2> QED
      BY <2>1, MembersFinite DEF Capacity
  <1> QED
    BY <1>3, <1>4, <1>5

\* The empty hub is consistent.
LEMMA PartyInvInit == Init => PartyInv
  <1> SUFFICES ASSUME Init PROVE PartyInv
    OBVIOUS
  <1>1. Cardinality({}) = 0
    BY FS_EmptySet
  <1> QED
    BY <1>1, TypeInit
       DEF Init, PartyInv, WiringOK, MembersAgree, NoEmptyParty, Capacity

\* References lead to allocated objects: only Register and CreateTestClient
\* make new ones, of an object they allocate, and nothing is ever freed.
LEMMA WiringNext ==
  ASSUME PartyInv, [Next]_vars
  PROVE  /\ WiringOK'
         /\ \A m \in Allocated : m \in Allocated' /\ info'[m] = info[m]
  <1> USE DEF PartyInv
  <1>1. ASSUME NEW cn \in Conns, NEW i \in Ids, NEW n \in Names, NEW o \in Objs,
               Register(cn, i, n, o)
        PROVE  /\ WiringOK'
               /\ \A m \in Allocated : m \in Allocated' /\ info'[m] = info[m]
    <2>1. [id |-> i, name |-> n, conn |-> cn, test |-> FALSE] \in Info
      BY DEF Info
    <2>2. /\ o \in Allocated' /\ info'[o].id = i
          /\ \A m \in Allocated : m \in Allocated' /\ info'[m] = info[m]
      BY <1>1, <2>1 DEF Register, Allocated, TypeOK
    <2> QED
      BY <1>1, <2>2 DEF Register, WiringOK, TypeOK
  <1>2. ASSUME NEW i \in Ids, NEW n \in Names, NEW o \in Objs, CreateTestClient(i, n, o)
        PROVE  /\ WiringOK'
               /\ \A m \in Allocated : m \in Allocated' /\ info'[m] = info[m]
    <2>1. [id |-> i, name |-> n, conn |-> NoConn, test |-> TRUE] \in Info
      BY DEF Info
    <2>2. /\ o \in Allocated' /\ info'[o].id = i
          /\ \A m \in Allocated : m \in Allocated' /\ info'[m] = info[m]
      BY <1>2, <2>1 DEF CreateTestClient, Allocated, TypeOK
    <2> QED
      BY <1>2, <2>2 DEF CreateTestClient, WiringOK, TypeOK
  <1>3. ASSUME NEW i \in Ids, RemoveTestClient(i) PROVE WiringOK' /\ info' = info
    BY <1>3 DEF RemoveTestClient, WiringOK, Allocated, TypeOK
  <1>4. ASSUME NEW cn \in Conns, ReadFails(cn) PROVE WiringOK' /\ info' = info
    <2>1. \A i \in Ids : clients'[i] # NoObj => clients'[i] = clients[i]
      BY <1>4 DEF ReadFails, TypeOK
    <2> QED
      BY <1>4, <2>1 DEF ReadFails, WiringOK, Allocated
  <1>5. CASE CleanupTestClients
    <2>1. \A i \in Ids : clients'[i] # NoObj => clients'[i] = clients[i]
      BY <1>5 DEF CleanupTestClients
    <2> QED
      BY <1>5, <2>1 DEF CleanupTestClients, WiringOK, Allocated
  <1>6. ASSUME NEW r \in removal, FinishRemoval(r) PROVE WiringOK' /\ info' = info
    BY <1>6 DEF FinishRemoval, WiringOK, Allocated
  <1>7. ASSUME NEW cn \in Conns, NEW i \in Ids, NEW n \in Names, RegisterRejected(cn, i, n)
        PROVE  WiringOK' /\ info' = info
    BY <1>7 DEF RegisterRejected, WiringOK, Allocated, TypeOK
  <1>8. ASSUME UNCHANGED <<cl, info, clients, removal>> PROVE WiringOK'
    BY <1>8 DEF WiringOK, Allocated
  <1>9. CASE UNCHANGED <<cl, info, clients, removal>>
    BY <1>8, <1>9 DEF Allocated
  <1>10. CASE \/ \E cn \in Conns : Open(cn) \/ FinishDisconnect(cn) \/ HandleLeaveParty(cn)
              \/ \E cn \in Conns, p \in Codes :
                   HandleCreateParty(cn, p) \/ HandleJoinParty(cn, p)
              \/ \E i \in Ids, p \in Codes, S \in SUBSET Ids : CreateTestParty(i, p, S)
              \/ \E i \in Ids, p \in Codes : JoinTestParty(i, p)
              \/ \E i \in Ids : LeaveTestParty(i)
              \/ \E p \in Codes : DeleteParty(p)
              \/ \E cn \in Conns : Panic(cn) \/ LeavePanics(cn)
              \/ CleanupEmptyParties
              \/ UNCHANGED vars
    BY <1>9, <1>10 DEF Open, FinishDisconnect, HandleLeaveParty, HandleCreateParty,
       HandleJoinParty, CreateTestParty, JoinTestParty, LeaveTestParty, DeleteParty,
       CleanupEmptyParties, Panic, LeavePanics, vars
  <1>12. ASSUME NEW cn \in Conns, NEW i \in Ids, NEW n \in Names, NEW o \in Objs,
                RegisterPanics(cn, i, n, o)
         PROVE  /\ WiringOK'
                /\ \A m \in Allocated : m \in Allocated' /\ info'[m] = info[m]
    <2>1. [id |-> i, name |-> n, conn |-> cn, test |-> FALSE] \in Info
      BY DEF Info
    <2>2. /\ o \in Allocated' /\ info'[o].id = i
          /\ \A m \in Allocated : m \in Allocated' /\ info'[m] = info[m]
      BY <1>12, <2>1 DEF RegisterPanics, Allocated, TypeOK
    <2> QED
      BY <1>12, <2>2 DEF RegisterPanics, WiringOK, TypeOK
  <1>11. ASSUME WiringOK' /\ info' = info
         PROVE  \A m \in Allocated : m \in Allocated' /\ info'[m] = info[m]
    BY <1>11 DEF Allocated
  <1> QED
    BY <1>1, <1>2, <1>3, <1>4, <1>5, <1>6, <1>7, <1>10, <1>11, <1>12 DEF Next, ConnNext, AdminNext

\* A new party starts with its creator alone.
LEMMA NewPartyHasRoom ==
  ASSUME PartyInv, NEW p \in Codes \ parties
  PROVE  HasRoom(p)
  <1>1. members[p] = {}
    BY DEF PartyInv, MembersAgree, TypeOK
  <1> QED
    BY <1>1, FS_EmptySet DEF HasRoom

\* One step per action, by the lemma on the party operation it makes.
LEMMA PartyInvNext == PartyInv /\ [Next]_vars => PartyInv'
  <1> SUFFICES ASSUME PartyInv, [Next]_vars PROVE MembersAgree' /\ NoEmptyParty' /\ Capacity'
    BY TypeNext, WiringNext DEF PartyInv
  <1>0. \A o \in Allocated : o \in Objs
    BY DEF Allocated
  <1>1. CASE UNCHANGED <<code, parties, members, halted>>
    BY <1>1, FrameInv, WiringNext
  <1>2. CASE \/ \E cn \in Conns : Open(cn) \/ ReadFails(cn) \/ Panic(cn)
             \/ \E cn \in Conns, i \in Ids, n \in Names, o \in Objs : RegisterPanics(cn, i, n, o)
             \/ \E cn \in Conns, i \in Ids, n \in Names : RegisterRejected(cn, i, n)
             \/ \E cn \in Conns, i \in Ids, n \in Names, o \in Objs : Register(cn, i, n, o)
             \/ \E i \in Ids, n \in Names, o \in Objs : CreateTestClient(i, n, o)
             \/ \E i \in Ids : RemoveTestClient(i)
             \/ UNCHANGED vars
    BY <1>1, <1>2 DEF Open, ReadFails, RegisterRejected, Register, CreateTestClient,
       RemoveTestClient, Panic, RegisterPanics, vars
  <1>3. ASSUME NEW cn \in Conns, FinishDisconnect(cn)
        PROVE  MembersAgree' /\ NoEmptyParty' /\ Capacity'
    <2>1. cl[cn] \in Objs /\ UNCHANGED <<info, halted>>
      BY <1>3, <1>0 DEF FinishDisconnect, PartyInv, WiringOK
    <2>2. CASE code[cl[cn]] # NoCode /\ LeaveParty(cl[cn])
      BY <2>1, <2>2, LeavePartyInv
    <2> QED
      BY <1>1, <1>3, <2>2 DEF FinishDisconnect
  <1>4. ASSUME NEW cn \in Conns, HandleLeaveParty(cn)
        PROVE  MembersAgree' /\ NoEmptyParty' /\ Capacity'
    <2>1. cl[cn] \in Objs /\ UNCHANGED <<info, halted>>
      BY <1>4, <1>0 DEF HandleLeaveParty, InLoop, PartyInv, WiringOK
    <2> QED
      BY <1>4, <2>1, LeavePartyInv DEF HandleLeaveParty
  <1>5. ASSUME NEW cn \in Conns, NEW p \in Codes, HandleCreateParty(cn, p)
        PROVE  MembersAgree' /\ NoEmptyParty' /\ Capacity'
    <2>1. cl[cn] \in Allocated /\ info' = info
      BY <1>5 DEF HandleCreateParty, InLoop, PartyInv, WiringOK
    <2> QED
      BY <1>5, <2>1, AddMemberInv, NewPartyHasRoom DEF HandleCreateParty
  <1>6. ASSUME NEW cn \in Conns, NEW p \in Codes, HandleJoinParty(cn, p)
        PROVE  MembersAgree' /\ NoEmptyParty' /\ Capacity'
    <2>1. cl[cn] \in Allocated /\ info' = info /\ parties' = parties \cup {p}
      BY <1>6 DEF HandleJoinParty, InLoop, PartyInv, WiringOK
    <2> QED
      BY <1>6, <2>1, AddMemberInv DEF HandleJoinParty
  <1>7. ASSUME NEW i \in Ids, NEW p \in Codes, JoinTestParty(i, p)
        PROVE  MembersAgree' /\ NoEmptyParty' /\ Capacity'
    <2>1. clients[i] \in Allocated /\ info' = info /\ parties' = parties \cup {p}
      BY <1>7 DEF JoinTestParty, PartyInv, WiringOK
    <2> QED
      BY <1>7, <2>1, AddMemberInv DEF JoinTestParty
  <1>8. ASSUME NEW i \in Ids, LeaveTestParty(i)
        PROVE  MembersAgree' /\ NoEmptyParty' /\ Capacity'
    <2>1. clients[i] \in Objs /\ UNCHANGED <<info, halted>>
      BY <1>8, <1>0 DEF LeaveTestParty, PartyInv, WiringOK
    <2> QED
      BY <1>8, <2>1, LeavePartyInv DEF LeaveTestParty
  <1>9. ASSUME NEW r \in removal, FinishRemoval(r)
        PROVE  MembersAgree' /\ NoEmptyParty' /\ Capacity'
    <2>1. PICK p \in {r[2], code[r[1]]} :
            \/ p \in parties /\ RemoveMember(p, info[r[1]].id)
            \/ p \notin parties /\ UNCHANGED <<code, parties, members>>
      BY <1>9 DEF FinishRemoval
    <2>2. UNCHANGED <<info, halted>>
      BY <1>9 DEF FinishRemoval
    <2>3. CASE p \in parties /\ RemoveMember(p, info[r[1]].id)
      BY <2>2, <2>3, RemoveMemberInv
    <2> QED
      BY <1>1, <2>1, <2>2, <2>3
  <1>10. CASE CleanupEmptyParties
    BY <1>10 DEF CleanupEmptyParties, PartyInv, MembersAgree, NoEmptyParty, Capacity, Allocated, TypeOK
  <1>11. ASSUME NEW cn \in Conns, LeavePanics(cn)
         PROVE  MembersAgree' /\ NoEmptyParty' /\ Capacity'
    BY <1>11, LeavePanicsInv
  <1> QED
    BY <1>2, <1>3, <1>4, <1>5, <1>6, <1>7, <1>8, <1>9, <1>10, <1>11,
       CleanupTestClientsInv, CreateTestPartyInv, DeletePartyInv
       DEF Next, ConnNext, AdminNext

\* The inductive invariant: types, wiring, agreement, no empty party, capacity.
THEOREM PartyInvariant == Spec => []PartyInv
  BY PartyInvInit, PartyInvNext, PTL DEF Spec

\* A party's member map and the members' own party codes never disagree, on
\* any number of connections, re-registrations and administrators' calls.
THEOREM MembersAlwaysAgree == Spec => []MembersAgree
  <1>1. PartyInv => MembersAgree
    BY DEF PartyInv
  <1> QED
    BY <1>1, PartyInvariant, PTL

\* No empty party stays behind, so that cleanupEmptyParties finds none but what
\* a panic left, and no interleaving of joins fills a party beyond its capacity.
THEOREM PartiesAreRightSized == Spec => []RightSized
  <1>1. PartyInv => RightSized
    BY DEF PartyInv, RightSized
  <1> QED
    BY <1>1, PartyInvariant, PTL
-----------------------------------------------------------------------------
\* Who is added had no party, who is removed has none afterwards.
LEMMA CodeStep ==
  ASSUME TypeOK, [Next]_vars, NEW o \in Objs, code[o] # NoCode
  PROVE  code'[o] \in {code[o], NoCode}
  <1> DEFINE Good == code'[o] \in {code[o], NoCode}
  <1>1. ASSUME NEW p \in Codes, NEW m \in Objs, code[m] = NoCode, AddMember(p, m) PROVE Good
    BY <1>1 DEF TypeOK, AddMember
  <1>2. ASSUME NEW p, NEW i, RemoveMember(p, i) PROVE Good
    BY <1>2 DEF TypeOK, RemoveMember
  <1>3. ASSUME NEW m \in Objs, LeaveParty(m) PROVE Good
    BY <1>2, <1>3 DEF TypeOK, LeaveParty
  <1>4. CASE UNCHANGED code
    BY <1>4
  <1>5. ASSUME NEW cn \in Conns, ConnNext(cn) PROVE Good
    <2>1. CASE FinishDisconnect(cn)
      <3> cl[cn] \in Objs
        BY <2>1 DEF FinishDisconnect, TypeOK
      <3> QED
        BY <1>3, <1>4, <2>1 DEF FinishDisconnect
    <2>2. ASSUME NEW p \in Codes,
                 HandleCreateParty(cn, p) \/ HandleJoinParty(cn, p) \/ HandleLeaveParty(cn)
          PROVE  Good
      <3> cl[cn] \in Objs
        BY <2>2 DEF HandleCreateParty, HandleJoinParty, HandleLeaveParty, InLoop, TypeOK
      <3> QED
        BY <1>1, <1>3, <2>2 DEF HandleCreateParty, HandleJoinParty, HandleLeaveParty
    <2>3. CASE HandleLeaveParty(cn)
      BY <1>3, <2>3 DEF HandleLeaveParty, InLoop, TypeOK
    <2>4. CASE LeavePanics(cn)
      BY <2>4 DEF LeavePanics, TypeOK
    <2> QED
      BY <1>4, <1>5, <2>1, <2>2, <2>3, <2>4
         DEF ConnNext, Open, RegisterRejected, Register, ReadFails, Panic, RegisterPanics
  <1>6. CASE AdminNext
    <2>1. ASSUME NEW i \in Ids, NEW p \in Codes, JoinTestParty(i, p) PROVE Good
      BY <1>1, <2>1 DEF JoinTestParty, TypeOK
    <2>2. ASSUME NEW i \in Ids, LeaveTestParty(i) PROVE Good
      BY <1>3, <2>2 DEF LeaveTestParty, TypeOK
    <2>3. ASSUME NEW r \in removal, FinishRemoval(r) PROVE Good
      BY <1>2, <1>4, <2>3 DEF FinishRemoval
    <2>4. ASSUME NEW p \in Codes, DeleteParty(p) PROVE Good
      BY <2>4 DEF DeleteParty, TypeOK
    <2>5. CASE CleanupTestClients
      BY <2>5 DEF CleanupTestClients, TypeOK
    <2>6. ASSUME NEW i \in Ids, NEW p \in Codes, NEW S \in SUBSET Ids, CreateTestParty(i, p, S)
          PROVE  Good
      BY <2>6 DEF CreateTestParty, TypeOK
    <2> QED
      BY <1>4, <1>6, <2>1, <2>2, <2>3, <2>4, <2>5, <2>6
         DEF AdminNext, CreateTestClient, RemoveTestClient
  <1> QED
    BY <1>4, <1>5, <1>6 DEF Next, CleanupEmptyParties, vars

\* A client object goes from one party to another only by being in none: no
\* join, forced or not, finds it in a party.
THEOREM NeverInTwoParties == Spec => LeavesBeforeJoining
  <1>1. TypeOK /\ [Next]_vars =>
          [\A o \in Objs : code[o] # NoCode => code'[o] \in {code[o], NoCode}]_vars
    BY CodeStep
  <1> QED
    BY <1>1, TypeCorrect, PTL DEF Spec, LeavesBeforeJoining

\* The names of the real clients stay different: whoever registers is compared
\* with everybody under the same lock, and other steps only delete clients or
\* add test clients.
LEMMA NamesNext ==
  PartyInv /\ UniqueRealNames /\ [Next]_vars => UniqueRealNames'
  <1> SUFFICES ASSUME PartyInv, UniqueRealNames, [Next]_vars PROVE UniqueRealNames'
    OBVIOUS
  <1> TypeOK /\ WiringOK
    BY DEF PartyInv
  <1>1. CASE UNCHANGED info /\ \A i \in Ids : clients'[i] \in {clients[i], NoObj}
    BY <1>1 DEF UniqueRealNames
  <1>2. ASSUME NEW cn \in Conns, NEW i \in Ids, NEW n \in Names, NEW o \in Objs,
               Register(cn, i, n, o)
        PROVE  UniqueRealNames'
    <2>1. /\ clients'[i] = o /\ info'[o].name = n /\ ~info'[o].test
          /\ \A j \in Ids \ {i} : clients'[j] = clients[j]
      BY <1>2 DEF Register, TypeOK
    <2>2. \A j \in Ids \ {i} : clients[j] # NoObj => info'[clients[j]] = info[clients[j]]
      BY <1>2 DEF Register, TypeOK, WiringOK
    <2>3. \A j \in Ids \ {i} : clients[j] # NoObj => info[clients[j]].name # n
      BY <1>2 DEF Register, NameTaken
    <2> QED
      BY <2>1, <2>2, <2>3 DEF UniqueRealNames
  <1>8. ASSUME NEW cn \in Conns, NEW i \in Ids, NEW n \in Names, NEW o \in Objs,
               RegisterPanics(cn, i, n, o)
        PROVE  UniqueRealNames'
    <2>1. /\ clients'[i] = o /\ info'[o].name = n /\ ~info'[o].test
          /\ \A j \in Ids \ {i} : clients'[j] = clients[j]
      BY <1>8 DEF RegisterPanics, TypeOK
    <2>2. \A j \in Ids \ {i} : clients[j] # NoObj => info'[clients[j]] = info[clients[j]]
      BY <1>8 DEF RegisterPanics, TypeOK, WiringOK
    <2>3. \A j \in Ids \ {i} : clients[j] # NoObj => info[clients[j]].name # n
      BY <1>8 DEF RegisterPanics, NameTaken
    <2> QED
      BY <2>1, <2>2, <2>3 DEF UniqueRealNames
  <1>3. ASSUME NEW i \in Ids, NEW n \in Names, NEW o \in Objs, CreateTestClient(i, n, o)
        PROVE  UniqueRealNames'
    <2>1. /\ clients'[i] = o /\ info'[o].test
          /\ \A j \in Ids \ {i} : clients'[j] = clients[j]
      BY <1>3 DEF CreateTestClient, TypeOK
    <2>2. \A j \in Ids \ {i} : clients[j] # NoObj => info'[clients[j]] = info[clients[j]]
      BY <1>3 DEF CreateTestClient, TypeOK, WiringOK
    <2> QED
      BY <2>1, <2>2 DEF UniqueRealNames
  <1>4. ASSUME NEW cn \in Conns, ReadFails(cn) PROVE UniqueRealNames'
    BY <1>1, <1>4 DEF ReadFails, TypeOK
  <1>5. ASSUME NEW i \in Ids, RemoveTestClient(i) PROVE UniqueRealNames'
    BY <1>1, <1>5 DEF RemoveTestClient, TypeOK
  <1>6. CASE CleanupTestClients
    BY <1>1, <1>6 DEF CleanupTestClients, TypeOK
  <1>7. CASE UNCHANGED <<info, clients>>
    BY <1>1, <1>7
  <1> QED
    BY <1>2, <1>3, <1>4, <1>5, <1>6, <1>7, <1>8
       DEF Next, ConnNext, AdminNext, vars, Open, RegisterRejected, FinishDisconnect, Panic, LeavePanics,
           HandleCreateParty, HandleJoinParty, HandleLeaveParty, FinishRemoval,
           CreateTestParty, JoinTestParty, LeaveTestParty, DeleteParty, CleanupEmptyParties

\* Two real clients in h.clients never have the same display name.
THEOREM NamesAreUnique == Spec => []UniqueRealNames
  <1>1. Init => UniqueRealNames
    BY DEF Init, UniqueRealNames
  <1> QED
    BY <1>1, NamesNext, PartyInvariant, PTL DEF Spec

-----------------------------------------------------------------------------
(* Ghosts: what is left of a client when its goroutine has ended. *)

\* Whose connection an object is of: a real client's is the connection that
\* registered it, and a goroutine holds an object of its own connection.
Owned ==
  /\ \A o \in Allocated : ~info[o].test => info[o].conn \in Conns
  /\ \A cn \in Conns : cl[cn] # NoObj => info[cl[cn]].conn = cn /\ ~info[cl[cn]].test

GhostInv == PartyInv /\ Owned /\ NoGhostRegistration /\ NoGhostMember

\* Only registrations change what an object is or what a goroutine holds.
LEMMA OwnedNext ==
  ASSUME PartyInv, Owned, [Next]_vars PROVE Owned'
  <1> USE DEF PartyInv
  <1>1. ASSUME NEW cn \in Conns, NEW i \in Ids, NEW n \in Names, NEW o \in Objs,
               Register(cn, i, n, o)
        PROVE  Owned'
    <2>1. [id |-> i, name |-> n, conn |-> cn, test |-> FALSE] \in Info
      BY DEF Info
    <2> QED
      BY <1>1, <2>1 DEF Register, Owned, Allocated, TypeOK, WiringOK
  <1>2. ASSUME NEW i \in Ids, NEW n \in Names, NEW o \in Objs, CreateTestClient(i, n, o)
        PROVE  Owned'
    <2>1. [id |-> i, name |-> n, conn |-> NoConn, test |-> TRUE] \in Info
      BY DEF Info
    <2> QED
      BY <1>2, <2>1 DEF CreateTestClient, Owned, Allocated, TypeOK, WiringOK
  <1>3. ASSUME NEW cn \in Conns, NEW i \in Ids, NEW n \in Names, RegisterRejected(cn, i, n)
        PROVE  Owned'
    BY <1>3 DEF RegisterRejected, Owned, Allocated, TypeOK
  <1>4. CASE UNCHANGED <<cl, info>>
    BY <1>4 DEF Owned, Allocated
  <1>5. ASSUME NEW cn \in Conns, NEW i \in Ids, NEW n \in Names, NEW o \in Objs,
               RegisterPanics(cn, i, n, o)
        PROVE  Owned'
    <2>1. [id |-> i, name |-> n, conn |-> cn, test |-> FALSE] \in Info
      BY DEF Info
    <2> QED
      BY <1>5, <2>1 DEF RegisterPanics, Owned, Allocated, TypeOK, WiringOK
  <1> QED
    BY <1>1, <1>2, <1>3, <1>4, <1>5
       DEF Next, ConnNext, AdminNext, vars, Open, ReadFails, FinishDisconnect, Panic, LeavePanics,
           HandleCreateParty, HandleJoinParty, HandleLeaveParty, RemoveTestClient,
           FinishRemoval, CleanupTestClients, CreateTestParty, JoinTestParty,
           LeaveTestParty, DeleteParty, CleanupEmptyParties

\* Where a connection is while its registration may stay.
Kept == {"open", "closed", "panicked"}

\* Deleting registrations, and steps of connections that serve none, make no ghost.
LEMMA RegistrationsShrink ==
  ASSUME PartyInv, NoGhostRegistration, UNCHANGED <<cl, info>>,
         \A i \in Ids : clients'[i] \in {clients[i], NoObj},
         \A cn \in Conns : st[cn] \in Kept =>
            st'[cn] \in Kept \/ \A i \in Ids : clients'[i] # cl[cn] \/ cl[cn] = NoObj,
         Owned
  PROVE  NoGhostRegistration'
  BY DEF NoGhostRegistration, Registered, Serving, Kept, Owned, PartyInv, WiringOK, Allocated

\* A registration is deleted before its goroutine leaves.
LEMMA RegistrationsNext ==
  ASSUME PartyInv, Owned, NoGhostRegistration, [Next]_vars
  PROVE  NoGhostRegistration'
  <1> USE DEF PartyInv
  <1>1. ASSUME NEW cn \in Conns, NEW i \in Ids, NEW n \in Names, NEW o \in Objs,
               Register(cn, i, n, o)
        PROVE  NoGhostRegistration'
    <2> SUFFICES ASSUME NEW j \in Ids, clients'[j] # NoObj, ~info'[clients'[j]].test,
                        cl'[info'[clients'[j]].conn] = clients'[j]
                 PROVE  st'[info'[clients'[j]].conn] \in Kept
      BY DEF NoGhostRegistration, Registered, Serving, Kept
    <2>1. [id |-> i, name |-> n, conn |-> cn, test |-> FALSE] \in Info
      BY DEF Info
    <2>2. \A c \in Conns : st[c] \in Kept => st'[c] \in Kept
      BY <1>1 DEF Register, CloseConn, Serving, Kept, TypeOK
    <2>3. CASE j = i
      <3>1. clients'[j] = o /\ info'[o].conn = cn
        BY <1>1, <2>1, <2>3 DEF Register, TypeOK
      <3> QED
        BY <1>1, <2>2, <3>1 DEF Register, MayRegister, Serving, Kept
    <2>4. CASE j # i
      <3>1. /\ clients[j] # NoObj /\ clients'[j] = clients[j]
            /\ clients[j] \in Allocated /\ clients[j] # o
            /\ info'[clients[j]] = info[clients[j]]
        BY <1>1, <2>4 DEF Register, TypeOK, WiringOK
      <3>2. info[clients[j]].conn \in Conns
        BY <3>1 DEF Owned
      <3>3. cl[info[clients[j]].conn] = clients[j]
        BY <1>1, <3>1, <3>2 DEF Register, TypeOK
      <3> QED
        BY <2>2, <3>1, <3>2, <3>3 DEF NoGhostRegistration, Registered, Serving, Kept
    <2> QED
      BY <2>3, <2>4
  <1>2. ASSUME NEW i \in Ids, NEW n \in Names, NEW o \in Objs, CreateTestClient(i, n, o)
        PROVE  NoGhostRegistration'
    <2> SUFFICES ASSUME NEW j \in Ids, clients'[j] # NoObj, ~info'[clients'[j]].test,
                        cl'[info'[clients'[j]].conn] = clients'[j]
                 PROVE  st'[info'[clients'[j]].conn] \in Kept
      BY DEF NoGhostRegistration, Registered, Serving, Kept
    <2>1. j # i
      BY <1>2 DEF CreateTestClient, TypeOK
    <2>2. /\ clients[j] # NoObj /\ clients'[j] = clients[j]
          /\ info'[clients[j]] = info[clients[j]] /\ cl' = cl /\ st' = st
      BY <1>2, <2>1 DEF CreateTestClient, TypeOK, WiringOK
    <2> QED
      BY <2>2 DEF NoGhostRegistration, Registered, Serving, Kept
  <1>3. ASSUME NEW cn \in Conns, NEW i \in Ids, NEW n \in Names, RegisterRejected(cn, i, n)
        PROVE  NoGhostRegistration'
    <2>1. \A c \in Conns : st[c] \in Kept => st'[c] \in Kept
      BY <1>3 DEF RegisterRejected, Serving, Kept, TypeOK
    <2>2. \A c \in Conns : cl'[c] = cl[c] \/ cl'[c] = NoObj
      BY <1>3 DEF RegisterRejected, TypeOK
    <2>3. \A o \in Registered : ~info[o].test => info[o].conn \in Conns
      BY DEF Registered, Owned, WiringOK
    <2> QED
      BY <1>3, <2>1, <2>2, <2>3 DEF RegisterRejected, NoGhostRegistration, Registered, Serving, Kept
  <1>4. ASSUME NEW cn \in Conns, ReadFails(cn) PROVE NoGhostRegistration'
    <2>1. \A i \in Ids : clients'[i] \in {clients[i], NoObj}
      BY <1>4 DEF ReadFails, TypeOK
    <2>2. \A i \in Ids : clients'[i] # cl[cn] \/ cl[cn] = NoObj
      BY <1>4, <2>1 DEF ReadFails, TypeOK, WiringOK
    <2>3. \A c \in Conns \ {cn} : st'[c] = st[c]
      BY <1>4 DEF ReadFails, TypeOK
    <2> QED
      BY <1>4, <2>1, <2>2, <2>3, RegistrationsShrink DEF ReadFails, Serving, Kept
  <1>5. ASSUME UNCHANGED <<cl, info>>, \A i \in Ids : clients'[i] \in {clients[i], NoObj},
               \A c \in Conns : st[c] \in Kept => st'[c] \in Kept
        PROVE  NoGhostRegistration'
    BY <1>5, RegistrationsShrink
  <1>6. ASSUME NEW cn \in Conns, Open(cn) \/ FinishDisconnect(cn) \/ Panic(cn) \/ LeavePanics(cn)
        PROVE  NoGhostRegistration'
    <2>1. \A c \in Conns : st[c] \in Kept => st'[c] \in Kept
      BY <1>6 DEF Open, FinishDisconnect, Panic, LeavePanics, Serving, Kept, TypeOK
    <2> QED
      BY <1>5, <1>6, <2>1 DEF Open, FinishDisconnect, Panic, LeavePanics
  <1>7. CASE UNCHANGED <<st, cl, info>> /\ \A i \in Ids : clients'[i] \in {clients[i], NoObj}
    BY <1>5, <1>7
  <1>8. ASSUME NEW i \in Ids, RemoveTestClient(i) PROVE NoGhostRegistration'
    BY <1>7, <1>8 DEF RemoveTestClient, TypeOK
  <1>9. CASE CleanupTestClients
    BY <1>7, <1>9 DEF CleanupTestClients, TypeOK
  <1>10. CASE UNCHANGED <<st, cl, info, clients>>
    BY <1>7, <1>10
  <1>11. ASSUME NEW cn \in Conns, NEW i \in Ids, NEW n \in Names, NEW o \in Objs,
                RegisterPanics(cn, i, n, o)
         PROVE  NoGhostRegistration'
    <2> SUFFICES ASSUME NEW j \in Ids, clients'[j] # NoObj, ~info'[clients'[j]].test,
                        cl'[info'[clients'[j]].conn] = clients'[j]
                 PROVE  st'[info'[clients'[j]].conn] \in Kept
      BY DEF NoGhostRegistration, Registered, Serving, Kept
    <2>1. [id |-> i, name |-> n, conn |-> cn, test |-> FALSE] \in Info
      BY DEF Info
    <2>2. \A c \in Conns : st[c] \in Kept => st'[c] \in Kept
      BY <1>11 DEF RegisterPanics, Kept, TypeOK
    <2>3. j # i
      BY <1>11, <2>1 DEF RegisterPanics, TypeOK, WiringOK
    <2>4. /\ clients[j] # NoObj /\ clients'[j] = clients[j]
          /\ clients[j] \in Allocated /\ clients[j] # o
          /\ info'[clients[j]] = info[clients[j]] /\ cl' = cl
      BY <1>11, <2>3 DEF RegisterPanics, TypeOK, WiringOK
    <2>5. info[clients[j]].conn \in Conns
      BY <2>4 DEF Owned
    <2> QED
      BY <2>2, <2>4, <2>5 DEF NoGhostRegistration, Registered, Serving, Kept
  <1> QED
    BY <1>1, <1>2, <1>3, <1>4, <1>6, <1>8, <1>9, <1>10, <1>11
       DEF Next, ConnNext, AdminNext, vars,
           HandleCreateParty, HandleJoinParty, HandleLeaveParty, FinishRemoval,
           CreateTestParty, JoinTestParty, LeaveTestParty, DeleteParty, CleanupEmptyParties

\* Whoever is added to a party is registered, or held by a goroutine in its loop.
LEMMA MembersShrink ==
  ASSUME PartyInv, NoGhostMember, UNCHANGED <<cl, info>>,
         \A p \in Codes : members'[p] \subseteq members[p],
         \A cn \in Conns : st'[cn] = "done" =>
           st[cn] = "done" \/ cl[cn] = NoObj \/ \A p \in Codes : cl[cn] \notin members'[p],
         Owned
  PROVE  NoGhostMember'
  <1> SUFFICES ASSUME NEW p \in Codes, NEW o \in members'[p],
                      ~info[o].test, cl[info[o].conn] = o
               PROVE  st'[info[o].conn] # "done"
    BY DEF NoGhostMember
  <1>1. o \in members[p] /\ o \in Allocated /\ o # NoObj
    BY DEF PartyInv, MembersAgree, Allocated
  <1>2. info[o].conn \in Conns
    BY <1>1 DEF Owned
  <1> QED
    BY <1>1, <1>2 DEF NoGhostMember

\* Leaving a party takes members away, the one who leaves among them.
LEMMA LeavePartyShrinks ==
  ASSUME PartyInv, NEW o \in Allocated, code[o] # NoCode, LeaveParty(o)
  PROVE  \A p \in Codes : members'[p] \subseteq members[p] /\ o \notin members'[p]
  <1> SUFFICES ASSUME NEW p \in Codes
               PROVE  members'[p] \subseteq members[p] /\ o \notin members'[p]
    OBVIOUS
  <1>1. CASE code[o] \in parties /\ RemoveMember(code[o], info[o].id)
    BY <1>1 DEF RemoveMember, PartyInv, TypeOK, MembersAgree
  <1>2. CASE code[o] \notin parties /\ UNCHANGED <<parties, members>>
    BY <1>2 DEF PartyInv, MembersAgree
  <1> QED
    BY <1>1, <1>2 DEF LeaveParty

\* Members are added who are not ghosts.
LEMMA MembersGrow ==
  ASSUME PartyInv, Owned, NoGhostMember, UNCHANGED <<st, cl, info>>,
         NEW added \in SUBSET Objs,
         \A o \in added : ~info[o].test /\ cl[info[o].conn] = o => st[info[o].conn] # "done",
         \A p \in Codes : members'[p] \subseteq members[p] \cup added
  PROVE  NoGhostMember'
  BY DEF NoGhostMember

\* A goroutine takes its object out of the party before it ends, and a stale
\* object that is still registered is not added behind its back.
LEMMA MembershipsNext ==
  ASSUME PartyInv, Owned, NoGhostRegistration, NoGhostMember, [Next]_vars
  PROVE  NoGhostMember'
  <1> USE DEF PartyInv
  <1>1. ASSUME NEW cn \in Conns, NEW i \in Ids, NEW n \in Names, NEW o \in Objs,
               Register(cn, i, n, o)
        PROVE  NoGhostMember'
    <2> SUFFICES ASSUME NEW p \in Codes, NEW m \in members[p],
                        ~info'[m].test, cl'[info'[m].conn] = m
                 PROVE  st'[info'[m].conn] # "done"
      BY <1>1 DEF NoGhostMember, Register
    <2>1. m \in Allocated /\ m # o /\ info'[m] = info[m] /\ m \in Objs
      BY <1>1 DEF MembersAgree, Register, TypeOK, Allocated
    <2>2. info[m].conn \in Conns
      BY <2>1 DEF Owned
    <2>3. cl[info[m].conn] = m
      BY <1>1, <2>1, <2>2 DEF Register, TypeOK
    <2>4. st[info[m].conn] # "done"
      BY <2>1, <2>3 DEF NoGhostMember
    <2> QED
      BY <1>1, <2>1, <2>2, <2>4 DEF Register, CloseConn
  <1>2. ASSUME NEW i \in Ids, NEW n \in Names, NEW o \in Objs, CreateTestClient(i, n, o)
        PROVE  NoGhostMember'
    <2>1. \A p \in Codes : \A m \in members[p] : info'[m] = info[m]
      BY <1>2 DEF CreateTestClient, TypeOK, MembersAgree
    <2> QED
      BY <1>2, <2>1 DEF CreateTestClient, NoGhostMember
  <1>3. ASSUME NEW cn \in Conns, NEW i \in Ids, NEW n \in Names, RegisterRejected(cn, i, n)
        PROVE  NoGhostMember'
    <2> SUFFICES ASSUME NEW p \in Codes, NEW m \in members[p],
                        ~info[m].test, cl'[info[m].conn] = m
                 PROVE  st'[info[m].conn] # "done"
      BY <1>3 DEF NoGhostMember, RegisterRejected
    <2>1. m \in Allocated /\ info[m].conn \in Conns
      BY DEF MembersAgree, Owned
    <2>2. cl[info[m].conn] = m
      BY <1>3, <2>1 DEF RegisterRejected, TypeOK, Allocated
    <2> QED
      BY <1>3, <2>1, <2>2 DEF RegisterRejected, TypeOK, NoGhostMember
  <1>17. ASSUME NEW cn \in Conns, NEW i \in Ids, NEW n \in Names, NEW o \in Objs,
                RegisterPanics(cn, i, n, o)
         PROVE  NoGhostMember'
    <2>1. \A p \in Codes : \A m \in members[p] : info'[m] = info[m]
      BY <1>17 DEF RegisterPanics, TypeOK, MembersAgree
    <2>2. \A p \in Codes : \A m \in members[p] : ~info[m].test => info[m].conn \in Conns
      BY DEF MembersAgree, Owned
    <2>3. \A c \in Conns : st'[c] = "done" => st[c] = "done"
      BY <1>17 DEF RegisterPanics, TypeOK
    <2> QED
      BY <1>17, <2>1, <2>2, <2>3 DEF RegisterPanics, NoGhostMember
  <1>18. ASSUME NEW cn \in Conns, LeavePanics(cn) PROVE NoGhostMember'
    <2>1. /\ UNCHANGED <<cl, info>>
          /\ \A p \in Codes : members'[p] \subseteq members[p]
          /\ \A c \in Conns : st'[c] = "done" => st[c] = "done"
      BY <1>18 DEF LeavePanics, TypeOK
    <2> QED
      BY <2>1, MembersShrink
  <1>4. ASSUME NEW cn \in Conns, Open(cn) \/ ReadFails(cn) \/ Panic(cn) PROVE NoGhostMember'
    <2>1. /\ UNCHANGED <<cl, info, members>>
          /\ \A c \in Conns : st'[c] = "done" => st[c] = "done" \/ cl[c] = NoObj
      BY <1>4 DEF Open, ReadFails, Panic, TypeOK
    <2> QED
      BY <2>1, MembersShrink
  <1>5. ASSUME NEW cn \in Conns, FinishDisconnect(cn) PROVE NoGhostMember'
    <2>1. cl[cn] \in Allocated /\ UNCHANGED <<cl, info>>
      BY <1>5 DEF FinishDisconnect, WiringOK
    <2>2. \A p \in Codes : members'[p] \subseteq members[p] /\ cl[cn] \notin members'[p]
      <3>1. CASE code[cl[cn]] # NoCode /\ LeaveParty(cl[cn])
        BY <2>1, <3>1, LeavePartyShrinks
      <3>2. CASE code[cl[cn]] = NoCode /\ UNCHANGED <<code, parties, members>>
        BY <3>2 DEF MembersAgree
      <3> QED
        BY <1>5, <3>1, <3>2 DEF FinishDisconnect
    <2>3. \A c \in Conns : st'[c] = "done" => st[c] = "done" \/ c = cn
      BY <1>5 DEF FinishDisconnect, TypeOK
    <2> QED
      BY <2>1, <2>2, <2>3, MembersShrink
  <1>6. ASSUME UNCHANGED <<st, cl, info>>, \A p \in Codes : members'[p] \subseteq members[p]
        PROVE  NoGhostMember'
    BY <1>6, MembersShrink
  <1>7. ASSUME NEW cn \in Conns, HandleLeaveParty(cn) PROVE NoGhostMember'
    <2>1. cl[cn] \in Allocated
      BY <1>7 DEF HandleLeaveParty, InLoop, WiringOK
    <2> QED
      BY <1>6, <1>7, <2>1, LeavePartyShrinks DEF HandleLeaveParty
  <1>8. ASSUME NEW i \in Ids, LeaveTestParty(i) PROVE NoGhostMember'
    <2>1. clients[i] \in Allocated
      BY <1>8 DEF LeaveTestParty, WiringOK
    <2> QED
      BY <1>6, <1>8, <2>1, LeavePartyShrinks DEF LeaveTestParty
  <1>9. ASSUME NEW r \in removal, FinishRemoval(r) PROVE NoGhostMember'
    <2>1. \A p \in Codes : members'[p] \subseteq members[p]
      BY <1>9 DEF FinishRemoval, RemoveMember, TypeOK
    <2> QED
      BY <1>6, <1>9, <2>1 DEF FinishRemoval
  <1>10. CASE CleanupTestClients
    BY <1>6, <1>10 DEF CleanupTestClients
  <1>11. ASSUME NEW p \in Codes, DeleteParty(p) PROVE NoGhostMember'
    BY <1>6, <1>11 DEF DeleteParty, TypeOK
  <1>12. ASSUME NEW cn \in Conns, NEW p \in Codes,
                HandleCreateParty(cn, p) \/ HandleJoinParty(cn, p)
         PROVE  NoGhostMember'
    <2>1. /\ cl[cn] \in Objs /\ info[cl[cn]].conn = cn /\ st[cn] # "done"
          /\ AddMember(p, cl[cn]) /\ UNCHANGED <<st, cl, info>>
      BY <1>12 DEF HandleCreateParty, HandleJoinParty, InLoop, Serving, TypeOK, Owned
    <2>2. \A q \in Codes : members'[q] \subseteq members[q] \cup {cl[cn]}
      BY <2>1 DEF AddMember, TypeOK
    <2> QED
      BY <2>1, <2>2, MembersGrow
  <1>13. ASSUME NEW added \in SUBSET Registered, UNCHANGED <<st, cl, info>>,
                \A q \in Codes : members'[q] \subseteq members[q] \cup added
         PROVE  NoGhostMember'
    <2>1. Registered \subseteq Objs
      BY DEF Registered, TypeOK
    <2>2. \A o \in added : ~info[o].test /\ cl[info[o].conn] = o => st[info[o].conn] # "done"
      BY DEF NoGhostRegistration, Serving
    <2> QED
      BY <1>13, <2>1, <2>2, MembersGrow
  <1>14. ASSUME NEW i \in Ids, NEW p \in Codes, JoinTestParty(i, p) PROVE NoGhostMember'
    <2>1. {clients[i]} \in SUBSET Registered
      BY <1>14 DEF JoinTestParty, Registered
    <2>2. \A q \in Codes : members'[q] \subseteq members[q] \cup {clients[i]}
      BY <1>14 DEF JoinTestParty, AddMember, TypeOK
    <2> QED
      BY <1>13, <1>14, <2>1, <2>2 DEF JoinTestParty
  <1>15. ASSUME NEW i \in Ids, NEW p \in Codes, NEW S \in SUBSET Ids, CreateTestParty(i, p, S)
         PROVE  NoGhostMember'
    <2> DEFINE free == {clients[j] : j \in {k \in S : clients[k] # NoObj}}
               eligible == {o \in free : code[o] = NoCode} \ {clients[i]}
    <2>1. PICK A \in SUBSET eligible :
            members' = [members EXCEPT ![p] = A \cup {clients[i]}]
      BY <1>15 DEF CreateTestParty
    <2>2. A \cup {clients[i]} \in SUBSET Registered
      BY <1>15 DEF CreateTestParty, Registered
    <2>3. \A q \in Codes : members'[q] \subseteq members[q] \cup (A \cup {clients[i]})
      BY <2>1 DEF TypeOK
    <2> HIDE DEF eligible
    <2> QED
      BY <1>13, <1>15, <2>2, <2>3 DEF CreateTestParty
  <1>16. CASE UNCHANGED <<st, cl, info, members>>
    BY <1>6, <1>16
  <1> QED
    BY <1>1, <1>2, <1>3, <1>4, <1>5, <1>7, <1>8, <1>9, <1>10, <1>11, <1>12, <1>14, <1>15, <1>16, <1>17, <1>18
       DEF Next, ConnNext, AdminNext, vars, RemoveTestClient, CleanupEmptyParties

\* The empty hub has no ghosts.
LEMMA GhostInit == Init => GhostInv
  BY PartyInvInit DEF Init, GhostInv, Owned, NoGhostRegistration, NoGhostMember, Registered, Allocated

\* The inductive invariant of the clean-up: whose object is whose, no ghosts.
THEOREM GhostInvariant == Spec => []GhostInv
  <1>1. GhostInv /\ [Next]_vars => GhostInv'
    BY PartyInvNext, OwnedNext, RegistrationsNext, MembershipsNext DEF GhostInv
  <1> QED
    BY <1>1, GhostInit, PTL DEF Spec

\* A registration outlives the goroutine that would remove it only if that one
\* panicked: every interleaving of the two critical sections of handleDisconnect
\* with registrations of the same client ends with what it removes gone.
THEOREM RegistrationsAreServed == Spec => []NoGhostRegistration
  <1>1. GhostInv => NoGhostRegistration
    BY DEF GhostInv
  <1> QED
    BY <1>1, GhostInvariant, PTL

\* No membership outlives a goroutine that returned from HandleConnection (one
\* that panicked has not: its membership may stay), though the stale goroutine of
\* a reconnected client acts on the same entry of the party.
THEOREM MembershipsEnd == Spec => []NoGhostMember
  <1>1. GhostInv => NoGhostMember
    BY DEF GhostInv
  <1> QED
    BY <1>1, GhostInvariant, PTL

=============================================================================
