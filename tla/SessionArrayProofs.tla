------------------------- MODULE SessionArrayProofs -------------------------
(***************************************************************************)
(* The array of gsad_session.c with its mutex and its loops implements the *)
(* database SessionStore describes, for any number of threads and of       *)
(* sessions.                                                               *)
(***************************************************************************)
EXTENDS SessionArray, SequenceTheorems, TLAPS

(* Taking an element out moves the later ones down by one.                 *)
LEMMA RemoveAtProperties ==
  ASSUME NEW S, NEW s \in Seq(S), NEW i \in 1..Len(s)
  PROVE  /\ RemoveAt(s, i) \in Seq(S)
         /\ Len(RemoveAt(s, i)) = Len(s) - 1
         /\ \A j \in 1..Len(s) - 1 :
              RemoveAt(s, i)[j] = IF j < i THEN s[j] ELSE s[j + 1]
<1> DEFINE front == SubSeq(s, 1, i - 1)
           back  == SubSeq(s, i + 1, Len(s))
<1>0. Len(s) \in Nat /\ \A j \in 1..Len(s) : s[j] \in S
  BY LenProperties, ElementOfSeq
<1>1. /\ front \in Seq(S) /\ Len(front) = i - 1
      /\ \A j \in 1..i - 1 : front[j] = s[j]
  BY <1>0, SubSeqProperties
<1>2. /\ back \in Seq(S) /\ Len(back) = Len(s) - i
      /\ \A j \in 1..Len(s) - i : back[j] = s[i + j]
  <2>1. \A j \in i + 1..Len(s) : s[j] \in S
    BY <1>0
  <2>2. Len(back) = IF i + 1 <= Len(s) THEN Len(s) - (i + 1) + 1 ELSE 0
    BY <1>0, <2>1, SubSeqProperties
  <2>3. /\ back \in Seq(S)
        /\ \A j \in 1..Len(s) - (i + 1) + 1 : back[j] = s[i + 1 + j - 1]
    BY <1>0, <2>1, SubSeqProperties
  <2> HIDE DEF back
  <2>4. \A j \in 1..Len(s) - i : j \in 1..Len(s) - (i + 1) + 1 /\ i + 1 + j - 1 = i + j
    BY <1>0
  <2>5. Len(back) = Len(s) - i
    BY <1>0, <2>2
  <2> QED
    BY <2>3, <2>4, <2>5
<1> HIDE DEF front, back
<1>3. /\ front \o back \in Seq(S)
      /\ Len(front \o back) = Len(front) + Len(back)
      /\ \A j \in 1..Len(front) + Len(back) :
           (front \o back)[j] = IF j <= Len(front) THEN front[j] ELSE back[j - Len(front)]
  BY <1>1, <1>2, ConcatProperties
<1>4. Len(front) + Len(back) = Len(s) - 1
  BY <1>0, <1>1, <1>2
<1>5. ASSUME NEW j \in 1..Len(s) - 1
      PROVE  (front \o back)[j] = IF j < i THEN s[j] ELSE s[j + 1]
  <2>1. CASE j < i
    <3>1. j <= Len(front) /\ j \in 1..i - 1
      BY <1>0, <1>1, <2>1
    <3> QED
      BY <1>1, <1>3, <1>4, <2>1, <3>1
  <2>2. CASE ~(j < i)
    <3>1. ~(j <= Len(front)) /\ j - Len(front) = j - i + 1
      BY <1>0, <1>1, <2>2
    <3>2. (front \o back)[j] = back[j - i + 1]
      BY <1>3, <1>4, <3>1
    <3>3. j - i + 1 \in 1..Len(s) - i /\ i + (j - i + 1) = j + 1
      BY <1>0, <2>2
    <3> QED
      BY <1>2, <2>2, <3>2, <3>3
  <2> QED
    BY <2>1, <2>2
<1> QED
  BY <1>3, <1>4, <1>5 DEF RemoveAt, front, back

(* No two slots of the array hold the same token.                          *)
Distinct(s) == \A i, j \in 1..Len(s) : s[i].token = s[j].token => i = j

(* Taking slot i out of an array of distinct tokens takes exactly its      *)
(* record out of the set of stored sessions.                               *)
LEMMA RemoveAtSet ==
  ASSUME NEW s \in Seq(Session), Distinct(s), NEW i \in 1..Len(s)
  PROVE  /\ Distinct(RemoveAt(s, i))
         /\ ToSet(RemoveAt(s, i)) = ToSet(s) \ {s[i]}
         /\ ToSet(RemoveAt(s, i)) = RemoveUser(ToSet(s), s[i].token)
<1> DEFINE r == RemoveAt(s, i)
           old(j) == IF j < i THEN j ELSE j + 1
<1>0. /\ r \in Seq(Session) /\ Len(r) = Len(s) - 1 /\ Len(s) \in Nat
      /\ \A j \in 1..Len(s) - 1 : r[j] = IF j < i THEN s[j] ELSE s[j + 1]
  BY LenProperties, RemoveAtProperties
<1> HIDE DEF r
<1>1. \A j \in 1..Len(r) : old(j) \in 1..Len(s) /\ old(j) # i /\ r[j] = s[old(j)]
  BY <1>0
<1>2. Distinct(r)
  <2> SUFFICES ASSUME NEW j \in 1..Len(r), NEW k \in 1..Len(r), r[j].token = r[k].token
               PROVE  j = k
    BY DEF Distinct
  <2>1. old(j) = old(k)
    BY <1>1 DEF Distinct
  <2> QED
    BY <1>0, <2>1
<1>3. \A k \in 1..Len(s) : k # i => \E j \in 1..Len(r) : old(j) = k
  <2> TAKE k \in 1..Len(s)
  <2>1. CASE k < i
    BY <1>0, <2>1
  <2>2. CASE k > i
    <3>1. k - 1 \in 1..Len(r) /\ old(k - 1) = k
      BY <1>0, <2>2
    <3> QED
      BY <3>1
  <2> QED
    BY <2>1, <2>2
<1>4. ToSet(s) = {s[k] : k \in 1..Len(s)} /\ ToSet(r) = {r[j] : j \in 1..Len(r)}
  BY <1>0, LenProperties DEF ToSet
<1>5. \A k \in 1..Len(s) : s[k].token = s[i].token <=> k = i
  BY DEF Distinct
<1>6. ToSet(r) = {s[k] : k \in 1..Len(s) \ {i}}
  <2> HIDE DEF old
  <2> QED
    BY <1>1, <1>3, <1>4
<1>7. ToSet(r) = ToSet(s) \ {s[i]}
  BY <1>4, <1>5, <1>6
<1>8. ToSet(r) = RemoveUser(ToSet(s), s[i].token)
  BY <1>4, <1>5, <1>6 DEF RemoveUser
<1> QED
  BY <1>2, <1>7, <1>8 DEF r

(* Appending a record whose token is not stored adds exactly that record.  *)
LEMMA AppendSet ==
  ASSUME NEW s \in Seq(Session), Distinct(s), NEW x \in Session,
         \A y \in ToSet(s) : y.token # x.token
  PROVE  /\ Append(s, x) \in Seq(Session)
         /\ Distinct(Append(s, x))
         /\ ToSet(Append(s, x)) = ToSet(s) \cup {x}
<1> DEFINE r == Append(s, x)
<1>1. /\ r \in Seq(Session) /\ Len(r) = Len(s) + 1 /\ Len(s) \in Nat
      /\ \A i \in 1..Len(s) : r[i] = s[i]
      /\ r[Len(s) + 1] = x
  BY AppendProperties
<1>2. ToSet(s) = {s[k] : k \in 1..Len(s)} /\ ToSet(r) = {r[j] : j \in 1..Len(r)}
  BY <1>1, LenProperties DEF ToSet
<1>3. Distinct(r)
  BY <1>1, <1>2 DEF Distinct
<1>4. ToSet(r) = ToSet(s) \cup {x}
  BY <1>1, <1>2
<1> QED
  BY <1>1, <1>3, <1>4

-----------------------------------------------------------------------------
(***************************************************************************)
(* The inductive invariant: only the holder of the mutex is inside a       *)
(* function, and Progress says how far its loop has come relative to the   *)
(* sessions stored when it took the mutex.                                 *)
(***************************************************************************)

\* No element that the loop has passed matches.
Passed(th, Matches(_)) == \A j \in 1..Len(users) : j < index[th] => ~Matches(users[j])

Progress(th) ==
  /\ pc[th] = "find" =>
       /\ call[th].op \in {"by_id", "remove", "add"}
       /\ ToSet(users) = before /\ found[th] = None
       /\ Passed(th, LAMBDA s : IsId(th, s))
  /\ pc[th] = "scan" =>
       /\ call[th].op = "by_name"
       /\ ToSet(users) = before /\ found[th] = None
       /\ Passed(th, LAMBDA s : IsName(th, s))
  /\ pc[th] = "sweep" =>
       /\ call[th].op = "remove_others"
       /\ RemoveOtherSessions(ToSet(users), Arg(th).token, Arg(th).owner)
            = RemoveOtherSessions(before, Arg(th).token, Arg(th).owner)
       /\ found[th] = None
       /\ Passed(th, LAMBDA s : IsOther(th, s))
  /\ pc[th] = "append" =>
       /\ call[th].op = "add"
       /\ ToSet(users) = RemoveUser(before, Arg(th).token) /\ found[th] = None
  /\ pc[th] = "unlock" =>
       /\ ToSet(users) = Store!Effect(call[th])
       /\ found[th] \in Store!Results(call[th])

MutexInv ==
  /\ \A th \in Threads : pc[th] = "idle" <=> call[th] = None
  /\ \A th \in Threads : pc[th] \in Inside <=> mutex = th
  /\ \A th \in Threads : pc[th] \notin Inside => index[th] = 1 /\ found[th] = None

ArrayInv ==
  /\ Distinct(users)
  /\ MutexInv
  /\ \A th \in Threads : Progress(th)

Inv == TypeOK /\ ArrayInv

(* What the holder does concerns no other thread's progress.               *)
LEMMA HolderOnly ==
  ASSUME Inv, NEW th \in Threads, pc[th] \in Inside,
         NEW next \in Inside, pc' = [pc EXCEPT ![th] = next],
         UNCHANGED <<mutex, call>>,
         \A x \in Threads \ {th} : index'[x] = index[x] /\ found'[x] = found[x],
         Distinct(users'), Progress(th)'
  PROVE  ArrayInv'
<1>1. \A x \in Threads \ {th} : pc'[x] = pc[x] /\ pc[x] \notin Inside
  BY DEF Inv, ArrayInv, MutexInv, TypeOK
<1>2. pc'[th] = next
  BY DEF Inv, TypeOK
<1>3. MutexInv'
  BY <1>1, <1>2 DEF Inv, ArrayInv, MutexInv, Inside
<1>4. \A x \in Threads \ {th} : Progress(x)'
  BY <1>1 DEF Progress, Inside
<1> QED
  BY <1>3, <1>4 DEF ArrayInv

LEMMA HolderTypes ==
  ASSUME Inv, NEW th \in Threads, pc[th] \in Inside
  PROVE  /\ call[th] \in Calls /\ Arg(th) \in Session /\ mutex = th
         /\ call[th].arg = Arg(th) /\ call[th].op \in Ops
         /\ Stored = before
         /\ Len(users) \in Nat /\ \A j \in 1..Len(users) : users[j] \in Session
         /\ ToSet(users) = {users[j] : j \in 1..Len(users)}
         /\ index[th] \in Nat \ {0}
<1>1. call[th] \in Calls
  BY DEF Inv, TypeOK, ArrayInv, MutexInv, Inside
<1>2. mutex = th /\ Stored = before
  BY NoneAssumption DEF Inv, ArrayInv, MutexInv, Stored
<1>3. users \in Seq(Session)
  BY DEF Inv, TypeOK
<1>4. Len(users) \in Nat /\ \A j \in 1..Len(users) : users[j] \in Session
  BY <1>3, LenProperties, ElementOfSeq
<1>5. ToSet(users) = {users[j] : j \in 1..Len(users)}
  BY <1>3, LenProperties DEF ToSet
<1> QED
  BY <1>1, <1>2, <1>4, <1>5, RecordsAssumption DEF Calls, Arg, Inv, TypeOK

(* Iterations that pass over an element.                                   *)
LEMMA AdvanceInv ==
  ASSUME Inv, NEW th \in Threads, FindNext(th) \/ ScanNext(th) \/ SweepNext(th)
  PROVE  Inv'
<1>0. pc[th] \in {"find", "scan", "sweep"} /\ pc[th] \in Inside
  BY DEF FindNext, ScanNext, SweepNext, Advance, Inside
<1>1. /\ More(th)
      /\ index' = [index EXCEPT ![th] = @ + 1]
      /\ UNCHANGED <<users, mutex, pc, call, found, result, before>>
  BY DEF FindNext, ScanNext, SweepNext, Advance
<1>2. index'[th] = index[th] + 1 /\ \A x \in Threads \ {th} : index'[x] = index[x]
  BY <1>1 DEF Inv, TypeOK
<1>3. TypeOK'
  BY <1>0, <1>1, <1>2, HolderTypes DEF Inv, TypeOK, More
<1>4. \A j \in 1..Len(users) : j < index'[th] => j < index[th] \/ users[j] = Item(th)
  BY <1>0, <1>2, HolderTypes DEF Item
<1>5. Progress(th)'
  <2>1. CASE FindNext(th)
    BY <1>1, <1>4, <2>1 DEF FindNext, Advance, Inv, ArrayInv, Progress, Passed, IsId, Arg
  <2>2. CASE ScanNext(th)
    BY <1>1, <1>4, <2>2 DEF ScanNext, Advance, Inv, ArrayInv, Progress, Passed, IsName, Arg
  <2>3. CASE SweepNext(th)
    BY <1>1, <1>4, <2>3 DEF SweepNext, Advance, Inv, ArrayInv, Progress, Passed, IsOther,
                            IsId, IsName, Arg
  <2> QED
    BY <2>1, <2>2, <2>3
<1>6. MutexInv'
  BY <1>0, <1>1, <1>2 DEF Inv, ArrayInv, MutexInv
<1>7. \A x \in Threads \ {th} : Progress(x)'
  <2> TAKE x \in Threads \ {th}
  <2>1. pc'[x] \notin Inside
    BY <1>0, <1>1 DEF Inv, ArrayInv, MutexInv
  <2> QED
    BY <2>1 DEF Progress, Inside
<1> QED
  BY <1>1, <1>3, <1>5, <1>6, <1>7 DEF Inv, ArrayInv

(* A lookup that finds its element, or runs to the end of the array.       *)
LEMMA FindMissInv ==
  ASSUME Inv, NEW th \in Threads, FindMiss(th)
  PROVE  Inv'
<1> DEFINE next == AfterFind(th)
<1>0. pc[th] = "find" /\ pc[th] \in Inside /\ next \in Inside
  BY DEF FindMiss, Leave, Inside, AfterFind
<1>1. /\ ~More(th) /\ pc' = [pc EXCEPT ![th] = next]
      /\ UNCHANGED <<users, mutex, call, index, found, result, before>>
  BY DEF FindMiss, Leave, Goto
<1>2. TypeOK'
  BY <1>0, <1>1 DEF Inv, TypeOK, AfterFind, PCs
<1>3. \A s \in ToSet(users) : s.token # Arg(th).token
  BY <1>0, <1>1, HolderTypes DEF Inv, ArrayInv, Progress, Passed, IsId, More
<1>4. /\ ToSet(users) = RemoveUser(before, Arg(th).token)
      /\ GetById(before, Arg(th).token) = {}
      /\ found[th] = None /\ ToSet(users) = before
  BY <1>0, <1>3 DEF Inv, ArrayInv, Progress, RemoveUser, GetById
<1>5. pc'[th] = next
  BY <1>1 DEF Inv, TypeOK
<1>6. CASE call[th].op = "add"
  <2>1. Progress(th)'
    BY <1>1, <1>4, <1>5, <1>6 DEF Progress, AfterFind, Arg
  <2> QED
    BY <1>0, <1>1, <1>2, <2>1, HolderOnly DEF Inv, ArrayInv
<1>7. CASE call[th].op # "add"
  <2>1. call[th].op \in {"by_id", "remove"}
    BY <1>0, <1>7 DEF Inv, ArrayInv, Progress
  <2>2. ToSet(users) = Store!Effect(call[th]) /\ found[th] \in Store!Results(call[th])
    BY <1>0, <1>4, <2>1, HolderTypes DEF Store!Effect, Store!Results, Store!OneOf,
          Store!GetById, GetById, Store!RemoveUser, RemoveUser
  <2>3. Stored' = Stored
    BY <1>1 DEF Stored
  <2>4. Progress(th)'
    BY <1>1, <1>5, <1>7, <2>2, <2>3 DEF Progress, AfterFind, Store!Effect, Store!Results
  <2> QED
    BY <1>0, <1>1, <1>2, <2>4, HolderOnly DEF Inv, ArrayInv
<1> QED
  BY <1>6, <1>7

LEMMA ScanMissInv ==
  ASSUME Inv, NEW th \in Threads, ScanMiss(th)
  PROVE  Inv'
<1>0. pc[th] = "scan" /\ pc[th] \in Inside /\ "unlock" \in Inside
  BY DEF ScanMiss, Leave, Inside
<1>1. /\ ~More(th) /\ pc' = [pc EXCEPT ![th] = "unlock"]
      /\ UNCHANGED <<users, mutex, call, index, found, result, before>>
  BY DEF ScanMiss, Leave, Goto
<1>2. TypeOK'
  BY <1>0, <1>1 DEF Inv, TypeOK, PCs
<1>3. \A s \in ToSet(users) : s.owner # Arg(th).owner
  BY <1>0, <1>1, HolderTypes DEF Inv, ArrayInv, Progress, Passed, IsName, More
<1>4. /\ GetByName(before, Arg(th).owner) = {}
      /\ found[th] = None /\ ToSet(users) = before /\ call[th].op = "by_name"
  BY <1>0, <1>3 DEF Inv, ArrayInv, Progress, GetByName
<1>5. pc'[th] = "unlock"
  BY <1>1 DEF Inv, TypeOK
<1>6. ToSet(users) = Store!Effect(call[th]) /\ found[th] \in Store!Results(call[th])
  BY <1>0, <1>4, HolderTypes DEF Store!Effect, Store!Results, Store!OneOf,
        Store!GetByName, GetByName
<1>7. Stored' = Stored
  BY <1>1 DEF Stored
<1>8. Progress(th)'
  BY <1>1, <1>5, <1>6, <1>7 DEF Progress, Store!Effect, Store!Results
<1> QED
  BY <1>0, <1>1, <1>2, <1>8, HolderOnly DEF Inv, ArrayInv

LEMMA CopyInv ==
  ASSUME Inv, NEW th \in Threads, FindCopy(th) \/ ScanCopy(th)
  PROVE  Inv'
<1>0. /\ pc[th] \in {"find", "scan"} /\ pc[th] \in Inside /\ "unlock" \in Inside
      /\ \/ pc[th] = "find" /\ call[th].op = "by_id" /\ IsId(th, Item(th))
         \/ pc[th] = "scan" /\ IsName(th, Item(th))
  BY DEF FindCopy, ScanCopy, Return, Inside
<1>1. /\ More(th) /\ pc' = [pc EXCEPT ![th] = "unlock"]
      /\ found' = [found EXCEPT ![th] = Item(th)]
      /\ UNCHANGED <<users, mutex, call, index, result, before>>
  BY DEF FindCopy, ScanCopy, Return, Goto
<1>2. Item(th) \in Session /\ Item(th) \in ToSet(users)
  BY <1>0, <1>1, HolderTypes DEF Item, More
<1>3. TypeOK'
  BY <1>0, <1>1, <1>2 DEF Inv, TypeOK, PCs
<1>4. /\ pc'[th] = "unlock" /\ found'[th] = Item(th)
      /\ \A x \in Threads \ {th} : found'[x] = found[x]
  BY <1>1 DEF Inv, TypeOK
<1>5. ToSet(users) = before
  BY <1>0 DEF Inv, ArrayInv, Progress
<1>6. ToSet(users) = Store!Effect(call[th]) /\ Item(th) \in Store!Results(call[th])
  <2>1. CASE pc[th] = "find"
    <3>1. call[th].op = "by_id" /\ IsId(th, Item(th))
      BY <1>0, <2>1
    <3>2. Item(th) \in Store!GetById(before, call[th].arg.token)
      BY <1>0, <1>2, <1>5, <3>1, HolderTypes DEF IsId, Store!GetById
    <3> QED
      BY <1>0, <1>5, <3>1, <3>2, HolderTypes DEF Store!Effect, Store!Results, Store!OneOf
  <2>2. CASE pc[th] = "scan"
    <3>1. call[th].op = "by_name" /\ IsName(th, Item(th))
      BY <1>0, <2>2 DEF Inv, ArrayInv, Progress
    <3>2. Item(th) \in Store!GetByName(before, call[th].arg.owner)
      BY <1>0, <1>2, <1>5, <3>1, HolderTypes DEF IsName, Store!GetByName
    <3> QED
      BY <1>0, <1>5, <3>1, <3>2, HolderTypes DEF Store!Effect, Store!Results, Store!OneOf
  <2> QED
    BY <1>0, <2>1, <2>2
<1>7. Stored' = Stored
  BY <1>1 DEF Stored
<1>8. Progress(th)'
  BY <1>1, <1>4, <1>6, <1>7 DEF Progress, Store!Effect, Store!Results
<1> QED
  BY <1>0, <1>1, <1>3, <1>4, <1>8, HolderOnly DEF Inv, ArrayInv

LEMMA FindRemoveInv ==
  ASSUME Inv, NEW th \in Threads, FindRemove(th)
  PROVE  Inv'
<1> DEFINE next == AfterFind(th)
<1>0. /\ pc[th] = "find" /\ pc[th] \in Inside /\ next \in Inside
      /\ call[th].op \in {"remove", "add"}
  BY DEF FindRemove, Inside, AfterFind, Inv, ArrayInv, Progress
<1>1. /\ More(th) /\ IsId(th, Item(th)) /\ pc' = [pc EXCEPT ![th] = next]
      /\ users' = RemoveAt(users, index[th])
      /\ UNCHANGED <<mutex, call, index, found, result, before>>
  BY DEF FindRemove, Goto
<1>2. users \in Seq(Session) /\ index[th] \in 1..Len(users) /\ Distinct(users)
  BY <1>0, <1>1, HolderTypes DEF More, Inv, TypeOK, ArrayInv
<1>3. /\ users' \in Seq(Session) /\ Distinct(users')
      /\ ToSet(users') = RemoveUser(ToSet(users), Item(th).token)
  BY <1>1, <1>2, RemoveAtProperties, RemoveAtSet DEF Item
<1>4. \A x \in Threads : pc'[x] \notin {"find", "scan", "sweep"}
  BY <1>0, <1>1 DEF Inv, TypeOK, ArrayInv, MutexInv, AfterFind, Inside
<1>5. TypeOK'
  BY <1>0, <1>1, <1>3, <1>4 DEF Inv, TypeOK, PCs, AfterFind
<1>6. /\ ToSet(users') = RemoveUser(before, Arg(th).token)
      /\ found[th] = None /\ pc'[th] = next
  BY <1>0, <1>1, <1>3 DEF Inv, TypeOK, ArrayInv, Progress, IsId
<1>7. Stored' = Stored
  BY <1>0, <1>1, HolderTypes, NoneAssumption DEF Stored
<1>8. CASE call[th].op = "add"
  <2>1. Progress(th)'
    BY <1>1, <1>6, <1>8 DEF Progress, AfterFind, Arg
  <2> QED
    BY <1>0, <1>1, <1>3, <1>5, <2>1, HolderOnly DEF Inv
<1>9. CASE call[th].op = "remove"
  <2>1. ToSet(users') = Store!Effect(call[th]) /\ found[th] \in Store!Results(call[th])
    BY <1>0, <1>6, <1>9, HolderTypes DEF Store!Effect, Store!Results, Store!RemoveUser,
                                         RemoveUser
  <2>2. Progress(th)'
    BY <1>1, <1>6, <1>7, <1>9, <2>1 DEF Progress, AfterFind, Store!Effect, Store!Results
  <2> QED
    BY <1>0, <1>1, <1>3, <1>5, <2>2, HolderOnly DEF Inv
<1> QED
  BY <1>0, <1>8, <1>9

LEMMA AddAppendInv ==
  ASSUME Inv, NEW th \in Threads, AddAppend(th)
  PROVE  Inv'
<1>0. /\ pc[th] = "append" /\ pc[th] \in Inside /\ "unlock" \in Inside
      /\ call[th].op = "add" /\ found[th] = None
      /\ ToSet(users) = RemoveUser(before, Arg(th).token)
  BY DEF AddAppend, Inside, Inv, ArrayInv, Progress
<1>1. /\ pc' = [pc EXCEPT ![th] = "unlock"]
      /\ users' = Append(users, Arg(th))
      /\ UNCHANGED <<mutex, call, index, found, result, before>>
  BY DEF AddAppend, Goto
<1>2. /\ users' \in Seq(Session) /\ Distinct(users')
      /\ ToSet(users') = ToSet(users) \cup {Arg(th)}
  <2>1. \A y \in ToSet(users) : y.token # Arg(th).token
    BY <1>0 DEF RemoveUser
  <2> QED
    BY <1>0, <1>1, <2>1, HolderTypes, AppendSet DEF Inv, TypeOK, ArrayInv
<1>3. \A x \in Threads : pc'[x] \notin {"find", "scan", "sweep"}
  BY <1>0, <1>1 DEF Inv, TypeOK, ArrayInv, MutexInv, Inside
<1>4. TypeOK'
  BY <1>0, <1>1, <1>2, <1>3 DEF Inv, TypeOK, PCs
<1>5. ToSet(users') = Store!Effect(call[th]) /\ found[th] \in Store!Results(call[th])
  BY <1>0, <1>2, HolderTypes DEF Store!Effect, Store!Results, Store!AddUser,
                                 Store!RemoveUser, RemoveUser
<1>6. Stored' = Stored
  BY <1>0, <1>1, HolderTypes, NoneAssumption DEF Stored
<1>7. pc'[th] = "unlock"
  BY <1>1 DEF Inv, TypeOK
<1>8. Progress(th)'
  BY <1>0, <1>1, <1>5, <1>6, <1>7 DEF Progress, Store!Effect, Store!Results
<1> QED
  BY <1>0, <1>1, <1>2, <1>4, <1>8, HolderOnly DEF Inv

LEMMA SweepRemoveInv ==
  ASSUME Inv, NEW th \in Threads, SweepRemove(th)
  PROVE  Inv'
<1>0. pc[th] = "sweep" /\ pc[th] \in Inside
  BY DEF SweepRemove, Inside
<1>1. /\ More(th) /\ IsOther(th, Item(th))
      /\ users' = RemoveAt(users, index[th])
      /\ UNCHANGED <<mutex, pc, call, index, found, result, before>>
  BY DEF SweepRemove
<1>2. /\ users \in Seq(Session) /\ index[th] \in 1..Len(users) /\ Distinct(users)
      /\ Len(users) \in Nat
  BY <1>0, <1>1, HolderTypes DEF More, Inv, TypeOK, ArrayInv
<1>3. /\ users' \in Seq(Session) /\ Distinct(users') /\ Len(users') = Len(users) - 1
      /\ ToSet(users') = ToSet(users) \ {Item(th)}
      /\ \A j \in 1..Len(users) - 1 :
           users'[j] = IF j < index[th] THEN users[j] ELSE users[j + 1]
  BY <1>1, <1>2, RemoveAtProperties, RemoveAtSet DEF Item
<1>4. \A x \in Threads \ {th} : pc'[x] \notin Inside
  BY <1>0, <1>1 DEF Inv, ArrayInv, MutexInv
<1>5. TypeOK'
  <2>1. index'[th] <= Len(users') + 1
    BY <1>1, <1>2, <1>3
  <2> QED
    BY <1>1, <1>3, <1>4, <2>1 DEF Inv, TypeOK, Inside
<1>6. RemoveOtherSessions(ToSet(users'), Arg(th).token, Arg(th).owner)
        = RemoveOtherSessions(ToSet(users), Arg(th).token, Arg(th).owner)
  BY <1>1, <1>3 DEF RemoveOtherSessions, IsOther, IsName, IsId
<1>7. \A j \in 1..Len(users') : j < index[th] => ~IsOther(th, users'[j])
  <2> SUFFICES ASSUME NEW j \in 1..Len(users'), j < index[th]
               PROVE  ~IsOther(th, users'[j])
    OBVIOUS
  <2>1. users'[j] = users[j] /\ j \in 1..Len(users)
    BY <1>2, <1>3
  <2>2. ~IsOther(th, users[j])
    BY <1>0, <2>1 DEF Inv, ArrayInv, Progress, Passed
  <2> QED
    BY <2>1, <2>2
<1>8. Progress(th)'
  BY <1>0, <1>1, <1>6, <1>7 DEF Inv, ArrayInv, Progress, Passed, IsOther, IsName, IsId, Arg
<1>9. pc' = [pc EXCEPT ![th] = "sweep"] /\ "sweep" \in Inside
  BY <1>0, <1>1 DEF Inv, TypeOK, Inside
<1> QED
  BY <1>0, <1>1, <1>3, <1>5, <1>8, <1>9, HolderOnly DEF Inv

LEMMA SweepEndInv ==
  ASSUME Inv, NEW th \in Threads, SweepEnd(th)
  PROVE  Inv'
<1>0. pc[th] = "sweep" /\ pc[th] \in Inside /\ "unlock" \in Inside
  BY DEF SweepEnd, Leave, Inside
<1>1. /\ ~More(th) /\ pc' = [pc EXCEPT ![th] = "unlock"]
      /\ UNCHANGED <<users, mutex, call, index, found, result, before>>
  BY DEF SweepEnd, Leave, Goto
<1>2. TypeOK'
  BY <1>0, <1>1 DEF Inv, TypeOK, PCs
<1>3. \A s \in ToSet(users) : ~IsOther(th, s)
  BY <1>0, <1>1, HolderTypes DEF Inv, ArrayInv, Progress, Passed, More
<1>4. /\ ToSet(users) = RemoveOtherSessions(before, Arg(th).token, Arg(th).owner)
      /\ found[th] = None /\ call[th].op = "remove_others"
  BY <1>0, <1>3 DEF Inv, ArrayInv, Progress, RemoveOtherSessions, IsOther, IsName, IsId
<1>5. pc'[th] = "unlock"
  BY <1>1 DEF Inv, TypeOK
<1>6. ToSet(users) = Store!Effect(call[th]) /\ found[th] \in Store!Results(call[th])
  BY <1>0, <1>4, HolderTypes DEF Store!Effect, Store!Results,
        Store!RemoveOtherSessions, RemoveOtherSessions
<1>7. Stored' = Stored
  BY <1>1 DEF Stored
<1>8. Progress(th)'
  BY <1>1, <1>5, <1>6, <1>7 DEF Progress, Store!Effect, Store!Results
<1> QED
  BY <1>0, <1>1, <1>2, <1>8, HolderOnly DEF Inv, ArrayInv

-----------------------------------------------------------------------------
(* Entering and leaving a function.                                        *)

LEMMA AskInv ==
  ASSUME Inv, NEW th \in Threads, NEW c \in Calls, Ask(th, c)
  PROVE  Inv'
<1>1. /\ pc[th] = "idle" /\ pc' = [pc EXCEPT ![th] = "lock"]
      /\ call' = [call EXCEPT ![th] = c]
      /\ UNCHANGED <<users, mutex, index, found, result, before>>
  BY DEF Ask, Goto
<1>2. /\ pc'[th] = "lock" /\ call'[th] = c /\ c # None
      /\ \A x \in Threads \ {th} : pc'[x] = pc[x] /\ call'[x] = call[x]
  BY <1>1, NoneAssumption DEF Inv, TypeOK
<1>3. TypeOK'
  BY <1>1, <1>2 DEF Inv, TypeOK, PCs
<1>4. MutexInv'
  BY <1>1, <1>2 DEF Inv, ArrayInv, MutexInv, Inside
<1>5. Stored' = Stored
  BY <1>1 DEF Stored
<1>6. \A x \in Threads \ {th} : Progress(x)'
  BY <1>1, <1>2, <1>5 DEF Inv, ArrayInv, Progress, Passed, IsId, IsName, IsOther, Arg,
                          Store!Effect, Store!Results
<1>7. Progress(th)'
  BY <1>2 DEF Progress
<1> QED
  BY <1>1, <1>3, <1>4, <1>6, <1>7 DEF Inv, ArrayInv

LEMMA LockInv ==
  ASSUME Inv, NEW th \in Threads, Lock(th)
  PROVE  Inv'
<1> DEFINE next == Loop[call[th].op]
<1>1. /\ pc[th] = "lock" /\ mutex = None
      /\ mutex' = th /\ before' = ToSet(users) /\ pc' = [pc EXCEPT ![th] = next]
      /\ UNCHANGED <<users, call, index, found, result>>
  BY DEF Lock, Enter, Goto
<1>2. /\ call[th] \in Calls /\ call[th].op \in Ops
      /\ index[th] = 1 /\ found[th] = None
      /\ \A x \in Threads : pc[x] \notin Inside
  BY <1>1, NoneAssumption DEF Inv, TypeOK, ArrayInv, MutexInv, Calls, Inside
<1>3. /\ next \in {"find", "scan", "sweep"}
      /\ next = "find" => call[th].op \in {"by_id", "remove", "add"}
      /\ next = "scan" => call[th].op = "by_name"
      /\ next = "sweep" => call[th].op = "remove_others"
  BY <1>2 DEF Loop, Ops
<1> HIDE DEF next
<1>4. pc'[th] = next /\ \A x \in Threads \ {th} : pc'[x] = pc[x]
  BY <1>1 DEF Inv, TypeOK
<1>5. ToSet(users) \subseteq Session /\ Len(users) \in Nat
  BY ElementOfSeq, LenProperties DEF Inv, TypeOK, ToSet
<1>6. TypeOK'
  <2>1. index'[th] <= Len(users') + 1
    BY <1>1, <1>2, <1>5
  <2>2. pc' \in [Threads -> PCs]
    BY <1>1, <1>3 DEF Inv, TypeOK, PCs, Inside
  <2>3. \A x \in Threads : pc'[x] \in {"find", "scan", "sweep"} => index'[x] <= Len(users') + 1
    BY <1>2, <1>4, <2>1 DEF Inside
  <2> QED
    BY <1>1, <1>5, <2>2, <2>3 DEF Inv, TypeOK
<1>7. MutexInv'
  BY <1>1, <1>2, <1>3, <1>4, NoneAssumption DEF Inv, ArrayInv, MutexInv, Inside
<1>8. \A j \in 1..Len(users) : ~(j < index'[th])
  BY <1>1, <1>2, <1>5
<1>9. Progress(th)'
  BY <1>1, <1>2, <1>3, <1>4, <1>8 DEF Progress, Passed
<1>10. \A x \in Threads \ {th} : Progress(x)'
  BY <1>2, <1>4 DEF Progress, Inside
<1> QED
  BY <1>1, <1>6, <1>7, <1>9, <1>10 DEF Inv, ArrayInv

LEMMA UnlockInv ==
  ASSUME Inv, NEW th \in Threads, Unlock(th)
  PROVE  Inv'
<1>1. /\ pc[th] = "unlock" /\ pc[th] \in Inside /\ pc' = [pc EXCEPT ![th] = "idle"]
      /\ mutex' = None /\ before' = {} /\ result' = found[th]
      /\ call' = [call EXCEPT ![th] = None]
      /\ index' = [index EXCEPT ![th] = 1]
      /\ found' = [found EXCEPT ![th] = None]
      /\ UNCHANGED users
  BY DEF Unlock, Goto, Inside
<1>2. /\ pc'[th] = "idle" /\ call'[th] = None /\ index'[th] = 1 /\ found'[th] = None
      /\ \A x \in Threads \ {th} :
           /\ pc'[x] = pc[x] /\ call'[x] = call[x]
           /\ index'[x] = index[x] /\ found'[x] = found[x]
           /\ pc[x] \notin Inside
  BY <1>1 DEF Inv, TypeOK, ArrayInv, MutexInv
<1>3. TypeOK'
  BY <1>1, <1>2 DEF Inv, TypeOK, PCs
<1>4. MutexInv'
  BY <1>1, <1>2, NoneAssumption DEF Inv, ArrayInv, MutexInv, Inside
<1>5. \A x \in Threads : Progress(x)'
  BY <1>2 DEF Progress, Inside
<1> QED
  BY <1>1, <1>3, <1>4, <1>5 DEF Inv, ArrayInv

LEMMA InvStep ==
  Inv /\ [Next]_vars => Inv'
<1> SUFFICES ASSUME Inv, [Next]_vars PROVE Inv'
  OBVIOUS
<1>1. CASE UNCHANGED vars
  <2>1. Stored' = Stored
    BY <1>1 DEF vars, Stored
  <2>2. \A x \in Threads : Progress(x)'
    BY <1>1, <2>1 DEF vars, Inv, ArrayInv, Progress, Passed, IsId, IsName, IsOther, Arg,
                      Store!Effect, Store!Results
  <2> QED
    BY <1>1, <2>2 DEF vars, Inv, TypeOK, ArrayInv, MutexInv, Distinct
<1>2. ASSUME NEW th \in Threads, HolderStep(th)
      PROVE  Inv'
  BY <1>2, AdvanceInv, FindMissInv, ScanMissInv, CopyInv, FindRemoveInv, AddAppendInv,
     SweepRemoveInv, SweepEndInv, UnlockInv
     DEF HolderStep, FindStep, ScanStep, SweepStep
<1>3. ASSUME NEW th \in Threads, Lock(th) \/ \E c \in Calls : Ask(th, c)
      PROVE  Inv'
  BY <1>3, LockInv, AskInv
<1> QED
  BY <1>1, <1>2, <1>3 DEF Next

LEMMA InvInit ==
  Init => Inv
<1> SUFFICES ASSUME Init PROVE Inv
  OBVIOUS
<1>1. users \in Seq(Session) /\ Len(users) = 0
  BY DEF Init
<1>2. TypeOK
  BY <1>1 DEF Init, TypeOK, PCs
<1>3. ArrayInv
  BY <1>1, NoneAssumption DEF Init, ArrayInv, MutexInv, Progress, Distinct, Inside
<1> QED
  BY <1>2, <1>3 DEF Inv

LEMMA Invariance == Spec => []Inv
BY InvInit, InvStep, PTL DEF Spec

(* Every variable always has its type, and no loop leaves the array.       *)
THEOREM ArrayTypeCorrect == Spec => []TypeOK
<1>1. Inv => TypeOK
  BY DEF Inv
<1> QED
  BY <1>1, Invariance, PTL

(* Two threads are never inside gsad_session.c at the same time.           *)
THEOREM MutualExclusion ==
  Spec => [](\A x, y \in Threads : pc[x] \in Inside /\ pc[y] \in Inside => x = y)
<1>1. Inv => \A x, y \in Threads : pc[x] \in Inside /\ pc[y] \in Inside => x = y
  BY DEF Inv, ArrayInv, MutexInv
<1> QED
  BY <1>1, Invariance, PTL

-----------------------------------------------------------------------------
(* The refinement: Ask asks, Unlock answers, every other step stutters.    *)

LEMMA StoreStep ==
  Inv /\ [Next]_vars => [Store!StoreNext]_<<Stored, call, result>>
<1> SUFFICES ASSUME Inv, [Next]_vars
             PROVE  [Store!StoreNext]_<<Stored, call, result>>
  OBVIOUS
<1>1. CASE UNCHANGED vars
  BY <1>1 DEF vars, Stored
<1>2. ASSUME NEW th \in Threads, NEW c \in Calls, Ask(th, c)
      PROVE  Store!StoreNext
  <2>1. Store!Ask(th, c)
    BY <1>2 DEF Ask, Store!Ask, Inv, ArrayInv, MutexInv, Stored
  <2> QED
    BY <2>1 DEF Store!StoreNext, Store!Calls, Store!Ops, Calls, Ops
<1>3. ASSUME NEW th \in Threads, Lock(th)
      PROVE  UNCHANGED <<Stored, call, result>>
  BY <1>3, NoneAssumption DEF Lock, Enter, Stored
<1>4. ASSUME NEW th \in Threads, Unlock(th)
      PROVE  Store!StoreNext
  <2>1. pc[th] = "unlock" /\ pc[th] \in Inside
    BY <1>4 DEF Unlock, Inside
  <2>2. Stored' = ToSet(users)
    BY <1>4 DEF Unlock, Stored
  <2>3. /\ ToSet(users) = Store!Effect(call[th])
        /\ found[th] \in Store!Results(call[th])
        /\ call[th] # None
    BY <2>1, HolderTypes, NoneAssumption DEF Inv, ArrayInv, Progress
  <2>4. Store!Answer(th)
    BY <1>4, <2>2, <2>3 DEF Unlock, Store!Answer
  <2> QED
    BY <2>4 DEF Store!StoreNext
<1>5. ASSUME NEW th \in Threads, FindStep(th) \/ ScanStep(th) \/ SweepStep(th)
      PROVE  UNCHANGED <<Stored, call, result>>
  <2>1. pc[th] \in Inside /\ UNCHANGED <<mutex, call, result, before>>
    BY <1>5 DEF FindStep, ScanStep, SweepStep, FindNext, FindMiss, FindCopy, FindRemove,
                AddAppend, ScanNext, ScanMiss, ScanCopy, SweepNext, SweepRemove, SweepEnd,
                Advance, Leave, Return, Inside
  <2> QED
    BY <2>1, HolderTypes, NoneAssumption DEF Stored
<1> QED
  BY <1>1, <1>2, <1>3, <1>4, <1>5 DEF Next, HolderStep

(* The functions of gsad_session.c are atomic to their callers and do what *)
(* SessionStore says.                                                      *)
THEOREM ArrayImplementsStore == Spec => ImplementsStore
<1>1. Init => Store!StoreInit
  BY DEF Init, Store!StoreInit, Stored, ToSet
<1> QED
  BY <1>1, StoreStep, Invariance, PTL DEF Spec, ImplementsStore, Store!StoreSpec

=============================================================================
