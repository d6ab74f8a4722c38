--------------------------- MODULE TreasuryProofs ---------------------------
(***************************************************************************)
(* What holds of Treasury for every number of calls, accounts and retries. *)
(***************************************************************************)
EXTENDS Treasury, FiniteSetTheorems, WellFoundedInduction, TLAPS

\* A row is locked by one transaction at most, and only while it is open.
LocksApart ==
    /\ \A r, q \in Calls : r # q => held[r] \cap held[q] = {}
    /\ \A r \in Calls : held[r] # {} => pc[r] = "open"

\* The fast path is for requests with a key.
RequestsKnown ==
    \A r \in Calls : pc[r] # "idle" =>
        /\ shape[r] \in Shapes
        /\ pc[r] \in {"received", "replayed"} => shape[r].key # NoKey

\* A call locks the rows of its request, the source first.
LocksInOrder ==
    \A r \in Calls : pc[r] # "idle" =>
        /\ held[r] \subseteq {shape[r].from, shape[r].to}
        /\ held[r] # {} => shape[r].from \in held[r]

\* The strengthening of BooksBalance: what a transaction computes with is what
\* the rows still hold.
BooksInv ==
    /\ TypeOK /\ RequestsKnown /\ LocksApart /\ LocksInOrder
    /\ ReadsAreCurrent /\ BooksBalance

\* The strengthening of ReplayTellsWhatHappened: a key used once has the sums
\* of the one call that used it.
KeyInv ==
    \A k \in Keys :
        /\ keyed[k].times = 0 =>
            /\ keyed[k] = [moved |-> 0, over |-> 0, short |-> 0, times |-> 0]
            /\ \A q \in Calls : pc[q] \in {"committed", "replayed"} => shape[q].key # k
        /\ keyed[k].times = 1 =>
            \A q \in Calls : pc[q] \in {"committed", "replayed"} /\ shape[q].key = k
                               => answer[q] = Replayed(k)

Rivals(r) == {q \in Calls \ {r} : pc[q] = "committed"}

\* The strengthening of GivesUpOnlyUnderContention: each retry has a rival of
\* its own, and so has the conflict that an open transaction is about to meet.
RetryInv ==
    \A r \in Calls :
        /\ retries[r] <= Cardinality(Rivals(r))
        /\ pc[r] = "open" /\ stale[r] # {} => retries[r] < Cardinality(Rivals(r))
        /\ pc[r] = "failed" => MaxRetries < Cardinality(Rivals(r))

-----------------------------------------------------------------------------
\* A request names rows of its own, and its amounts are whole.
LEMMA ShapeFacts ==
    ASSUME NEW s \in Shapes
    PROVE  /\ s.kind \in Closings \cup Transfers \cup Adjustments
           /\ s.from \in Places /\ s.to \in Places \cup {Nowhere}
           /\ s.amount \in Nat /\ s.key \in Keys \cup {NoKey}
           /\ s.kind \notin Adjustments => s.to \in Places
           /\ s.from \in Registers => s.to \notin Registers
BY TreasuryAssumption DEF ShapeType, Acceptable, Places, Accounts, Closings, Transfers, Adjustments

\* What a permitted request moves is whole and leaves no account overdrawn.
LEMMA MoneyFacts ==
    ASSUME NEW s \in Shapes, NEW b \in Nat
    PROVE  /\ Entering(s, b) \in Nat /\ Leaving(s, b) \in Nat /\ Moved(s, b) \in Int
           /\ Allowed(s, b) => Moved(s, b) \in Nat /\ Remaining(s, b) \in Nat
           /\ Moved(s, b) > 0 => s.kind \notin Adjustments
<1>1. Base \in Nat /\ s.amount \in Nat /\ s.kind \in Closings \cup Transfers \cup Adjustments
  BY ShapeFacts, TreasuryAssumption
<1>2. CASE s.kind = "reconcile"
  BY <1>1, <1>2 DEF Entering, Leaving, Moved, Allowed, Remaining, Positive, Adjustments
<1>3. CASE s.kind \in {"close", "cashOut", "transfer"}
  BY <1>1, <1>3 DEF Entering, Leaving, Moved, Allowed, Remaining, Positive, Adjustments
<1>4. CASE s.kind \in Adjustments
  BY <1>1, <1>4 DEF Entering, Leaving, Moved, Allowed, Remaining, Positive, Adjustments
<1>5. QED BY <1>1, <1>2, <1>3, <1>4 DEF Closings, Transfers

\* A transaction that wants nothing more holds what it is about to write.
LEMMA NothingMoreToLock ==
    ASSUME NEW r \in Calls, shape[r] \in Shapes, Wants(r) = Nowhere,
           Allowed(shape[r], seen[r][shape[r].from])
    PROVE  /\ shape[r].from \in held[r]
           /\ Moved(shape[r], seen[r][shape[r].from]) > 0 /\ shape[r].kind \notin Adjustments
                => shape[r].to \in held[r]
BY ShapeFacts, TreasuryAssumption DEF Wants, Holds

\* The strengthenings hold when nothing has happened.
LEMMA InitBooks == Init => BooksInv /\ KeyInv /\ RetryInv
<1> SUFFICES ASSUME Init PROVE BooksInv /\ KeyInv /\ RetryInv OBVIOUS
<1> USE TreasuryAssumption
<1>1. TypeOK
  BY DEF Init, TypeOK, NoAnswer, Unread, Finished
<1>2. RequestsKnown /\ LocksApart /\ LocksInOrder /\ ReadsAreCurrent /\ BooksBalance
  BY DEF Init, RequestsKnown, LocksApart, LocksInOrder, ReadsAreCurrent, BooksBalance
<1>3. KeyInv
  BY DEF Init, KeyInv
<1>4. RetryInv
  <2>1. \A r \in Calls : Rivals(r) = {}
    BY DEF Init, Rivals
  <2>2. \A r \in Calls : Cardinality(Rivals(r)) = 0
    BY <2>1, FS_EmptySet
  <2> QED BY <2>2 DEF Init, RetryInv
<1> QED BY <1>1, <1>2, <1>3, <1>4 DEF BooksInv

\* The types are kept.
LEMMA TypeStep == BooksInv /\ [Next]_vars => TypeOK'
<1> SUFFICES ASSUME BooksInv, [Next]_vars PROVE TypeOK' OBVIOUS
<1> USE TreasuryAssumption
<1>1. TypeOK BY DEF BooksInv
<1>2. ASSUME NEW r \in Calls, NEW p \in {"ready"} \cup Finished, End(r, p)
      PROVE  /\ pc' \in [Calls -> {"idle", "received", "ready", "open"} \cup Finished]
             /\ held' \in [Calls -> SUBSET Places]
             /\ seen' \in [Calls -> [Places -> Nat]]
  BY <1>1, <1>2 DEF TypeOK, End, Released, Unread, Finished
<1>3. CASE UNCHANGED vars
  BY <1>1, <1>3 DEF TypeOK, vars
<1>4. ASSUME NEW r \in Calls, NEW s \in Shapes, Receive(r, s) PROVE TypeOK'
  BY <1>1, <1>4 DEF TypeOK, Receive
<1>5. ASSUME NEW r \in Calls, Step(r) PROVE TypeOK'
  <2>0. pc[r] # "idle" /\ shape[r] \in Shapes
    <3>1. pc[r] \in {"received", "ready", "open"}
      BY <1>5 DEF Step, Replay, Miss, Open, Lock, Retry, Deadlock, WaitsFor, Refuse, Commit
    <3> QED BY <3>1 DEF BooksInv, RequestsKnown
  <2>1. CASE Replay(r)
    <3>1. shape[r].key \in Keys => Replayed(shape[r].key) \in [moved : Nat, difference : Int]
      BY <1>1 DEF TypeOK, Replayed
    <3>2. shape[r].key \in Keys
      BY <2>0, <2>1, ShapeFacts DEF Replay, BooksInv, RequestsKnown
    <3> QED BY <1>1, <2>1, <3>1, <3>2 DEF TypeOK, Replay, Finished
  <2>2. CASE Miss(r) \/ Open(r)
    BY <1>1, <2>2 DEF TypeOK, Miss, Open
  <2>3. CASE Lock(r)
    <3>1. Wants(r) \in Places
      BY <2>0, <2>3, ShapeFacts DEF Lock, Wants
    <3> QED BY <1>1, <2>3, <3>1 DEF TypeOK, Lock
  <2>4. CASE Retry(r)
    <3>1. retries' \in [Calls -> 0..MaxRetries]
      BY <1>1, <2>4 DEF TypeOK, Retry, MayRetry
    <3> QED BY <1>1, <1>2, <2>4, <3>1 DEF TypeOK, Retry, Finished
  <2>5. CASE Deadlock(r) \/ Refuse(r)
    BY <1>1, <1>2, <2>5 DEF TypeOK, Deadlock, Refuse, Finished
  <2>6. CASE Commit(r)
    <3> DEFINE s == shape[r]
               b == seen[r][s.from]
               m == Moved(s, b)
    <3>1. s.from \in Places /\ b \in Nat
      BY <1>1, <2>0, ShapeFacts DEF TypeOK
    <3>2. /\ Entering(s, b) \in Nat /\ Leaving(s, b) \in Nat
          /\ m \in Nat /\ Remaining(s, b) \in Nat
      BY <2>0, <2>6, <3>1, MoneyFacts DEF Commit
    <3>3. m > 0 => s.to \in Places
      BY <2>0, <3>1, MoneyFacts, ShapeFacts
    <3> HIDE DEF s, b, m
    <3>4. /\ pc' \in [Calls -> {"idle", "received", "ready", "open"} \cup Finished]
          /\ held' \in [Calls -> SUBSET Places]
          /\ seen' \in [Calls -> [Places -> Nat]]
          /\ UNCHANGED <<shape, retries>>
      BY <1>2, <2>6 DEF Commit, Finished
    <3>5. balance' \in [Places -> Nat]
      BY <1>1, <2>6, <3>1, <3>2, <3>3 DEF Commit, TypeOK, s, b, m
    <3>6. flow' \in [Places -> Int]
      BY <1>1, <2>6, <3>1, <3>2, <3>3 DEF Commit, TypeOK, s, b, m
    <3>7. keyed' \in [Keys -> [moved : Nat, over : Nat, short : Nat, times : Nat]]
      <4>1. CASE s.key = NoKey
        BY <1>1, <2>6, <4>1 DEF Commit, TypeOK, s
      <4>2. CASE s.key \in Keys
        <5> DEFINE row == [moved |-> keyed[s.key].moved + m,
                           over |-> keyed[s.key].over + Entering(s, b),
                           short |-> keyed[s.key].short + Leaving(s, b),
                           times |-> keyed[s.key].times + 1]
        <5>1. keyed' = [keyed EXCEPT ![s.key] = row]
          BY <2>6, <4>2 DEF Commit, s, b, m
        <5>2. row \in [moved : Nat, over : Nat, short : Nat, times : Nat]
          BY <1>1, <3>2, <4>2 DEF TypeOK
        <5> QED BY <1>1, <5>1, <5>2, Zenon DEF TypeOK
      <4> QED BY <2>0, <4>1, <4>2, ShapeFacts DEF s
    <3>8. answer' \in [Calls -> [moved : Nat, difference : Int]]
      BY <1>1, <2>6, <3>2 DEF Commit, TypeOK, s, b, m
    <3>9. stale' \in [Calls -> SUBSET Places]
      BY <1>1, <2>6, <3>1, <3>3 DEF Commit, TypeOK, s, b, m
    <3> QED BY <1>1, <3>4, <3>5, <3>6, <3>7, <3>8, <3>9 DEF TypeOK
  <2> QED BY <1>5, <2>1, <2>2, <2>3, <2>4, <2>5, <2>6 DEF Step
<1> QED BY <1>3, <1>4, <1>5 DEF Next

\* Every call that takes a step has a request.
LEMMA StepperKnown ==
    ASSUME BooksInv, NEW r \in Calls, Step(r)
    PROVE  /\ pc[r] \in {"received", "ready", "open"}
           /\ shape[r] \in Shapes
           /\ \A q \in Calls : q # r => pc'[q] = pc[q]
           /\ UNCHANGED shape
<1>1. TypeOK BY DEF BooksInv
<1>2. pc[r] \in {"received", "ready", "open"}
  BY DEF Step, Replay, Miss, Open, Lock, Retry, Deadlock, WaitsFor, Refuse, Commit
<1>3. (\A q \in Calls : q # r => pc'[q] = pc[q]) /\ UNCHANGED shape
  BY <1>1 DEF TypeOK, Step, Replay, Miss, Open, Lock, Retry, Deadlock, Refuse, Commit, End
<1> QED BY <1>2, <1>3 DEF BooksInv, RequestsKnown

\* A step that opens or closes no transaction but ends at most one, and writes
\* no balance, keeps the locks apart and the reads current.
LEMMA EndKeepsLocks ==
    ASSUME BooksInv, NEW r \in Calls, NEW p \in {"ready"} \cup Finished, End(r, p)
    PROVE  /\ \A q \in Calls : held'[q] = IF q = r THEN {} ELSE held[q]
           /\ \A q \in Calls : q # r => seen'[q] = seen[q] /\ pc'[q] = pc[q]
           /\ pc'[r] = p
BY DEF BooksInv, TypeOK, End, Released

\* Locks stay apart and in order, and no step, Commit included, changes a
\* balance that another transaction has read and locked.
LEMMA LockStep ==
    ASSUME BooksInv, [Next]_vars
    PROVE  RequestsKnown' /\ LocksApart' /\ LocksInOrder' /\ ReadsAreCurrent'
<1>1. TypeOK /\ RequestsKnown /\ LocksApart /\ LocksInOrder /\ ReadsAreCurrent
  BY DEF BooksInv
<1>2. CASE UNCHANGED vars
  BY <1>1, <1>2 DEF vars, RequestsKnown, LocksApart, LocksInOrder, ReadsAreCurrent
<1>3. ASSUME NEW r \in Calls, NEW s \in Shapes, Receive(r, s)
      PROVE  RequestsKnown' /\ LocksApart' /\ LocksInOrder' /\ ReadsAreCurrent'
  <2>1. held[r] = {}
    BY <1>1, <1>3 DEF Receive, LocksApart
  <2> QED BY <1>1, <1>3, <2>1
      DEF TypeOK, Receive, RequestsKnown, LocksApart, LocksInOrder, ReadsAreCurrent
<1>4. ASSUME NEW r \in Calls, Step(r)
      PROVE  RequestsKnown' /\ LocksApart' /\ LocksInOrder' /\ ReadsAreCurrent'
  <2> DEFINE s == shape[r]
             b == seen[r][s.from]
             m == Moved(s, b)
  <2>0. /\ s \in Shapes /\ UNCHANGED shape /\ pc[r] \in {"received", "ready", "open"}
        /\ \A q \in Calls : q # r => pc'[q] = pc[q]
    BY <1>4, StepperKnown
  <2>1. RequestsKnown'
    <3>1. pc'[r] \in {"received", "replayed"} => pc[r] = "received"
      BY <1>1, <1>4 DEF TypeOK, Step, Replay, Miss, Open, Lock, Retry, Deadlock, Refuse,
         Commit, End
    <3> QED BY <1>1, <2>0, <3>1 DEF RequestsKnown
  <2>2. CASE Replay(r) \/ Miss(r) \/ Open(r)
    <3>1. held[r] = {} /\ UNCHANGED <<held, seen, balance>>
      BY <1>1, <2>2 DEF LocksApart, Replay, Miss, Open
    <3> QED BY <1>1, <2>0, <2>1, <3>1 DEF LocksApart, LocksInOrder, ReadsAreCurrent
  <2>3. CASE Lock(r)
    <3> DEFINE x == Wants(r)
    <3>1. /\ x \in {s.from, s.to} /\ (x # s.from => s.from \in held[r])
          /\ x \in Places
      BY <2>0, <2>3, ShapeFacts DEF Lock, Wants, Holds
    <3>2. \A q \in Calls : x \notin held[q]
      BY <2>3 DEF Lock, Free
    <3> HIDE DEF x
    <3>3. /\ pc[r] = "open" /\ UNCHANGED <<pc, balance>>
          /\ held' = [held EXCEPT ![r] = @ \cup {x}]
          /\ seen' = [seen EXCEPT ![r][x] = balance[x]]
      BY <2>3 DEF Lock, x
    <3>4. \A q \in Calls : held'[q] = IF q = r THEN held[r] \cup {x} ELSE held[q]
      BY <1>1, <3>3 DEF TypeOK
    <3>5. LocksApart'
      BY <1>1, <3>2, <3>3, <3>4 DEF LocksApart
    <3>6. LocksInOrder'
      BY <1>1, <2>0, <3>1, <3>3, <3>4 DEF LocksInOrder
    <3>7. ReadsAreCurrent'
      BY <1>1, <3>1, <3>3, <3>4 DEF TypeOK, ReadsAreCurrent
    <3> QED BY <2>1, <3>5, <3>6, <3>7
  <2>4. CASE Retry(r) \/ Deadlock(r) \/ Refuse(r)
    <3>1. UNCHANGED balance /\ \E p \in {"ready"} \cup Finished : End(r, p)
      BY <2>4 DEF Retry, Deadlock, Refuse, Finished
    <3>2. \A q \in Calls : /\ held'[q] = IF q = r THEN {} ELSE held[q]
                           /\ q # r => seen'[q] = seen[q]
      BY <3>1, EndKeepsLocks
    <3> QED BY <1>1, <2>0, <2>1, <3>1, <3>2 DEF LocksApart, LocksInOrder, ReadsAreCurrent
  <2>5. CASE Commit(r)
    <3>1. End(r, "committed")
      BY <2>5 DEF Commit
    <3>2. \A q \in Calls : /\ held'[q] = IF q = r THEN {} ELSE held[q]
                           /\ q # r => seen'[q] = seen[q]
      BY <3>1, EndKeepsLocks DEF Finished
    <3>3. LocksApart' /\ LocksInOrder'
      BY <1>1, <2>0, <3>2 DEF LocksApart, LocksInOrder
    <3>4. b \in Nat
      BY <1>1, <2>0, ShapeFacts DEF TypeOK
    <3>5. s.from \in held[r] /\ (m > 0 => s.to \in held[r])
      BY <2>0, <2>5, <3>4, NothingMoreToLock, MoneyFacts DEF Commit
    <3>6. \A x \in Places : x \notin held[r] => balance'[x] = balance[x]
      BY <2>5, <3>5 DEF Commit
    <3>7. ReadsAreCurrent'
      <4> SUFFICES ASSUME NEW q \in Calls, NEW x \in held'[q]
                   PROVE  seen'[q][x] = balance'[x]
        BY DEF ReadsAreCurrent
      <4>1. q # r /\ x \in held[q] /\ seen'[q] = seen[q]
        BY <3>2
      <4>2. x \in Places /\ x \notin held[r]
        BY <1>1, <4>1 DEF TypeOK, LocksApart
      <4>3. seen[q][x] = balance[x]
        BY <1>1, <4>1 DEF ReadsAreCurrent
      <4> QED BY <3>6, <4>1, <4>2, <4>3
    <3> QED BY <2>1, <3>3, <3>7
  <2> QED BY <1>4, <2>2, <2>3, <2>4, <2>5 DEF Step
<1> QED BY <1>2, <1>3, <1>4 DEF Next

\* A balance and its movements change together.
LEMMA BooksStep ==
    ASSUME BooksInv, [Next]_vars
    PROVE  BooksBalance'
<1>1. TypeOK /\ ReadsAreCurrent /\ BooksBalance
  BY DEF BooksInv
<1>2. CASE UNCHANGED <<balance, flow>>
  BY <1>1, <1>2 DEF BooksBalance
<1>3. ASSUME NEW r \in Calls, Commit(r) PROVE BooksBalance'
  <2> DEFINE s == shape[r]
             b == seen[r][s.from]
             m == Moved(s, b)
  <2>1. s \in Shapes
    BY <1>3 DEF Commit, BooksInv, RequestsKnown
  <2>2. s.from \in Places /\ b \in Nat
    BY <1>1, <2>1, ShapeFacts DEF TypeOK
  <2>3. Entering(s, b) \in Nat /\ Leaving(s, b) \in Nat /\ m \in Nat
    BY <1>3, <2>1, <2>2, MoneyFacts DEF Commit
  <2>4. s.from \in held[r] /\ (m > 0 => s.to \in held[r])
    BY <1>3, <2>1, <2>2, NothingMoreToLock, MoneyFacts DEF Commit
  <2>5. b = balance[s.from] /\ (m > 0 => seen[r][s.to] = balance[s.to])
    BY <1>1, <2>4 DEF ReadsAreCurrent
  <2>6. Remaining(s, b) = b + Entering(s, b) - Leaving(s, b) - m
    BY DEF Remaining
  <2>7. ASSUME NEW x \in Places PROVE balance'[x] = Opening + flow'[x]
    <3>1. /\ balance[x] \in Nat /\ flow[x] \in Int /\ Opening \in Nat
          /\ balance[x] = Opening + flow[x]
      BY <1>1, TreasuryAssumption DEF TypeOK, BooksBalance
    <3>2. /\ balance'[x] = IF x = s.from THEN Remaining(s, b)
                           ELSE IF x = s.to /\ m > 0 THEN seen[r][x] + m ELSE balance[x]
          /\ flow'[x] = IF x = s.from THEN flow[x] + Entering(s, b) - Leaving(s, b) - m
                        ELSE IF x = s.to /\ m > 0 THEN flow[x] + m ELSE flow[x]
      BY <1>3 DEF Commit
    <3> HIDE DEF s, b, m
    <3> QED BY <2>3, <2>5, <2>6, <3>1, <3>2
  <2> QED BY <2>7 DEF BooksBalance
<1> QED BY <1>2, <1>3 DEF Next, Step, vars, Receive, Replay, Miss, Open, Lock, Retry,
       Deadlock, Refuse

LEMMA BooksAlwaysInv == Spec => []BooksInv
<1>1. Init => BooksInv
  BY InitBooks
<1>2. BooksInv /\ [Next]_vars => BooksInv'
  BY TypeStep, LockStep, BooksStep DEF BooksInv
<1> QED BY <1>1, <1>2, PTL DEF Spec

\* No interleaving of closings, transfers and corrections overdraws an account.
THEOREM NeverOverdrawn == Spec => []TypeOK
<1>1. BooksInv => TypeOK
  BY DEF BooksInv
<1> QED BY <1>1, BooksAlwaysInv, PTL

\* No interleaving loses an update: a balance is its opening plus its movements.
THEOREM BooksAlwaysBalance == Spec => []BooksBalance
<1>1. BooksInv => BooksBalance
  BY DEF BooksInv
<1> QED BY <1>1, BooksAlwaysInv, PTL

\* Only Commit answers that a call committed.
LEMMA OnlyCommitCommits ==
    ASSUME BooksInv, [Next]_vars, NEW r \in Calls, pc[r] = "open", pc'[r] = "committed"
    PROVE  Commit(r)
<1>1. TypeOK
  BY DEF BooksInv
<1>2. ASSUME NEW q \in Calls, NEW s \in Shapes, Receive(q, s) PROVE FALSE
  BY <1>1, <1>2 DEF TypeOK, Receive
<1>3. ASSUME NEW q \in Calls, Step(q) PROVE Commit(r)
  <2>1. q = r
    BY <1>3, StepperKnown
  <2> QED BY <1>1, <1>3, <2>1
      DEF TypeOK, Step, Replay, Miss, Open, Lock, Retry, Deadlock, Refuse, End
<1> QED BY <1>2, <1>3 DEF Next, vars

\* Each reconciliation accounts for the cash counted.
THEOREM CountAlwaysAccounted == Spec => CountIsAccounted
<1>1. ASSUME BooksInv, [Next]_vars, NEW r \in Calls,
             pc[r] = "open", pc'[r] = "committed", shape[r].kind = "reconcile"
      PROVE  balance'[shape[r].from] + answer'[r].moved = shape[r].amount
  <2> DEFINE s == shape[r]
             b == seen[r][s.from]
  <2>1. Commit(r) /\ TypeOK
    BY <1>1, OnlyCommitCommits DEF BooksInv
  <2>2. s \in Shapes
    BY <1>1 DEF BooksInv, RequestsKnown
  <2>3. s.from \in Places /\ b \in Nat /\ s.amount \in Nat /\ Base \in Nat
    BY <2>1, <2>2, ShapeFacts, TreasuryAssumption DEF TypeOK
  <2>4. balance'[s.from] = Remaining(s, b) /\ answer'[r].moved = Moved(s, b)
    BY <2>1, <2>3 DEF Commit, TypeOK
  <2>5. Remaining(s, b) + Moved(s, b) = s.amount
    BY <1>1, <2>3 DEF Remaining, Entering, Leaving, Moved, Positive, Adjustments
  <2> QED BY <2>4, <2>5
<1>2. BooksInv /\ [Next]_vars =>
        [\A r \in Calls :
            pc[r] = "open" /\ pc'[r] = "committed" /\ shape[r].kind = "reconcile"
            => balance'[shape[r].from] + answer'[r].moved = shape[r].amount]_vars
  BY <1>1
<1> QED BY <1>2, BooksAlwaysInv, PTL DEF Spec, CountIsAccounted

\* A transaction that waits and holds a lock holds its source alone, and waits
\* for its destination.
LEMMA HolderWaitsForDestination ==
    ASSUME BooksInv, NEW q \in Calls, NEW p \in Calls, WaitsFor(q, p), held[q] # {}
    PROVE  shape[q].from \in held[q] /\ shape[q].to \notin held[q] /\ Wants(q) = shape[q].to
<1>1. pc[q] = "open" /\ Wants(q) # Nowhere
  BY DEF WaitsFor
<1>2. shape[q].from \in held[q]
  BY <1>1 DEF BooksInv, LocksInOrder
<1> QED BY <1>1, <1>2 DEF Wants, Holds

\* In a cycle of waits everybody holds the source and wants the destination,
\* so a register is waited for only by a payment into it.
THEOREM CashDeadlockNeedsIncoming == Spec => CashDeadlocksOnlyWithIncoming
<1>1. ASSUME BooksInv, [Next]_vars, NEW r \in Calls,
             pc[r] = "open", pc'[r] = "victim", shape[r].from \in Registers
      PROVE  \E q \in Calls : pc[q] = "open" /\ shape[q].to \in Registers
  <2>1. Deadlock(r)
    <3>1. TypeOK
      BY <1>1 DEF BooksInv
    <3>2. ASSUME NEW q \in Calls, NEW s \in Shapes, Receive(q, s) PROVE FALSE
      BY <1>1, <3>1, <3>2 DEF TypeOK, Receive
    <3>3. ASSUME NEW q \in Calls, Step(q) PROVE Deadlock(r)
      <4>1. q = r
        BY <1>1, <3>3, StepperKnown
      <4> QED BY <1>1, <3>1, <3>3, <4>1
          DEF TypeOK, Step, Replay, Miss, Open, Lock, Retry, Refuse, Commit, End
    <3> QED BY <1>1, <3>2, <3>3 DEF Next, vars
  <2>2. PICK ring \in SUBSET Calls :
          /\ r \in ring
          /\ \A q \in ring : /\ \E p \in ring : WaitsFor(q, p)
                             /\ \E p \in ring : WaitsFor(p, q)
    BY <2>1 DEF Deadlock
  <2>3. \A q \in ring : held[q] # {}
    BY <2>2 DEF WaitsFor
  <2>4. PICK p \in ring : WaitsFor(p, r)
    BY <2>2
  <2>5. Wants(p) = shape[p].to /\ Wants(p) \in held[r] /\ pc[p] = "open"
    BY <1>1, <2>2, <2>3, <2>4, HolderWaitsForDestination DEF WaitsFor
  <2>6. shape[r].to \notin held[r]
    BY <1>1, <2>2, <2>3, HolderWaitsForDestination
  <2>7. held[r] \subseteq {shape[r].from, shape[r].to}
    BY <1>1 DEF BooksInv, LocksInOrder
  <2>8. shape[p].to = shape[r].from
    BY <2>5, <2>6, <2>7
  <2> QED BY <1>1, <2>5, <2>8
<1>2. BooksInv /\ [Next]_vars =>
        [\A r \in Calls :
            pc[r] = "open" /\ pc'[r] = "victim" /\ shape[r].from \in Registers
            => \E q \in Calls : pc[q] = "open" /\ shape[q].to \in Registers]_vars
  BY <1>1
<1> QED BY <1>2, BooksAlwaysInv, PTL DEF Spec, CashDeadlocksOnlyWithIncoming

-----------------------------------------------------------------------------
\* The one call that closed under a key, and its replays, answered its sums.
LEMMA KeyStep ==
    ASSUME BooksInv, KeyInv, [Next]_vars
    PROVE  KeyInv'
<1>1. TypeOK /\ RequestsKnown
  BY DEF BooksInv
<1>2. CASE UNCHANGED vars
  BY <1>2 DEF vars, KeyInv, Replayed
<1>3. ASSUME NEW r \in Calls, NEW s \in Shapes, Receive(r, s) PROVE KeyInv'
  <2>1. \A q \in Calls : pc'[q] \in {"committed", "replayed"} =>
            pc[q] \in {"committed", "replayed"} /\ shape'[q] = shape[q]
    BY <1>1, <1>3 DEF TypeOK, Receive
  <2> QED BY <1>3, <2>1 DEF KeyInv, Receive, Replayed
<1>4. ASSUME NEW r \in Calls, Step(r) PROVE KeyInv'
  <2>0. /\ shape[r] \in Shapes /\ UNCHANGED shape
        /\ pc[r] \notin {"committed", "replayed"}
        /\ \A q \in Calls : q # r => pc'[q] = pc[q]
    BY <1>4, StepperKnown
  <2>1. CASE Replay(r)
    <3>1. /\ UNCHANGED keyed /\ keyed[shape[r].key].times > 0
          /\ \A q \in Calls : q # r => answer'[q] = answer[q]
          /\ answer'[r] = Replayed(shape[r].key)
      BY <1>1, <2>1 DEF TypeOK, Replay, Closed
    <3>2. \A k \in Keys : Replayed(k)' = Replayed(k)
      BY <3>1 DEF Replayed
    <3> QED BY <1>1, <2>0, <3>1, <3>2 DEF KeyInv
  <2>2. CASE Miss(r) \/ Open(r) \/ Lock(r) \/ Retry(r) \/ Deadlock(r) \/ Refuse(r)
    <3>1. UNCHANGED <<keyed, answer>> /\ pc'[r] \notin {"committed", "replayed"}
      BY <1>1, <2>0, <2>2 DEF TypeOK, Miss, Open, Lock, Retry, Deadlock, Refuse, End
    <3> QED BY <2>0, <3>1 DEF KeyInv, Replayed
  <2>3. CASE Commit(r)
    <3> DEFINE s == shape[r]
               b == seen[r][s.from]
               m == Moved(s, b)
               e == Entering(s, b)
               l == Leaving(s, b)
    <3>1. b \in Nat
      BY <1>1, <2>0, ShapeFacts DEF TypeOK
    <3>2. e \in Nat /\ l \in Nat /\ m \in Nat
      BY <2>0, <2>3, <3>1, MoneyFacts DEF Commit
    <3>3. /\ answer' = [answer EXCEPT ![r] = [moved |-> m, difference |-> e - l]]
          /\ keyed' = IF s.key = NoKey THEN keyed
                      ELSE [keyed EXCEPT ![s.key] = [moved |-> @.moved + m, over |-> @.over + e,
                                                     short |-> @.short + l,
                                                     times |-> @.times + 1]]
          /\ pc'[r] = "committed"
      BY <1>1, <2>3 DEF TypeOK, Commit, End
    <3> HIDE DEF s, b, m, e, l
    <3>4. /\ \A q \in Calls : q # r => answer'[q] = answer[q]
          /\ answer'[r] = [moved |-> m, difference |-> e - l]
      BY <1>1, <3>3 DEF TypeOK
    <3>5. ASSUME NEW k \in Keys, k # s.key
          PROVE  keyed'[k] = keyed[k] /\ Replayed(k)' = Replayed(k)
      BY <1>1, <3>3, <3>5 DEF TypeOK, Replayed
    <3>6. ASSUME NEW k \in Keys, k = s.key
          PROVE  /\ keyed'[k].times = keyed[k].times + 1 /\ keyed[k].times \in Nat
                 /\ keyed[k].times = 0 => Replayed(k)' = answer'[r]
      <4>1. keyed[k] \in [moved : Nat, over : Nat, short : Nat, times : Nat]
        BY <1>1 DEF TypeOK
      <4>2. keyed'[k] = [moved |-> keyed[k].moved + m, over |-> keyed[k].over + e,
                         short |-> keyed[k].short + l, times |-> keyed[k].times + 1]
        BY <1>1, <3>3, <3>6, TreasuryAssumption DEF TypeOK
      <4>3. keyed[k].times = 0 =>
              keyed[k] = [moved |-> 0, over |-> 0, short |-> 0, times |-> 0]
        BY DEF KeyInv
      <4> QED BY <3>2, <3>4, <4>1, <4>2, <4>3 DEF Replayed
    <3> SUFFICES ASSUME NEW k \in Keys
                 PROVE  /\ keyed'[k].times = 0 =>
                           /\ keyed'[k] = [moved |-> 0, over |-> 0, short |-> 0, times |-> 0]
                           /\ \A q \in Calls : pc'[q] \in {"committed", "replayed"}
                                                 => shape'[q].key # k
                        /\ keyed'[k].times = 1 =>
                           \A q \in Calls : pc'[q] \in {"committed", "replayed"}
                                              /\ shape'[q].key = k => answer'[q] = Replayed(k)'
      BY DEF KeyInv
    <3>7. CASE k # s.key
      BY <2>0, <3>4, <3>5, <3>7 DEF KeyInv, s
    <3>8. CASE k = s.key
      BY <2>0, <3>4, <3>6, <3>8 DEF KeyInv, s
    <3> QED BY <3>7, <3>8
  <2> QED BY <1>4, <2>1, <2>2, <2>3 DEF Step
<1> QED BY <1>2, <1>3, <1>4 DEF Next

\* As long as a key closed once, its replays answer what that closing answered.
THEOREM ReplaysAlwaysTell == Spec => []ReplayTellsWhatHappened
<1>1. Init => BooksInv /\ KeyInv
  BY InitBooks
<1>2. BooksInv /\ KeyInv /\ [Next]_vars => (BooksInv /\ KeyInv)'
  BY TypeStep, LockStep, BooksStep, KeyStep DEF BooksInv
<1>3. BooksInv /\ KeyInv => ReplayTellsWhatHappened
  <2> SUFFICES ASSUME BooksInv, KeyInv, NEW r \in Calls, NEW q \in Calls,
                      pc[q] = "committed", pc[r] = "replayed",
                      shape[q].key = shape[r].key, keyed[shape[q].key].times = 1
               PROVE  answer[r] = answer[q]
    BY DEF ReplayTellsWhatHappened
  <2>1. shape[q].key \in Keys
    <3>1. shape[r] \in Shapes /\ shape[r].key # NoKey
      BY DEF BooksInv, RequestsKnown
    <3> QED BY <3>1, ShapeFacts
  <2> QED BY <2>1 DEF KeyInv
<1> QED BY <1>1, <1>2, <1>3, PTL DEF Spec

-----------------------------------------------------------------------------
\* Rivals only become more, and the calls that are not r become rivals of r
\* when they commit.
LEMMA RivalsGrow ==
    ASSUME BooksInv, [Next]_vars, NEW r \in Calls
    PROVE  /\ IsFiniteSet(Rivals(r)) /\ Cardinality(Rivals(r)) \in Nat
           /\ Cardinality(Rivals(r)) <= Cardinality(Rivals(r)')
           /\ \A q \in Calls : q # r /\ pc[q] = "open" /\ pc'[q] = "committed"
                => Cardinality(Rivals(r)) < Cardinality(Rivals(r)')
<1>1. IsFiniteSet(Calls)
  BY FS_Interval, TreasuryAssumption DEF Calls
<1>2. Rivals(r) \subseteq Calls /\ Rivals(r)' \subseteq Calls
  BY DEF Rivals
<1>3. IsFiniteSet(Rivals(r)) /\ IsFiniteSet(Rivals(r)')
  BY <1>1, <1>2, FS_Subset
<1>4. Rivals(r) \subseteq Rivals(r)'
  <2> SUFFICES ASSUME NEW q \in Calls, pc[q] = "committed" PROVE pc'[q] = "committed"
    BY DEF Rivals
  <2>1. ASSUME NEW p \in Calls, NEW s \in Shapes, Receive(p, s) PROVE pc'[q] = "committed"
    BY <2>1 DEF BooksInv, TypeOK, Receive
  <2>2. ASSUME NEW p \in Calls, Step(p) PROVE pc'[q] = "committed"
    BY <2>2, StepperKnown
  <2> QED BY <2>1, <2>2 DEF Next, vars
<1>5. ASSUME NEW q \in Calls, q # r, pc[q] = "open", pc'[q] = "committed"
      PROVE  Rivals(r) # Rivals(r)'
  BY <1>5 DEF Rivals
<1> QED BY <1>3, <1>4, <1>5, FS_Subset, FS_CardinalityType

\* Each retry is paid for by the commit of a rival.
LEMMA RetryStep ==
    ASSUME BooksInv, RetryInv, [Next]_vars
    PROVE  RetryInv'
<1>1. TypeOK
  BY DEF BooksInv
<1> SUFFICES ASSUME NEW q \in Calls
             PROVE  /\ retries'[q] <= Cardinality(Rivals(q)')
                    /\ pc'[q] = "open" /\ stale'[q] # {} =>
                         retries'[q] < Cardinality(Rivals(q)')
                    /\ pc'[q] = "failed" => MaxRetries < Cardinality(Rivals(q)')
  BY DEF RetryInv
<1> DEFINE n == Cardinality(Rivals(q))
           n1 == Cardinality(Rivals(q)')
<1>2. /\ n \in Nat /\ n <= n1 /\ n1 \in Nat /\ retries[q] \in Nat /\ MaxRetries \in Nat
      /\ retries[q] <= n
      /\ pc[q] = "open" /\ stale[q] # {} => retries[q] < n
      /\ pc[q] = "failed" => MaxRetries < n
  <2>1. n1 \in Nat
    <3>1. IsFiniteSet(Calls) /\ Rivals(q)' \subseteq Calls
      BY FS_Interval, TreasuryAssumption DEF Calls, Rivals
    <3> QED BY <3>1, FS_Subset, FS_CardinalityType
  <2> QED BY <1>1, <2>1, RivalsGrow, TreasuryAssumption DEF TypeOK, RetryInv
<1> HIDE DEF n, n1
<1> SUFFICES /\ retries'[q] <= n1
             /\ pc'[q] = "open" /\ stale'[q] # {} => retries'[q] < n1
             /\ pc'[q] = "failed" => MaxRetries < n1
  BY DEF n1
<1>3. CASE retries'[q] = retries[q] /\ pc'[q] = pc[q] /\ stale'[q] = stale[q]
  BY <1>2, <1>3
<1>4. ASSUME NEW r \in Calls, NEW s \in Shapes, Receive(r, s)
      PROVE  /\ UNCHANGED <<retries, stale>>
             /\ pc'[q] = pc[q] \/ pc'[q] \in {"ready", "received"}
  BY <1>1, <1>4 DEF TypeOK, Receive
<1>5. ASSUME NEW r \in Calls, Step(r)
      PROVE  /\ retries'[q] <= n1
             /\ pc'[q] = "open" /\ stale'[q] # {} => retries'[q] < n1
             /\ pc'[q] = "failed" => MaxRetries < n1
  <2>0. pc[r] \in {"received", "ready", "open"} /\ \A p \in Calls : p # r => pc'[p] = pc[p]
    BY <1>5, StepperKnown
  <2>1. CASE Replay(r) \/ Miss(r) \/ Lock(r) \/ Deadlock(r) \/ Refuse(r)
    <3>1. UNCHANGED <<retries, stale>> /\ (pc'[r] = pc[r] \/ pc'[r] \notin {"open", "failed"})
      BY <1>1, <2>1 DEF TypeOK, Replay, Miss, Lock, Deadlock, Refuse, End
    <3> QED BY <1>2, <2>0, <3>1
  <2>2. CASE Open(r)
    <3>1. /\ UNCHANGED retries /\ pc'[r] = "open" /\ stale'[r] = {}
          /\ \A p \in Calls : p # r => stale'[p] = stale[p]
      BY <1>1, <2>2 DEF TypeOK, Open
    <3> QED BY <1>2, <2>0, <3>1
  <2>3. CASE Retry(r)
    <3>1. /\ pc[r] = "open" /\ stale[r] # {} /\ UNCHANGED stale
          /\ \A p \in Calls : p # r => retries'[p] = retries[p]
          /\ \/ pc'[r] = "ready" /\ retries'[r] = retries[r] + 1
             \/ pc'[r] = "failed" /\ retries'[r] = retries[r] /\ ~(retries[r] < MaxRetries)
      BY <1>1, <2>3 DEF TypeOK, Retry, MayRetry, Conflicting, End
    <3> QED BY <1>2, <2>0, <3>1
  <2>4. CASE Commit(r)
    <3>1. /\ UNCHANGED retries /\ pc[r] = "open" /\ pc'[r] = "committed"
          /\ stale'[r] = stale[r]
      BY <1>1, <2>4 DEF TypeOK, Commit, End
    <3>2. r # q => n < n1
      BY <3>1, RivalsGrow DEF n, n1
    <3> QED BY <1>2, <2>0, <3>1, <3>2
  <2> QED BY <1>5, <2>1, <2>2, <2>3, <2>4 DEF Step
<1> QED BY <1>2, <1>3, <1>4, <1>5 DEF Next, vars

\* A call gives up only if more rivals than it has retries committed, however
\* many calls there are and whatever they do.
THEOREM GivesUpOnlyToRivals == Spec => []GivesUpOnlyUnderContention
<1>1. Init => BooksInv /\ RetryInv
  BY InitBooks
<1>2. BooksInv /\ RetryInv /\ [Next]_vars => (BooksInv /\ RetryInv)'
  BY TypeStep, LockStep, BooksStep, RetryStep DEF BooksInv
<1>3. BooksInv /\ RetryInv => GivesUpOnlyUnderContention
  <2> SUFFICES ASSUME BooksInv, RetryInv, NEW r \in Calls, pc[r] = "failed"
               PROVE  Cardinality({q \in Calls \ {r} : pc[q] = "committed"}) > MaxRetries
    BY DEF GivesUpOnlyUnderContention
  <2>1. MaxRetries < Cardinality(Rivals(r))
    BY DEF RetryInv
  <2>2. IsFiniteSet(Calls) /\ Rivals(r) \subseteq Calls
    BY FS_Interval, TreasuryAssumption DEF Calls, Rivals
  <2>3. Cardinality(Rivals(r)) \in Nat
    BY <2>2, FS_Subset, FS_CardinalityType
  <2> QED BY <2>1, <2>3, TreasuryAssumption DEF Rivals
<1> QED BY <1>1, <1>2, <1>3, PTL DEF Spec

-----------------------------------------------------------------------------
\* What Commit computes is the deal of CashDesk, and a request is refused when
\* there is none.
LEMMA DealFacts ==
    ASSUME NEW s \in Shapes, NEW b \in Nat
    PROVE  /\ Allowed(s, b) =>
                /\ Remaining(s, b) \in Desk!Within(s, b) /\ Moved(s, b) \in Desk!Within(s, b)
                /\ Desk!Deal(s, b, Remaining(s, b), Moved(s, b))
           /\ ~Allowed(s, b) =>
                \A kept \in Desk!Within(s, b), out \in Desk!Within(s, b) :
                    ~Desk!Deal(s, b, kept, out)
<1>1. Base \in Nat /\ s.amount \in Nat /\ s.kind \in Closings \cup Transfers \cup Adjustments
  BY ShapeFacts, TreasuryAssumption
<1>2. CASE s.kind = "reconcile"
  BY <1>1, <1>2
  DEF Entering, Leaving, Moved, Allowed, Remaining, Positive, Adjustments, Desk!Deal, Desk!Within
<1>3. CASE s.kind \in {"close", "cashOut", "transfer"}
  <2>1. /\ Moved(s, b) = s.amount /\ Remaining(s, b) = b - s.amount
        /\ Allowed(s, b) <=> s.amount > 0 /\ s.amount <= b
    BY <1>1, <1>3 DEF Entering, Leaving, Moved, Allowed, Remaining, Adjustments
  <2>2. \A kept, out : Desk!Deal(s, b, kept, out) <=>
                         out = s.amount /\ out > 0 /\ kept + out = b
    BY <1>3 DEF Desk!Deal
  <2> QED BY <1>1, <2>1, <2>2 DEF Desk!Within
<1>4. CASE s.kind = "adjust"
  <2>1. Moved(s, b) = 0 /\ Remaining(s, b) = s.amount /\ Allowed(s, b)
    BY <1>1, <1>4 DEF Entering, Leaving, Moved, Allowed, Remaining, Positive, Adjustments
  <2>2. \A kept, out : Desk!Deal(s, b, kept, out) <=> kept = s.amount /\ out = 0
    BY <1>4 DEF Desk!Deal
  <2> QED BY <1>1, <2>1, <2>2 DEF Desk!Within
<1>5. CASE s.kind = "deposit"
  <2>1. Moved(s, b) = 0 /\ Remaining(s, b) = b + s.amount /\ Allowed(s, b)
    BY <1>1, <1>5 DEF Entering, Leaving, Moved, Allowed, Remaining, Adjustments
  <2>2. \A kept, out : Desk!Deal(s, b, kept, out) <=> kept = b + s.amount /\ out = 0
    BY <1>5 DEF Desk!Deal
  <2> QED BY <1>1, <2>1, <2>2 DEF Desk!Within
<1>6. CASE s.kind = "withdraw"
  <2>1. /\ Moved(s, b) = 0 /\ Remaining(s, b) = b - s.amount
        /\ Allowed(s, b) <=> s.amount <= b
    BY <1>1, <1>6 DEF Entering, Leaving, Moved, Allowed, Remaining, Adjustments
  <2>2. \A kept, out : Desk!Deal(s, b, kept, out) <=> kept + s.amount = b /\ out = 0
    BY <1>6 DEF Desk!Deal
  <2> QED BY <1>1, <2>1, <2>2 DEF Desk!Within
<1>7. QED BY <1>1, <1>2, <1>3, <1>4, <1>5, <1>6 DEF Closings, Transfers, Adjustments

\* What a call is called there.
LEMMA OutcomeFacts ==
    ASSUME TypeOK, NEW r \in Calls
    PROVE  /\ outcomeOf[r] = "none" <=> pc[r] = "idle"
           /\ outcomeOf[r] = "waiting" <=> pc[r] \in {"received", "ready", "open"}
           /\ outcomeOf[r] = "served" <=> pc[r] = "committed"
           /\ outcomeOf[r] = "repeated" <=> pc[r] = "replayed"
           /\ outcomeOf[r] = "refused" <=> pc[r] = "refused"
           /\ outcomeOf[r] = "givenUp" <=> pc[r] \in {"failed", "victim"}
<1>1. pc[r] \in {"idle", "received", "ready", "open"} \cup Finished
  BY DEF TypeOK
<1>2. outcomeOf[r] = outcomeNames[pc[r]]
  BY DEF outcomeOf
<1> QED BY <1>1, <1>2 DEF outcomeNames, Finished

\* A step that changes where one call is changes one outcome.
LEMMA OutcomeStep ==
    ASSUME TypeOK, NEW r \in Calls
    PROVE  /\ (\E p \in {"received", "ready"} : pc' = [pc EXCEPT ![r] = p])
                => outcomeOf' = [outcomeOf EXCEPT ![r] = "waiting"]
           /\ pc' = [pc EXCEPT ![r] = "committed"]
                => outcomeOf' = [outcomeOf EXCEPT ![r] = "served"]
           /\ pc' = [pc EXCEPT ![r] = "replayed"]
                => outcomeOf' = [outcomeOf EXCEPT ![r] = "repeated"]
           /\ pc' = [pc EXCEPT ![r] = "refused"]
                => outcomeOf' = [outcomeOf EXCEPT ![r] = "refused"]
           /\ (\E p \in {"failed", "victim"} : pc' = [pc EXCEPT ![r] = p])
                => outcomeOf' = [outcomeOf EXCEPT ![r] = "givenUp"]
<1>1. ASSUME NEW p \in {"received", "ready"} \cup Finished, pc' = [pc EXCEPT ![r] = p]
      PROVE  outcomeOf' = [outcomeOf EXCEPT ![r] = outcomeNames[p]]
  BY <1>1 DEF TypeOK, outcomeOf
<1>2. /\ outcomeNames["received"] = "waiting" /\ outcomeNames["ready"] = "waiting"
      /\ outcomeNames["committed"] = "served" /\ outcomeNames["replayed"] = "repeated"
      /\ outcomeNames["refused"] = "refused"
      /\ outcomeNames["failed"] = "givenUp" /\ outcomeNames["victim"] = "givenUp"
  BY DEF outcomeNames, Finished
<1>3. {"received", "ready", "committed", "replayed", "refused", "failed", "victim"}
        \subseteq {"received", "ready"} \cup Finished
  BY DEF Finished
<1> HIDE DEF Finished
<1> QED BY <1>1, <1>2, <1>3

LEMMA InitDesk == Init => Desk!DInit
<1> SUFFICES ASSUME Init PROVE Desk!DInit OBVIOUS
<1>1. outcomeOf = [r \in Calls |-> "none"]
  BY DEF Init, outcomeOf, outcomeNames, Finished
<1>2. memoryOf = [k \in Keys |-> [moved |-> 0, difference |-> 0, times |-> 0]]
  BY DEF Init, memoryOf
<1> QED BY <1>1, <1>2 DEF Init, Desk!DInit, NoAnswer

\* A call that is told what its key did repeats what the desk remembers.
LEMMA ReplayServes ==
    ASSUME BooksInv, NEW r \in Calls, Replay(r)
    PROVE  Desk!Repeat(r)
<1>1. TypeOK /\ pc[r] = "received" /\ shape[r] \in Shapes /\ shape[r].key \in Keys
  <2>1. TypeOK /\ pc[r] = "received" /\ shape[r] \in Shapes /\ shape[r].key # NoKey
    BY DEF Replay, BooksInv, RequestsKnown
  <2> QED BY <2>1, ShapeFacts
<1>2. outcomeOf[r] = "waiting"
  BY <1>1, OutcomeFacts
<1>3. outcomeOf' = [outcomeOf EXCEPT ![r] = "repeated"]
  BY <1>1, OutcomeStep DEF Replay
<1>4. UNCHANGED <<shape, balance, keyed>> /\ memoryOf' = memoryOf
  BY DEF Replay, memoryOf
<1>5. /\ memoryOf[shape[r].key].times > 0
      /\ answer' = [answer EXCEPT ![r] = [moved |-> memoryOf[shape[r].key].moved,
                                          difference |-> memoryOf[shape[r].key].difference]]
  BY <1>1 DEF Replay, memoryOf, Closed, Replayed
<1>6. shape[r].key # NoKey
  BY <1>1, TreasuryAssumption
<1> QED BY <1>2, <1>3, <1>4, <1>5, <1>6 DEF Desk!Repeat

\* A transaction that commits serves its request at the balances of that
\* moment, because it holds the rows it read.
LEMMA CommitServes ==
    ASSUME BooksInv, NEW r \in Calls, Commit(r)
    PROVE  Desk!Serve(r)
<1> DEFINE s == shape[r]
           b == seen[r][s.from]
           m == Moved(s, b)
           kept == Remaining(s, b)
           e == Entering(s, b)
           l == Leaving(s, b)
<1>1. TypeOK /\ ReadsAreCurrent /\ pc[r] = "open" /\ s \in Shapes
  BY DEF Commit, BooksInv, RequestsKnown
<1>2. s.from \in Places /\ b \in Nat /\ s.key \in Keys \cup {NoKey}
  BY <1>1, ShapeFacts DEF TypeOK
<1>3. e \in Nat /\ l \in Nat /\ m \in Nat /\ kept \in Nat
  BY <1>1, <1>2, MoneyFacts DEF Commit
<1>4. s.from \in held[r] /\ (m > 0 => s.to \in held[r])
  BY <1>1, <1>2, NothingMoreToLock, MoneyFacts DEF Commit
<1>5. b = balance[s.from] /\ (m > 0 => seen[r][s.to] = balance[s.to])
  BY <1>1, <1>4 DEF ReadsAreCurrent
<1>6. /\ kept \in Desk!Within(s, b) /\ m \in Desk!Within(s, b)
      /\ Desk!Deal(s, b, kept, m)
  BY <1>1, <1>2, DealFacts DEF Commit
<1>7. (kept + m) - b = e - l
  BY <1>2, <1>3 DEF Remaining
<1>8. balance' = [x \in Places |-> IF x = s.from THEN kept
                                   ELSE IF x = s.to THEN balance[x] + m ELSE balance[x]]
  <2>1. balance' = [x \in Places |-> IF x = s.from THEN kept
                                     ELSE IF x = s.to /\ m > 0 THEN seen[r][x] + m
                                     ELSE balance[x]]
    BY DEF Commit
  <2>2. \A x \in Places : balance[x] \in Nat
    BY <1>1 DEF TypeOK
  <2> HIDE DEF m, kept, s, b
  <2> QED BY <1>3, <1>5, <2>1, <2>2
<1>9. answer' = [answer EXCEPT ![r] = [moved |-> m, difference |-> e - l]]
  BY DEF Commit
<1>10. memoryOf' = IF s.key = NoKey THEN memoryOf
                   ELSE [memoryOf EXCEPT ![s.key] = [moved |-> @.moved + m,
                                                     difference |-> @.difference + (e - l),
                                                     times |-> @.times + 1]]
  <2>1. CASE s.key = NoKey
    <3>1. keyed' = keyed
      BY <2>1 DEF Commit
    <3> QED BY <2>1, <3>1 DEF memoryOf
  <2>2. CASE s.key # NoKey
    <3> DEFINE k == s.key
               new == [moved |-> memoryOf[k].moved + m,
                       difference |-> memoryOf[k].difference + (e - l),
                       times |-> memoryOf[k].times + 1]
    <3>1. keyed' = [keyed EXCEPT ![k] = [moved |-> @.moved + m, over |-> @.over + e,
                                         short |-> @.short + l, times |-> @.times + 1]]
      BY <2>2 DEF Commit
    <3>2. k \in Keys
      BY <1>2, <2>2
    <3> HIDE DEF m, e, l, s, k
    <3>3. /\ keyed[k] \in [moved : Nat, over : Nat, short : Nat, times : Nat]
          /\ keyed'[k] = [moved |-> keyed[k].moved + m, over |-> keyed[k].over + e,
                          short |-> keyed[k].short + l, times |-> keyed[k].times + 1]
          /\ \A j \in Keys : j # k => keyed'[j] = keyed[j]
      BY <1>1, <3>1, <3>2 DEF TypeOK
    <3>4. memoryOf' = [j \in Keys |-> IF j = k THEN new ELSE memoryOf[j]]
      <4>1. memoryOf' = [j \in Keys |-> [moved |-> keyed'[j].moved,
                                         difference |-> keyed'[j].over - keyed'[j].short,
                                         times |-> keyed'[j].times]]
        BY DEF memoryOf
      <4>2. (keyed[k].over + e) - (keyed[k].short + l)
              = (keyed[k].over - keyed[k].short) + (e - l)
        BY <1>3, <3>3
      <4>3. ASSUME NEW j \in Keys
            PROVE  memoryOf'[j] = IF j = k THEN new ELSE memoryOf[j]
        BY <3>2, <3>3, <4>1, <4>2 DEF memoryOf
      <4> QED BY <4>1, <4>3
    <3>5. memoryOf' = [memoryOf EXCEPT ![k] = new]
      BY <3>2, <3>4 DEF memoryOf
    <3> QED BY <2>2, <3>5 DEF k
  <2> QED BY <2>1, <2>2
<1>11. outcomeOf[r] = "waiting" /\ outcomeOf' = [outcomeOf EXCEPT ![r] = "served"]
  <2>1. pc' = [pc EXCEPT ![r] = "committed"]
    BY DEF Commit, End
  <2> QED BY <1>1, <2>1, OutcomeFacts, OutcomeStep
<1>12. UNCHANGED shape
  BY DEF Commit
<1> HIDE DEF m, kept, e, l, b
<1>13. Desk!Settle(r, s.key, m, (kept + m) - b)
  BY <1>7, <1>9, <1>10 DEF Desk!Settle
<1> QED BY <1>5, <1>6, <1>8, <1>11, <1>12, <1>13 DEF Desk!Serve

\* A request is refused for what it read of a row it holds.
LEMMA RefusalServes ==
    ASSUME BooksInv, NEW r \in Calls, Refuse(r)
    PROVE  Desk!TurnDown(r)
<1> DEFINE s == shape[r]
           b == seen[r][s.from]
<1>1. TypeOK /\ ReadsAreCurrent /\ pc[r] = "open" /\ s \in Shapes
  BY DEF Refuse, BooksInv, RequestsKnown
<1>2. s.from \in Places /\ b \in Nat
  BY <1>1, ShapeFacts DEF TypeOK
<1>3. s.from \in held[r]
  BY <1>2, TreasuryAssumption DEF Refuse, Wants, Holds
<1>4. b = balance[s.from]
  BY <1>1, <1>3 DEF ReadsAreCurrent
<1>5. \A kept \in Desk!Within(s, b), out \in Desk!Within(s, b) : ~Desk!Deal(s, b, kept, out)
  BY <1>1, <1>2, DealFacts DEF Refuse
<1>6. outcomeOf[r] = "waiting" /\ outcomeOf' = [outcomeOf EXCEPT ![r] = "refused"]
  <2>1. pc' = [pc EXCEPT ![r] = "refused"]
    BY DEF Refuse, End
  <2> QED BY <1>1, <2>1, OutcomeFacts, OutcomeStep
<1>7. UNCHANGED <<shape, balance, memoryOf, answer>>
  BY DEF Refuse, memoryOf
<1> HIDE DEF b
<1> QED BY <1>4, <1>5, <1>6, <1>7 DEF Desk!TurnDown

\* A transaction that ends without an answer, for good or to be run again, had
\* a rival; what it leaves is what it found.
LEMMA GivingUpServes ==
    ASSUME BooksInv, RetryInv, NEW r \in Calls, Retry(r) \/ Deadlock(r)
    PROVE  Desk!GiveUp(r) \/ UNCHANGED Desk!dvars
<1>1. TypeOK
  BY DEF BooksInv
<1>2. UNCHANGED <<shape, balance, memoryOf, answer>>
  BY DEF Retry, Deadlock, memoryOf
<1>3. ASSUME pc[r] = "open", NEW p \in {"failed", "victim"}, End(r, p),
             NEW q \in Calls, q # r, pc[q] \in {"open", "committed"}
      PROVE  Desk!GiveUp(r)
  <2>1. outcomeOf[r] = "waiting" /\ outcomeOf[q] \in {"waiting", "served"}
    BY <1>1, <1>3, OutcomeFacts
  <2>2. outcomeOf' = [outcomeOf EXCEPT ![r] = "givenUp"]
    BY <1>1, <1>3, OutcomeStep DEF End
  <2> QED BY <1>2, <1>3, <2>1, <2>2 DEF Desk!GiveUp
<1>4. CASE Retry(r)
  <2>1. pc[r] = "open" /\ stale[r] # {}
    BY <1>4 DEF Retry, Conflicting
  <2>2. CASE End(r, "ready")
    <3>1. outcomeOf' = outcomeOf
      BY <1>1, <2>1, <2>2 DEF TypeOK, End, outcomeOf, outcomeNames, Finished
    <3> QED BY <1>2, <3>1 DEF Desk!dvars
  <2>3. CASE End(r, "failed")
    <3>1. retries[r] \in Nat /\ retries[r] < Cardinality(Rivals(r))
      BY <1>1, <2>1, TreasuryAssumption DEF TypeOK, RetryInv
    <3>2. Rivals(r) # {}
      BY <3>1, FS_EmptySet
    <3> QED BY <1>3, <2>1, <2>3, <3>2 DEF Rivals
  <2> QED BY <1>4, <2>2, <2>3 DEF Retry
<1>5. CASE Deadlock(r)
  <2>1. PICK q \in Calls : WaitsFor(r, q)
    BY <1>5 DEF Deadlock
  <2>2. pc[r] = "open" /\ q # r /\ held[q] # {}
    BY <2>1 DEF WaitsFor
  <2>3. pc[q] = "open"
    BY <2>2 DEF BooksInv, LocksApart
  <2> QED BY <1>3, <1>5, <2>2, <2>3 DEF Deadlock
<1> QED BY <1>4, <1>5

\* The steps before the first lock, and the locks, are nothing to the desk.
LEMMA LockingServes ==
    ASSUME BooksInv, NEW r \in Calls, Miss(r) \/ Open(r) \/ Lock(r)
    PROVE  UNCHANGED Desk!dvars
<1>1. TypeOK /\ UNCHANGED <<shape, balance, keyed, answer>>
  BY DEF BooksInv, Miss, Open, Lock
<1>2. \/ UNCHANGED pc
      \/ pc[r] \in {"received", "ready"} /\ \E p \in {"ready", "open"} : pc' = [pc EXCEPT ![r] = p]
  BY DEF Miss, Open, Lock
<1>3. outcomeOf' = outcomeOf
  BY <1>1, <1>2 DEF TypeOK, outcomeOf, outcomeNames, Finished
<1>4. memoryOf' = memoryOf
  BY <1>1 DEF memoryOf
<1> QED BY <1>1, <1>3, <1>4 DEF Desk!dvars

\* A request that arrives asks.
LEMMA ReceiveServes ==
    ASSUME BooksInv, NEW r \in Calls, NEW s \in Shapes, Receive(r, s)
    PROVE  Desk!Ask(r)
<1>1. TypeOK /\ UNCHANGED <<balance, memoryOf, answer>>
  BY DEF BooksInv, Receive, memoryOf
<1>2. outcomeOf[r] = "none"
  BY <1>1, OutcomeFacts DEF Receive
<1>3. outcomeOf' = [outcomeOf EXCEPT ![r] = "waiting"]
  <2>1. PICK p \in {"ready", "received"} : pc' = [pc EXCEPT ![r] = p]
    BY DEF Receive
  <2> QED BY <1>1, <2>1, OutcomeStep
<1> QED BY <1>1, <1>2, <1>3 DEF Receive, Desk!Ask

\* However requests overlap, wait for each other, conflict and retry, each is
\* served by itself, in one instant, at the balances of that instant, or
\* repeats what its key did, or is refused for a reason true then, or leaves no
\* trace: Treasury implements CashDesk, for any number of calls and accounts.
THEOREM EachServedByItself == Spec => ServedOneByOne
<1>1. Init => BooksInv /\ RetryInv /\ Desk!DInit
  BY InitBooks, InitDesk
<1>2. BooksInv /\ RetryInv /\ [Next]_vars => (BooksInv /\ RetryInv)'
  BY TypeStep, LockStep, BooksStep, RetryStep DEF BooksInv
<1>3. BooksInv /\ RetryInv /\ [Next]_vars => [Desk!DNext]_(Desk!dvars)
  <2> SUFFICES ASSUME BooksInv, RetryInv, [Next]_vars PROVE [Desk!DNext]_(Desk!dvars)
    OBVIOUS
  <2>1. CASE UNCHANGED vars
    <3>1. UNCHANGED <<shape, outcomeOf, balance, memoryOf, answer>>
      BY <2>1 DEF vars, outcomeOf, memoryOf
    <3> QED BY <3>1 DEF Desk!dvars
  <2>2. ASSUME NEW r \in Calls, NEW s \in Shapes, Receive(r, s) PROVE Desk!DNext
    BY <2>2, ReceiveServes DEF Desk!DNext
  <2>3. ASSUME NEW r \in Calls, Step(r) PROVE [Desk!DNext]_(Desk!dvars)
    <3>1. CASE Replay(r)
      BY <3>1, ReplayServes DEF Desk!DNext
    <3>2. CASE Miss(r) \/ Open(r) \/ Lock(r)
      BY <3>2, LockingServes
    <3>3. CASE Retry(r) \/ Deadlock(r)
      BY <3>3, GivingUpServes DEF Desk!DNext
    <3>4. CASE Refuse(r)
      BY <3>4, RefusalServes DEF Desk!DNext
    <3>5. CASE Commit(r)
      BY <3>5, CommitServes DEF Desk!DNext
    <3> QED BY <2>3, <3>1, <3>2, <3>3, <3>4, <3>5 DEF Step
  <2> QED BY <2>1, <2>2, <2>3 DEF Next
<1> QED BY <1>1, <1>2, <1>3, PTL DEF Spec, ServedOneByOne, Desk!DSpec

-----------------------------------------------------------------------------
\* A call at work, and one that can take its next step: it is before its
\* transaction, or needs no row, or gets its row, or meets a conflict, or is one
\* of a cycle of waits, which PostgreSQL breaks.
AtWork(r) == pc[r] \in {"received", "ready", "open"}

Cycle(ring) ==
    \A q \in ring : (\E p \in ring : WaitsFor(q, p)) /\ (\E p \in ring : WaitsFor(p, q))

CanStep(r) ==
    \/ pc[r] \in {"received", "ready"}
    \/ /\ pc[r] = "open"
       /\ \/ Wants(r) = Nowhere
          \/ Conflicting(r, Wants(r))
          \/ Free(Wants(r))
          \/ \E ring \in SUBSET Calls : r \in ring /\ Cycle(ring)

\* As long as a call is at work, some call can take its next step.
NeverStuck == (\E r \in Calls : AtWork(r)) => \E r \in Calls : CanStep(r)

\* What is left to do of a call: its attempts, and the steps of this one.
Work(r) ==
    IF pc[r] = "idle" THEN 5 * MaxRetries + 6
    ELSE IF pc[r] \in Finished THEN 0
    ELSE 5 * (MaxRetries - retries[r]) +
         (IF pc[r] = "received" THEN 5
          ELSE IF pc[r] = "ready" THEN 4 ELSE 3 - Cardinality(held[r]))

\* Every step does some of the work of one call, and adds to nobody's.
WorkRunsOut ==
    [][\E r \in Calls : /\ Work(r)' < Work(r)
                        /\ \A q \in Calls \ {r} : Work(q)' = Work(q)]_vars

\* Calls that all wait for one of them contain a cycle: the smallest part of
\* them that waits for itself is one.
LEMMA CycleExists ==
    ASSUME NEW W \in SUBSET Calls, W # {},
           \A q \in W : \E p \in W : WaitsFor(q, p)
    PROVE  \E ring \in SUBSET Calls : ring # {} /\ Cycle(ring)
<1> DEFINE AllWait(M) == M # {} /\ \A q \in M : \E p \in M : WaitsFor(q, p)
           T == {M \in FiniteSubsetsOf(Calls) : AllWait(M)}
<1>1. IsFiniteSet(Calls)
  BY FS_Interval, TreasuryAssumption DEF Calls
<1>2. W \in T
  BY <1>1, FS_Subset DEF FiniteSubsetsOf
<1>3. PICK M \in T : \A N \in T : ~(<<N, M>> \in StrictSubsetOrdering(Calls))
  <2>1. T \subseteq FiniteSubsetsOf(Calls) /\ T # {}
    BY <1>2
  <2> HIDE DEF T
  <2> QED BY <2>1, FS_StrictSubsetOrderingWellFounded, WFMin
<1>4. M \in SUBSET Calls /\ IsFiniteSet(M) /\ AllWait(M)
  BY <1>3 DEF FiniteSubsetsOf
<1>5. ASSUME NEW p \in M, \A q \in M : ~WaitsFor(q, p)
      PROVE  FALSE
  <2> DEFINE N == M \ {p}
  <2>1. PICK p2 \in M : WaitsFor(p, p2)
    BY <1>4
  <2>2. p2 # p
    BY <2>1 DEF WaitsFor
  <2>3. AllWait(N)
    BY <1>4, <1>5, <2>1, <2>2
  <2>4. N \in SUBSET Calls /\ IsFiniteSet(N)
    BY <1>4, FS_RemoveElement
  <2>5. N \in T
    BY <2>3, <2>4 DEF FiniteSubsetsOf
  <2>6. <<N, M>> \in StrictSubsetOrdering(Calls)
    BY <1>4, <2>4 DEF StrictSubsetOrdering
  <2> QED BY <1>3, <2>5, <2>6
<1> QED BY <1>4, <1>5 DEF Cycle

\* A call at work that cannot take its next step waits for a call that is at
\* work too, so that if nobody could there would be a cycle, and its members
\* can.
LEMMA SomebodyMoves == BooksInv => NeverStuck
<1> SUFFICES ASSUME BooksInv, NEW r0 \in Calls, AtWork(r0), \A r \in Calls : ~CanStep(r)
             PROVE  FALSE
  BY DEF NeverStuck
<1> DEFINE W == {r \in Calls : AtWork(r)}
<1>1. ASSUME NEW q \in W PROVE \E p \in W : WaitsFor(q, p)
  <2>1. /\ pc[q] = "open" /\ Wants(q) # Nowhere
        /\ ~Conflicting(q, Wants(q)) /\ ~Free(Wants(q))
    BY <1>1 DEF AtWork, CanStep
  <2>2. PICK p \in Calls : Wants(q) \in held[p]
    BY <2>1 DEF Free
  <2>3. Wants(q) \notin held[q]
    BY <2>1 DEF Wants, Holds
  <2>4. pc[p] = "open"
    BY <2>2 DEF BooksInv, LocksApart
  <2> QED BY <2>1, <2>2, <2>3, <2>4 DEF WaitsFor, AtWork
<1>2. PICK ring \in SUBSET Calls : ring # {} /\ Cycle(ring)
  <2>1. W \in SUBSET Calls /\ W # {}
    OBVIOUS
  <2> HIDE DEF W
  <2> QED BY <1>1, <2>1, CycleExists
<1>3. PICK r \in ring : pc[r] = "open"
  BY <1>2 DEF Cycle, WaitsFor
<1> QED BY <1>2, <1>3 DEF CanStep

\* However many calls wait for each other's rows, one of them can go on: nothing
\* that EveryCallEnds needs of the rows is missing.
THEOREM NobodyIsStuck == Spec => []NeverStuck
BY SomebodyMoves, BooksAlwaysInv, PTL

\* A set of two rows at most.
LEMMA PairIsSmall ==
    ASSUME NEW a, NEW b, NEW H \in SUBSET {a, b}
    PROVE  IsFiniteSet(H) /\ Cardinality(H) \in 0..2
<1>1. IsFiniteSet({a}) /\ Cardinality({a}) = 1
  BY FS_Singleton
<1>2. /\ IsFiniteSet({a} \cup {b})
      /\ Cardinality({a} \cup {b}) = IF b \in {a} THEN 1 ELSE 2
  BY <1>1, FS_AddElement
<1>3. H \in SUBSET ({a} \cup {b})
  OBVIOUS
<1>4. IsFiniteSet(H) /\ Cardinality(H) <= Cardinality({a} \cup {b})
  BY <1>2, <1>3, FS_Subset
<1>5. Cardinality(H) \in Nat
  BY <1>4, FS_CardinalityType
<1>6. Cardinality({a} \cup {b}) \in 0..2
  BY <1>2
<1> QED BY <1>4, <1>5, <1>6

\* A call holds its source, its destination, both or nothing.
LEMMA FewLocks ==
    ASSUME BooksInv, NEW r \in Calls, pc[r] # "idle"
    PROVE  IsFiniteSet(held[r]) /\ Cardinality(held[r]) \in 0..2
<1>1. held[r] \in SUBSET {shape[r].from, shape[r].to}
  BY DEF BooksInv, LocksInOrder
<1> QED BY <1>1, PairIsSmall

\* What a step leaves to do.
LEMMA WorkStep ==
    ASSUME BooksInv, BooksInv', [Next]_vars, ~UNCHANGED vars
    PROVE  \E r \in Calls : /\ Work(r)' < Work(r)
                            /\ \A q \in Calls \ {r} : Work(q)' = Work(q)
<1>1. TypeOK /\ TypeOK' /\ MaxRetries \in Nat
  BY TreasuryAssumption DEF BooksInv
<1>2. ASSUME NEW r \in Calls, NEW s \in Shapes, Receive(r, s)
      PROVE  Work(r)' < Work(r) /\ \A q \in Calls \ {r} : Work(q)' = Work(q)
  <2>1. /\ pc[r] = "idle" /\ pc'[r] \in {"ready", "received"}
        /\ UNCHANGED <<retries, held>> /\ retries[r] \in 0..MaxRetries
        /\ \A q \in Calls \ {r} : pc'[q] = pc[q]
    BY <1>1, <1>2 DEF Receive, TypeOK
  <2> QED BY <1>1, <2>1 DEF Work, Finished
<1>3. ASSUME NEW r \in Calls, Step(r)
      PROVE  Work(r)' < Work(r) /\ \A q \in Calls \ {r} : Work(q)' = Work(q)
  <2>1. /\ pc[r] \in {"received", "ready", "open"}
        /\ \A q \in Calls : q # r => pc'[q] = pc[q]
        /\ retries[r] \in 0..MaxRetries
    BY <1>1, <1>3, StepperKnown DEF TypeOK
  <2>2. \A q \in Calls \ {r} : retries'[q] = retries[q] /\ held'[q] = held[q]
    BY <1>1, <1>3
    DEF TypeOK, Step, Replay, Miss, Open, Lock, Retry, Deadlock, Refuse, Commit, End, Released
  <2>3. \A q \in Calls \ {r} : Work(q)' = Work(q)
    BY <2>1, <2>2 DEF Work
  <2>4. /\ Cardinality(held[r]) \in 0..2 /\ IsFiniteSet(held[r])
        /\ Cardinality(held'[r]) \in 0..2
    <3>1. pc'[r] # "idle"
      BY <1>1, <1>3, <2>1
      DEF TypeOK, Step, Replay, Miss, Open, Lock, Retry, Deadlock, Refuse, Commit, End
    <3>2. Cardinality(held[r]) \in 0..2 /\ IsFiniteSet(held[r])
      BY <2>1, FewLocks
    <3>3. held'[r] \in SUBSET {shape'[r].from, shape'[r].to}
      BY <3>1 DEF BooksInv, LocksInOrder
    <3>4. Cardinality(held'[r]) \in 0..2
      BY <3>3, PairIsSmall
    <3> QED BY <3>2, <3>4
  <2>5. Work(r)' < Work(r)
    <3>1. CASE pc'[r] \in Finished
      <4>1. Work(r)' = 0 /\ Work(r) > 0
        BY <1>1, <2>1, <2>4, <3>1 DEF Work, Finished
      <4> QED BY <4>1
    <3>2. CASE Miss(r)
      <4>1. pc[r] = "received" /\ pc'[r] = "ready" /\ retries'[r] = retries[r]
        BY <1>1, <3>2 DEF TypeOK, Miss
      <4> QED BY <1>1, <2>1, <4>1 DEF Work, Finished
    <3>3. CASE Open(r)
      <4>1. pc[r] = "ready" /\ pc'[r] = "open" /\ retries'[r] = retries[r]
        BY <1>1, <3>3 DEF TypeOK, Open
      <4> QED BY <1>1, <2>1, <2>4, <4>1 DEF Work, Finished
    <3>4. CASE Lock(r)
      <4>1. /\ pc[r] = "open" /\ pc'[r] = "open" /\ retries'[r] = retries[r]
            /\ held'[r] = held[r] \cup {Wants(r)} /\ Wants(r) \notin held[r]
        BY <1>1, <3>4 DEF TypeOK, Lock, Wants, Holds
      <4>2. Cardinality(held'[r]) = Cardinality(held[r]) + 1
        BY <2>4, <4>1, FS_AddElement
      <4> QED BY <1>1, <2>1, <2>4, <4>1, <4>2 DEF Work, Finished
    <3>5. CASE Retry(r) /\ pc'[r] \notin Finished
      <4>1. /\ pc[r] = "open" /\ pc'[r] = "ready" /\ retries'[r] = retries[r] + 1
            /\ retries[r] < MaxRetries
        BY <1>1, <3>5 DEF TypeOK, Retry, End, MayRetry, Finished
      <4> QED BY <1>1, <2>1, <2>4, <4>1 DEF Work, Finished
    <3>6. Replay(r) \/ Deadlock(r) \/ Refuse(r) \/ Commit(r) => pc'[r] \in Finished
      BY <1>1 DEF TypeOK, Replay, Deadlock, Refuse, Commit, End, Finished
    <3> QED BY <1>3, <3>1, <3>2, <3>3, <3>4, <3>5, <3>6 DEF Step
  <2> QED BY <2>3, <2>5
<1> QED BY <1>2, <1>3 DEF Next

\* Every step brings some call nearer to its end, so the calls together take at
\* most MaxCalls * (5 * MaxRetries + 6) steps: retries do not go on for ever.
THEOREM RetriesRunOut == Spec => WorkRunsOut
<1>1. BooksInv /\ BooksInv' /\ [Next]_vars =>
        [\E r \in Calls : /\ Work(r)' < Work(r)
                          /\ \A q \in Calls \ {r} : Work(q)' = Work(q)]_vars
  BY WorkStep
<1> QED BY <1>1, BooksAlwaysInv, PTL DEF Spec, WorkRunsOut

-----------------------------------------------------------------------------
\* A call whose key was used when it arrived.
LateRetry(r) ==
    /\ pc[r] \in {"received", "replayed"}
    /\ shape[r].key \in Keys
    /\ Closed(shape[r].key)

\* The answer of a late retry is settled.
LEMMA LateRetryStays ==
    ASSUME BooksInv, NEW r \in Calls, LateRetry(r), [Next]_vars
    PROVE  LateRetry(r)'
<1>1. TypeOK
  BY DEF BooksInv
<1>2. CASE UNCHANGED vars
  BY <1>2 DEF vars, LateRetry, Closed
<1>3. ASSUME NEW q \in Calls, NEW s \in Shapes, Receive(q, s) PROVE LateRetry(r)'
  BY <1>1, <1>3 DEF TypeOK, Receive, LateRetry, Closed
<1>4. ASSUME NEW q \in Calls, Step(q) PROVE LateRetry(r)'
  <2>1. /\ UNCHANGED shape /\ shape[q] \in Shapes
        /\ \A p \in Calls : p # q => pc'[p] = pc[p]
    BY <1>4, StepperKnown
  <2>2. pc'[r] \in {"received", "replayed"}
    BY <1>1, <1>4, <2>1
    DEF TypeOK, LateRetry, Step, Replay, Miss, Open, Lock, Retry, Deadlock, WaitsFor,
        Refuse, Commit, End
  <2>3. ASSUME NEW k \in Keys, Closed(k) PROVE Closed(k)'
    <3>1. CASE UNCHANGED keyed
      BY <2>3, <3>1 DEF Closed
    <3>2. CASE Commit(q)
      <4>1. keyed[k].times \in Nat /\ keyed[k].times > 0
        BY <1>1, <2>3 DEF TypeOK, Closed
      <4>2. keyed'[k].times = keyed[k].times \/ keyed'[k].times = keyed[k].times + 1
        BY <1>1, <3>2 DEF TypeOK, Commit
      <4> QED BY <4>1, <4>2 DEF Closed
    <3> QED BY <1>4, <3>1, <3>2
            DEF Step, Replay, Miss, Open, Lock, Retry, Deadlock, Refuse
  <2> QED BY <2>1, <2>2, <2>3 DEF LateRetry
<1> QED BY <1>2, <1>3, <1>4 DEF Next

\* A client that repeats a closing after it was done never closes again: it is
\* told what was done.  Only calls that overlap can, see KeyClosesOnce.
THEOREM LateRetriesOnlyRepeat ==
    ASSUME NEW r \in Calls
    PROVE  Spec => []((pc[r] = "received" /\ Closed(shape[r].key))
                        => [](pc[r] \in {"received", "replayed"}))
<1>1. BooksInv /\ LateRetry(r) /\ [Next]_vars => LateRetry(r)'
  BY LateRetryStays
<1>2. BooksInv /\ pc[r] = "received" /\ Closed(shape[r].key) => LateRetry(r)
  <2> SUFFICES ASSUME BooksInv, pc[r] = "received", Closed(shape[r].key)
               PROVE  LateRetry(r)
    OBVIOUS
  <2>1. shape[r] \in Shapes /\ shape[r].key # NoKey
    BY DEF BooksInv, RequestsKnown
  <2> QED BY <2>1, ShapeFacts DEF LateRetry
<1>3. LateRetry(r) => pc[r] \in {"received", "replayed"}
  BY DEF LateRetry
<1> QED BY <1>1, <1>2, <1>3, BooksAlwaysInv, PTL DEF Spec

=============================================================================
