---------------------------- MODULE AgentProofs ----------------------------
(***************************************************************************)
(* What holds of the two agents of the program: of the assistant, for any  *)
(* number of chats, messages and prepared operations, and of the orders of *)
(* the sales agent, for any number of turns, clerks, orders and tickets.   *)
(***************************************************************************)
EXTENDS Assistant, SellerOrders, WellFoundedInduction, TLAPS

Executing(m, o) == tool[m].step = "execute" /\ tool[m].found = o

\* The lock of the row: a call that executes holds a PENDING row, alone.
RowsHeld ==
    \A m \in Messages :
        /\ tool[m].step \in {"confirm", "execute"} => tool[m].found \in Prepared
        /\ tool[m].step = "execute" => pending[tool[m].found].status = "PENDING"
        /\ \A n \in Messages : tool[m].step = "execute" /\ tool[n].step = "execute"
                                /\ tool[m].found = tool[n].found => m = n

\* The message before is an answered one of the same chat.
TurnsFollow ==
    \A m \in Messages : message[m].before # NoMessage =>
        /\ message[m].state # "none"
        /\ message[message[m].before].chat = message[m].chat
        /\ message[message[m].before].state = "answered"

\* What checkPendingConfirmation established for a message and an operation.
Answers(m, o) ==
    /\ m # pending[o].request
    /\ message[m].text = Yes
    /\ message[m].before # NoMessage
    /\ message[message[m].before].text = pending[o].trigger

\* It still holds while the call goes on, and of what was performed.
YesStands ==
    \A m \in Messages, o \in Prepared :
        Executing(m, o) \/ (performed[o] > 0 /\ by[o] = m) => Answers(m, o)

\* What was read again under a lock has not changed since.
ReadsStand ==
    \A m \in Messages :
        tool[m].step = "execute" /\ pending[tool[m].found].kind \in ReadLocked
        => tool[m].read = facts[pending[tool[m].found].kind]

\* An operation performed names the message that did it.
Performers == \A o \in Prepared : performed[o] > 0 => by[o] \in Messages

AssistantInv ==
    /\ AssistantTypeOK /\ RowsHeld /\ PerformedOnce
    /\ TurnsFollow /\ YesStands /\ ReadsStand /\ Performers

-----------------------------------------------------------------------------
\* A chat that sent messages has a last one.
LEMMA LatestIsOne ==
    ASSUME NEW S \in SUBSET Messages, S # {}
    PROVE  Max(S) \in S
<1> DEFINE T == {MaxMessages - x : x \in S}
<1>1. T \subseteq Nat /\ T # {}
  BY AssistantAssumption DEF Messages
<1>2. PICK t \in T : \A u \in T : ~(<<u, t>> \in OpToRel(<, Nat))
  BY <1>1, WFMin, NatLessThanWellFounded
<1>3. \A u \in T : t <= u
  <2>1. \A u \in T : ~(u < t)
    BY <1>1, <1>2 DEF OpToRel
  <2> HIDE DEF T
  <2> QED
    BY <1>1, <2>1
<1>4. PICK x \in S : t = MaxMessages - x
  OBVIOUS
<1>5. \A y \in S : x >= y
  <2> TAKE y \in S
  <2>1. t <= MaxMessages - y
    BY <1>3
  <2> QED
    BY <2>1, <1>4, AssistantAssumption DEF Messages
<1> HIDE DEF T
<1> QED
  BY <1>5 DEF Max

\* What a client sends along as the message before was answered in its chat.
LEMMA BeforeFacts ==
    ASSUME AssistantTypeOK, NEW c \in Chats, Before(c) # NoMessage
    PROVE  /\ Before(c) \in Messages
           /\ message[Before(c)].chat = c
           /\ message[Before(c)].state = "answered"
<1> DEFINE S == {m \in Messages : message[m].chat = c}
<1>1. Last(c) # NoMessage /\ Before(c) = Last(c) /\ message[Last(c)].state = "answered"
  BY DEF Before
<1>2. S # {} /\ Last(c) = Max(S)
  BY <1>1 DEF Last
<1>3. Max(S) \in S
  BY <1>2, LatestIsOne
<1> QED
  BY <1>1, <1>2, <1>3

\* A query finds a PENDING row, or none.
LEMMA FoundFacts == Found # NoneFound => Found \in Prepared /\ Waiting(Found)
BY DEF Found

-----------------------------------------------------------------------------
LEMMA AssistantStart == AssistantInit => AssistantInv
BY AssistantAssumption DEF AssistantInit, AssistantInv, AssistantTypeOK, RowsHeld,
   PerformedOnce, TurnsFollow, YesStands, ReadsStand, Performers, Message, NotSent, Prepared,
   Messages, PendingRow, NotPrepared, Call, NoCall, Kinds, NoMessage, NoneFound, Waiting,
   Executing

\* Every step keeps the types of the rows.
LEMMA TypesStep ==
    ASSUME AssistantTypeOK, RowsHeld, [AssistantNext]_assistantVars
    PROVE  AssistantTypeOK'
<1> USE AssistantAssumption DEF AssistantTypeOK
<1>1. ASSUME NEW c \in Chats, NEW m \in Messages, NEW t \in Texts, Send(c, m, t)
      PROVE  AssistantTypeOK'
  <2>1. Before(c) \in Messages \cup {NoMessage}
    BY BeforeFacts
  <2>2. [chat |-> c, text |-> t, before |-> Before(c), state |-> "open"] \in Message
    BY <2>1 DEF Message
  <2> QED
    BY <1>1, <2>2 DEF Send
<1>2. ASSUME NEW m \in Messages, NEW n \in Messages, Repeat(m, n)
      PROVE  AssistantTypeOK'
  BY <1>2 DEF Repeat, Message
<1>3. ASSUME NEW m \in Messages, End(m, "answered") \/ End(m, "cut")
      PROVE  AssistantTypeOK'
  BY <1>3 DEF End, Message
<1>4. ASSUME NEW m \in Messages, NEW k \in Operations, StartPrepare(m, k)
      PROVE  AssistantTypeOK'
  BY <1>4, FoundFacts DEF StartPrepare, Call
<1>5. ASSUME NEW m \in Messages, NEW k \in Operations, StartConfirm(m, k)
      PROVE  AssistantTypeOK'
  <2>1. Found \in Prepared /\ pending[Found].expired \in BOOLEAN
    BY <1>5, FoundFacts DEF StartConfirm, PendingRow
  <2> QED
    BY <1>5, <2>1 DEF StartConfirm, Call
<1>6. ASSUME NEW m \in Messages, NEW o \in Prepared, Save(m, o)
      PROVE  AssistantTypeOK'
  <2>1. [status |-> "PENDING", kind |-> tool[m].kind, request |-> m,
         trigger |-> message[m].text, expired |-> FALSE, shown |-> tool[m].read] \in PendingRow
    BY DEF PendingRow, Message, Call
  <2>2. Superseded(tool[m].found) \in [Prepared -> PendingRow]
    BY DEF Superseded, PendingRow
  <2> HIDE DEF AssistantTypeOK
  <2>3. pending' \in [Prepared -> PendingRow]
    BY <1>6, <2>1, <2>2 DEF Save, AssistantTypeOK
  <2>4. NoCall \in Call
    BY DEF NoCall, Call, Kinds, NoneFound
  <2> QED
    BY <1>6, <2>3, <2>4 DEF Save, AssistantTypeOK
<1>7. ASSUME NEW m \in Messages, Check(m)
      PROVE  AssistantTypeOK'
  <2> DEFINE o == tool[m].found
  <2>1. o \in Prepared /\ tool[m] \in Call /\ pending[o] \in PendingRow
    BY <1>7 DEF Check, RowsHeld
  <2>2. NoCall \in Call
    BY DEF NoCall, Call, Kinds, NoneFound
  <2>3. [pending[o] EXCEPT !.status = "EXPIRED"] \in PendingRow
    BY <2>1 DEF PendingRow
  <2>4. [tool[m] EXCEPT !.step = "execute", !.read = facts[pending[o].kind]] \in Call
    BY <2>1 DEF Call, PendingRow
  <2>5. /\ tool' \in [Messages -> Call] /\ pending' \in [Prepared -> PendingRow]
        /\ UNCHANGED <<message, facts, performed, by>>
    BY <1>7, <2>1, <2>2, <2>3, <2>4 DEF Check
  <2> QED
    BY <2>5
<1>8. ASSUME NEW m \in Messages, GiveUp(m) \/ Execute(m) \/ Undo(m)
      PROVE  AssistantTypeOK'
  <2> DEFINE o == tool[m].found
  <2>1. o \in Prepared /\ pending[o] \in PendingRow /\ performed[o] \in Nat
    BY <1>8 DEF GiveUp, Execute, Undo, RowsHeld
  <2>2. NoCall \in Call
    BY DEF NoCall, Call, Kinds, NoneFound
  <2>3. /\ [pending[o] EXCEPT !.status = "EXPIRED"] \in PendingRow
        /\ [pending[o] EXCEPT !.status = "EXECUTED"] \in PendingRow
    BY <2>1 DEF PendingRow
  <2>4. /\ tool' \in [Messages -> Call] /\ pending' \in [Prepared -> PendingRow]
        /\ performed' \in [Prepared -> Nat] /\ by' \in [Prepared -> Messages \cup {NoMessage}]
        /\ UNCHANGED <<message, facts>>
    BY <1>8, <2>1, <2>2, <2>3 DEF GiveUp, Execute, Undo, Done
  <2> QED
    BY <2>4
<1>9. ASSUME NEW o \in Prepared, Lapse(o)
      PROVE  AssistantTypeOK'
  BY <1>9, ZenonT(40) DEF Lapse, PendingRow
<1>10. ASSUME NEW k \in Operations, ChangeFacts(k)
       PROVE  AssistantTypeOK'
  BY <1>10 DEF ChangeFacts
<1>11. CASE UNCHANGED assistantVars
  BY <1>11 DEF assistantVars
<1> QED
  BY <1>1, <1>2, <1>3, <1>4, <1>5, <1>6, <1>7, <1>8, <1>9, <1>10, <1>11 DEF AssistantNext

\* Every step keeps the rows held, and performs an operation once.
LEMMA OnceStep ==
    ASSUME AssistantInv, AssistantTypeOK', [AssistantNext]_assistantVars
    PROVE  RowsHeld' /\ PerformedOnce'
<1> USE DEF AssistantInv, RowsHeld, PerformedOnce, Waiting
<1>1. ASSUME NEW c \in Chats, NEW m \in Messages, NEW t \in Texts, Send(c, m, t)
      PROVE  RowsHeld' /\ PerformedOnce'
  BY <1>1 DEF Send
<1>2. ASSUME NEW m \in Messages, NEW n \in Messages, Repeat(m, n)
      PROVE  RowsHeld' /\ PerformedOnce'
  BY <1>2 DEF Repeat
<1>3. ASSUME NEW m \in Messages, End(m, "answered") \/ End(m, "cut")
      PROVE  RowsHeld' /\ PerformedOnce'
  BY <1>3 DEF End
<1>4. ASSUME NEW m \in Messages, NEW k \in Operations, StartPrepare(m, k)
      PROVE  RowsHeld' /\ PerformedOnce'
  BY <1>4 DEF StartPrepare, AssistantTypeOK
<1>5. ASSUME NEW m \in Messages, NEW k \in Operations, StartConfirm(m, k)
      PROVE  RowsHeld' /\ PerformedOnce'
  BY <1>5, FoundFacts DEF StartConfirm, AssistantTypeOK
<1>6. ASSUME NEW m \in Messages, NEW o \in Prepared, Save(m, o)
      PROVE  RowsHeld' /\ PerformedOnce'
  <2> DEFINE p == tool[m].found
  <2>1. /\ tool[m].step = "save" /\ pending[o].status = "none"
        /\ p \in Prepared => Unlocked(p)
        /\ tool' = [tool EXCEPT ![m] = NoCall] /\ UNCHANGED performed
    BY <1>6 DEF Save, Prepared, NoneFound
  <2>2. CASE Collides(p)
    BY <1>6, <2>1, <2>2 DEF Save, AssistantTypeOK, NoCall
  <2>3. CASE ~Collides(p)
    <3>1. \A q \in Prepared : q # p => pending[q].status # "PENDING"
      BY <2>3 DEF Collides
    <3>2. \A q \in Prepared : q # o =>
            pending'[q].status = IF q = p /\ pending[q].status = "PENDING"
                                 THEN "SUPERSEDED" ELSE pending[q].status
      BY <1>6, <2>3 DEF Save, Superseded, AssistantTypeOK, PendingRow
    <3>3. pending'[o].status = "PENDING"
      BY <1>6, <2>3 DEF Save, Superseded, AssistantTypeOK, PendingRow
    <3>4. \A n \in Messages : tool'[n].step = "execute" =>
            /\ n # m /\ tool'[n] = tool[n]
            /\ tool[n].found # p /\ tool[n].found # o /\ tool[n].found \in Prepared
      BY <2>1 DEF AssistantTypeOK, NoCall, Unlocked
    <3>5. RowsHeld'
      BY <2>1, <3>2, <3>4 DEF AssistantTypeOK, NoCall
    <3>6. PerformedOnce'
      BY <2>1, <3>1, <3>2, <3>3
    <3> QED
      BY <3>5, <3>6
  <2> QED
    BY <2>2, <2>3
<1>7. ASSUME NEW m \in Messages, Check(m)
      PROVE  RowsHeld' /\ PerformedOnce'
  <2> DEFINE o == tool[m].found
  <2>1. /\ o \in Prepared /\ Unlocked(o) /\ UNCHANGED performed
        /\ tool[m].step = "confirm"
    BY <1>7 DEF Check
  <2>2. CASE tool' = [tool EXCEPT ![m] = NoCall] /\ UNCHANGED pending
    BY <2>1, <2>2 DEF AssistantTypeOK, NoCall
  <2>3. CASE /\ tool' = [tool EXCEPT ![m] = NoCall] /\ Waiting(o)
             /\ pending' = [pending EXCEPT ![o].status = "EXPIRED"]
    BY <2>1, <2>3 DEF AssistantTypeOK, PendingRow, NoCall, Unlocked
  <2>4. CASE /\ Waiting(o) /\ UNCHANGED pending
             /\ tool' = [tool EXCEPT ![m] =
                            [@ EXCEPT !.step = "execute", !.read = facts[pending[o].kind]]]
    <3>1. /\ tool'[m].step = "execute" /\ tool'[m].found = o
          /\ \A n \in Messages : n # m => tool'[n] = tool[n]
      BY <2>4 DEF AssistantTypeOK, Call
    <3>2. \A n \in Messages : tool[n].step = "execute" => tool[n].found # o
      BY <2>1 DEF Unlocked
    <3>3. RowsHeld'
      BY <2>1, <2>4, <3>1, <3>2
    <3> QED
      BY <2>1, <2>4, <3>3
  <2> QED
    BY <1>7, <2>2, <2>3, <2>4 DEF Check
<1>8. ASSUME NEW m \in Messages, GiveUp(m) \/ Execute(m) \/ Undo(m)
      PROVE  RowsHeld' /\ PerformedOnce'
  <2> DEFINE o == tool[m].found
  <2>1. o \in Prepared /\ pending[o].status = "PENDING" /\ tool[m].step = "execute"
    BY <1>8 DEF GiveUp, Execute, Undo
  <2>2. tool' = [tool EXCEPT ![m] = NoCall]
    BY <1>8 DEF GiveUp, Execute, Undo
  <2>3. \A n \in Messages : tool'[n].step = "execute" =>
            n # m /\ tool'[n] = tool[n] /\ tool[n].found # o
    BY <2>1, <2>2 DEF AssistantTypeOK, NoCall
  <2>4. \A q \in Prepared : q # o => pending'[q] = pending[q] /\ performed'[q] = performed[q]
    BY <1>8, <2>1 DEF GiveUp, Execute, Undo, Done, AssistantTypeOK
  <2>5. \/ pending'[o].status = "EXECUTED" /\ performed'[o] = performed[o] + 1
        \/ pending'[o].status \in {"PENDING", "EXPIRED"} /\ performed'[o] = performed[o]
    BY <1>8, <2>1 DEF GiveUp, Execute, Undo, Done, AssistantTypeOK, PendingRow
  <2>6. RowsHeld'
    BY <2>2, <2>3, <2>4 DEF AssistantTypeOK, NoCall
  <2>7. PerformedOnce'
    BY <2>1, <2>4, <2>5 DEF AssistantTypeOK
  <2> QED
    BY <2>6, <2>7
<1>9. ASSUME NEW o \in Prepared, Lapse(o)
      PROVE  RowsHeld' /\ PerformedOnce'
  BY <1>9 DEF Lapse, AssistantTypeOK, PendingRow
<1>10. ASSUME NEW k \in Operations, ChangeFacts(k)
       PROVE  RowsHeld' /\ PerformedOnce'
  BY <1>10 DEF ChangeFacts
<1>11. CASE UNCHANGED assistantVars
  BY <1>11 DEF assistantVars
<1> QED
  BY <1>1, <1>2, <1>3, <1>4, <1>5, <1>6, <1>7, <1>8, <1>9, <1>10, <1>11 DEF AssistantNext
-----------------------------------------------------------------------------
\* A message that was sent keeps its text, its chat and the message before it.
LEMMA SentStays ==
    ASSUME AssistantInv, [AssistantNext]_assistantVars, NEW m \in Messages,
           message[m].state # "none"
    PROVE  /\ message'[m].text = message[m].text /\ message'[m].chat = message[m].chat
           /\ message'[m].before = message[m].before /\ message'[m].state # "none"
           /\ message[m].state = "answered" => message'[m].state = "answered"
<1> USE DEF AssistantInv, AssistantTypeOK, Message
<1>1. ASSUME NEW c \in Chats, NEW n \in Messages, NEW t \in Texts, Send(c, n, t)
      PROVE  message'[m] = message[m]
  BY <1>1 DEF Send, NotSent
<1>2. ASSUME NEW l \in Messages, NEW n \in Messages, Repeat(l, n)
      PROVE  message'[m] = message[m]
  BY <1>2 DEF Repeat, NotSent
<1>3. ASSUME NEW n \in Messages, End(n, "answered") \/ End(n, "cut")
      PROVE  /\ message'[m].text = message[m].text /\ message'[m].chat = message[m].chat
             /\ message'[m].before = message[m].before /\ message'[m].state # "none"
             /\ message[m].state = "answered" => message'[m].state = "answered"
  BY <1>3 DEF End, Free
<1>4. ASSUME NEW n \in Messages, NEW k \in Operations, StartPrepare(n, k) \/ StartConfirm(n, k)
      PROVE  UNCHANGED message
  BY <1>4 DEF StartPrepare, StartConfirm
<1>5. ASSUME NEW n \in Messages, NEW o \in Prepared, Save(n, o)
      PROVE  UNCHANGED message
  BY <1>5 DEF Save
<1>6. ASSUME NEW n \in Messages, Check(n) \/ GiveUp(n) \/ Execute(n) \/ Undo(n)
      PROVE  UNCHANGED message
  BY <1>6 DEF Check, GiveUp, Execute, Undo
<1>7. ASSUME NEW o \in Prepared, Lapse(o)
      PROVE  UNCHANGED message
  BY <1>7 DEF Lapse
<1>8. ASSUME NEW k \in Operations, ChangeFacts(k)
      PROVE  UNCHANGED message
  BY <1>8 DEF ChangeFacts
<1>9. CASE UNCHANGED assistantVars
  BY <1>9 DEF assistantVars
<1> QED
  BY <1>1, <1>2, <1>3, <1>4, <1>5, <1>6, <1>7, <1>8, <1>9 DEF AssistantNext

\* The message before one that is new was answered in the same chat.
LEMMA TurnsStep ==
    ASSUME AssistantInv, AssistantTypeOK', [AssistantNext]_assistantVars
    PROVE  TurnsFollow'
<1> DEFINE Sound(b, c) == /\ b \in Messages
                          /\ message[b].chat = c /\ message[b].state = "answered"
<1> SUFFICES ASSUME NEW m \in Messages, message'[m].before # NoMessage
             PROVE  /\ message'[m].state # "none"
                    /\ message'[message'[m].before].chat = message'[m].chat
                    /\ message'[message'[m].before].state = "answered"
  BY DEF TurnsFollow
<1> USE DEF AssistantInv, AssistantTypeOK, Message
<1>1. ASSUME NEW n \in Messages, message[n].before # NoMessage
      PROVE  message[n].state # "none" /\ Sound(message[n].before, message[n].chat)
  BY <1>1 DEF TurnsFollow
<1>2. ASSUME message'[m] = message[m]
      PROVE  message'[m].state # "none" /\ Sound(message'[m].before, message'[m].chat)
  BY <1>1, <1>2
<1>3. ASSUME NEW c \in Chats, NEW n \in Messages, NEW t \in Texts, Send(c, n, t), n = m
      PROVE  message'[m].state # "none" /\ Sound(message'[m].before, message'[m].chat)
  <2>1. message'[m] = [chat |-> c, text |-> t, before |-> Before(c), state |-> "open"]
    BY <1>3 DEF Send
  <2> QED
    BY <2>1, BeforeFacts
<1>4. ASSUME NEW l \in Messages, NEW n \in Messages, Repeat(l, n), n = m
      PROVE  message'[m].state # "none" /\ Sound(message'[m].before, message'[m].chat)
  <2>1. message'[m] = [message[l] EXCEPT !.state = "open"]
    BY <1>4 DEF Repeat
  <2> QED
    BY <2>1, <1>1
<1>5. ASSUME NEW n \in Messages, End(n, "answered") \/ End(n, "cut")
      PROVE  /\ message'[m].before = message[m].before /\ message'[m].chat = message[m].chat
             /\ message[m].state # "none" => message'[m].state # "none"
  BY <1>5 DEF End
<1>6. \/ message'[m] = message[m]
      \/ \E c \in Chats, t \in Texts : Send(c, m, t)
      \/ \E l \in Messages : Repeat(l, m)
      \/ \E n \in Messages : End(n, "answered") \/ End(n, "cut")
  BY DEF AssistantNext, Send, Repeat, StartPrepare, StartConfirm, Save, Check, GiveUp,
     Execute, Undo, Lapse, ChangeFacts, assistantVars
<1>7. message'[m].state # "none" /\ Sound(message'[m].before, message'[m].chat)
  BY <1>1, <1>2, <1>3, <1>4, <1>5, <1>6
<1> QED
  BY <1>7, SentStays

\* A call that executes goes on, or was allowed to a moment ago.
LEMMA CallsGoOn ==
    ASSUME AssistantInv, [AssistantNext]_assistantVars, NEW m \in Messages,
           tool'[m].step = "execute"
    PROVE  LET o == tool[m].found IN
           /\ o \in Prepared /\ tool'[m].found = o
           /\ pending'[o].kind = pending[o].kind /\ pending'[o].request = pending[o].request
           /\ pending'[o].trigger = pending[o].trigger
           /\ \/ /\ tool[m].step = "execute" /\ tool'[m].read = tool[m].read
                 /\ pending[o].kind \in ReadLocked =>
                        facts'[pending[o].kind] = facts[pending[o].kind]
              \/ /\ tool'[m].read = facts'[pending[o].kind]
                 /\ UNCHANGED message /\ Rejection(o, m, tool[m].late) = "none"
<1> DEFINE o == tool[m].found
           Same == /\ pending'[o].kind = pending[o].kind
                   /\ pending'[o].request = pending[o].request
                   /\ pending'[o].trigger = pending[o].trigger
           Was == tool[m].step = "execute" /\ tool'[m] = tool[m] /\ UNCHANGED facts
<1> USE DEF AssistantInv, AssistantTypeOK
<1>0. tool[m].step = "execute" => o \in Prepared /\ pending[o].status = "PENDING"
  BY DEF RowsHeld
<1>1. CASE UNCHANGED <<pending, tool, facts>>
  BY <1>0, <1>1
<1>2. ASSUME NEW n \in Messages, NEW k \in Operations, StartPrepare(n, k) \/ StartConfirm(n, k)
      PROVE  Was /\ UNCHANGED pending
  BY <1>2 DEF StartPrepare, StartConfirm
<1>3. ASSUME NEW n \in Messages, NEW q \in Prepared, Save(n, q)
      PROVE  Was /\ Same
  <2>1. Was /\ tool[m].step = "execute"
    BY <1>3 DEF Save, NoCall
  <2>2. o # q
    BY <1>0, <1>3, <2>1 DEF Save
  <2>3. pending'[o] = pending[o] \/ pending'[o] = [pending[o] EXCEPT !.status = "SUPERSEDED"]
    BY <1>0, <1>3, <2>1, <2>2 DEF Save, Superseded
  <2> QED
    BY <1>0, <2>1, <2>3 DEF PendingRow
<1>4. ASSUME NEW n \in Messages, Check(n), n # m
      PROVE  Was /\ Same
  BY <1>0, <1>4 DEF Check, NoCall, PendingRow, RowsHeld
<1>5. CASE Check(m)
  <2>1. o \in Prepared /\ NoCall.step # "execute" /\ UNCHANGED <<facts, message>>
    BY <1>5 DEF Check, RowsHeld, NoCall
  <2>2. /\ Rejection(o, m, tool[m].late) = "none" /\ UNCHANGED pending
        /\ tool' = [tool EXCEPT ![m] = [@ EXCEPT !.step = "execute",
                                                 !.read = facts[pending[o].kind]]]
    BY <1>5, <2>1 DEF Check
  <2>3. tool'[m].found = o /\ tool'[m].read = facts[pending[o].kind]
    BY <2>2 DEF Call
  <2> QED
    BY <2>1, <2>2, <2>3
<1>6. ASSUME NEW n \in Messages, GiveUp(n) \/ Execute(n) \/ Undo(n)
      PROVE  Was /\ Same
  <2>1. Was /\ n # m
    BY <1>6 DEF GiveUp, Execute, Undo, NoCall
  <2>2. o # tool[n].found /\ tool[n].found \in Prepared
    BY <1>6, <2>1 DEF GiveUp, Execute, Undo, RowsHeld
  <2>3. pending'[o] = pending[o]
    BY <1>0, <1>6, <2>1, <2>2 DEF GiveUp, Execute, Undo, Done
  <2> QED
    BY <2>1, <2>3
<1>7. ASSUME NEW q \in Prepared, Lapse(q)
      PROVE  Was /\ Same
  BY <1>0, <1>7 DEF Lapse, PendingRow
<1>8. ASSUME NEW k \in Operations, ChangeFacts(k)
      PROVE  /\ UNCHANGED <<pending, tool>>
             /\ pending[o].kind \in ReadLocked =>
                    facts'[pending[o].kind] = facts[pending[o].kind]
  <2>1. UNCHANGED <<pending, tool>> /\ tool[m].step = "execute"
    BY <1>8 DEF ChangeFacts
  <2>2. pending[o].kind \in ReadLocked => pending[o].kind # k
    BY <1>8, <2>1 DEF ChangeFacts, Pinned
  <2>3. pending[o].kind \in Kinds
    BY <1>0, <2>1 DEF PendingRow
  <2> QED
    BY <1>8, <2>1, <2>2, <2>3 DEF ChangeFacts
<1>9. \/ UNCHANGED <<pending, tool, facts>>
      \/ \E n \in Messages, k \in Operations : StartPrepare(n, k) \/ StartConfirm(n, k)
      \/ \E n \in Messages, q \in Prepared : Save(n, q)
      \/ \E n \in Messages : Check(n)
      \/ \E n \in Messages : GiveUp(n) \/ Execute(n) \/ Undo(n)
      \/ \E q \in Prepared : Lapse(q)
      \/ \E k \in Operations : ChangeFacts(k)
  BY DEF AssistantNext, Send, Repeat, End, assistantVars
<1> QED
  BY <1>0, <1>1, <1>2, <1>3, <1>4, <1>5, <1>6, <1>7, <1>8, <1>9

\* What was performed stays so; a call that executes may perform its operation.
LEMMA DoneStays ==
    ASSUME AssistantInv, [AssistantNext]_assistantVars, NEW o \in Prepared, performed'[o] > 0
    PROVE  /\ pending'[o].request = pending[o].request /\ pending'[o].trigger = pending[o].trigger
           /\ \/ performed[o] > 0 /\ by'[o] = by[o]
              \/ \E m \in Messages : /\ Executing(m, o) /\ Execute(m)
                                    /\ performed[o] = 0 /\ by'[o] = m
<1> DEFINE Same == /\ pending'[o].request = pending[o].request
                   /\ pending'[o].trigger = pending[o].trigger
<1> USE DEF AssistantInv, AssistantTypeOK
<1>0. performed[o] > 0 => pending[o].status = "EXECUTED"
  BY DEF PerformedOnce
<1>1. CASE UNCHANGED <<pending, performed, by>>
  BY <1>1
<1>2. ASSUME NEW n \in Messages, NEW q \in Prepared, Save(n, q)
      PROVE  Same /\ UNCHANGED <<performed, by>>
  <2>1. performed[o] > 0 /\ UNCHANGED <<performed, by>>
    BY <1>2 DEF Save
  <2>2. pending'[o] = pending[o]
    BY <1>0, <1>2, <2>1 DEF Save, Superseded, Waiting
  <2> QED
    BY <2>1, <2>2
<1>3. ASSUME NEW n \in Messages, Check(n) \/ GiveUp(n) \/ Undo(n)
      PROVE  Same /\ UNCHANGED <<performed, by>>
  BY <1>3 DEF Check, GiveUp, Undo, PendingRow
<1>4. ASSUME NEW n \in Messages, Execute(n), tool[n].found # o
      PROVE  Same /\ performed'[o] = performed[o] /\ by'[o] = by[o]
  BY <1>4 DEF Execute, Done
<1>5. ASSUME NEW n \in Messages, Execute(n), tool[n].found = o
      PROVE  Same /\ Executing(n, o) /\ performed[o] = 0 /\ by'[o] = n
  <2>1. pending[o].status = "PENDING"
    BY <1>5 DEF Execute, RowsHeld
  <2> QED
    BY <1>5, <2>1 DEF Execute, Executing, Done, PendingRow, PerformedOnce
<1>6. ASSUME NEW q \in Prepared, Lapse(q)
      PROVE  Same /\ UNCHANGED <<performed, by>>
  BY <1>6 DEF Lapse, PendingRow
<1>7. \/ UNCHANGED <<pending, performed, by>>
      \/ \E n \in Messages, q \in Prepared : Save(n, q)
      \/ \E n \in Messages : Check(n) \/ GiveUp(n) \/ Undo(n)
      \/ \E n \in Messages : Execute(n)
      \/ \E q \in Prepared : Lapse(q)
  BY DEF AssistantNext, Send, Repeat, End, StartPrepare, StartConfirm, ChangeFacts, assistantVars
<1> QED
  BY <1>1, <1>2, <1>3, <1>4, <1>5, <1>6, <1>7

\* A yes still answers its summary after any step.
LEMMA YesStep ==
    ASSUME AssistantInv, AssistantTypeOK', [AssistantNext]_assistantVars
    PROVE  YesStands' /\ Performers'
<1> USE DEF AssistantInv
<1>1. ASSUME NEW m \in Messages, NEW o \in Prepared, Answers(m, o),
             pending'[o].request = pending[o].request, pending'[o].trigger = pending[o].trigger
      PROVE  Answers(m, o)'
  <2> DEFINE b == message[m].before
  <2>1. b \in Messages /\ message[m].state # "none" /\ message[b].state = "answered"
    BY <1>1 DEF Answers, TurnsFollow, AssistantTypeOK, Message
  <2>2. /\ message'[m].text = message[m].text /\ message'[m].before = b
        /\ message'[b].text = message[b].text
    BY <2>1, SentStays
  <2> QED
    BY <1>1, <2>2 DEF Answers
<1>2. ASSUME NEW m \in Messages, NEW o \in Prepared, Executing(m, o)'
      PROVE  Answers(m, o)'
  <2>1. /\ tool[m].found = o /\ pending'[o].request = pending[o].request
        /\ pending'[o].trigger = pending[o].trigger
        /\ tool[m].step = "execute" \/ Rejection(o, m, tool[m].late) = "none"
    BY <1>2, CallsGoOn DEF Executing
  <2>2. Answers(m, o)
    BY <2>1 DEF YesStands, Executing, Rejection, Confirms, Answers
  <2> QED
    BY <1>1, <2>1, <2>2
<1>3. ASSUME NEW m \in Messages, NEW o \in Prepared, performed'[o] > 0, by'[o] = m
      PROVE  Answers(m, o)'
  <2>1. Executing(m, o) \/ (performed[o] > 0 /\ by[o] = m)
    BY <1>3, DoneStays
  <2>2. Answers(m, o)
    BY <2>1 DEF YesStands
  <2> QED
    BY <1>1, <1>3, <2>2, DoneStays
<1>4. YesStands'
  BY <1>2, <1>3 DEF YesStands
<1>5. Performers'
  BY DoneStays DEF Performers
<1> QED
  BY <1>4, <1>5

\* So does what was read again.
LEMMA ReadsStep ==
    ASSUME AssistantInv, [AssistantNext]_assistantVars
    PROVE  ReadsStand'
<1> SUFFICES ASSUME NEW m \in Messages, tool'[m].step = "execute",
                    pending'[tool'[m].found].kind \in ReadLocked
             PROVE  tool'[m].read = facts'[pending'[tool'[m].found].kind]
  BY DEF ReadsStand
<1> QED
  BY CallsGoOn DEF AssistantInv, ReadsStand

-----------------------------------------------------------------------------
LEMMA AssistantStep == AssistantInv /\ [AssistantNext]_assistantVars => AssistantInv'
<1> SUFFICES ASSUME AssistantInv, [AssistantNext]_assistantVars
             PROVE  AssistantInv'
  OBVIOUS
<1>1. AssistantTypeOK'
  BY TypesStep DEF AssistantInv
<1>2. RowsHeld' /\ PerformedOnce'
  BY <1>1, OnceStep
<1>3. TurnsFollow'
  BY <1>1, TurnsStep
<1>4. YesStands' /\ Performers'
  BY <1>1, YesStep
<1>5. ReadsStand'
  BY ReadsStep
<1> QED
  BY <1>1, <1>2, <1>3, <1>4, <1>5 DEF AssistantInv

LEMMA AssistantAlways == AssistantSpec => []AssistantInv
BY AssistantStart, AssistantStep, PTL DEF AssistantSpec

\* Rows keep their types, whatever chats, tools and failures interleave.
THEOREM AssistantTypes == AssistantSpec => []AssistantTypeOK
<1>1. AssistantInv => AssistantTypeOK
  BY DEF AssistantInv
<1> QED
  BY <1>1, AssistantAlways, PTL

\* An operation takes effect exactly when its row says EXECUTED, and once, for
\* any number of chats, messages and operations: LOCK_PENDING_ACTION_SQL and
\* the unique index are enough.
THEOREM OperationsHappenOnce == AssistantSpec => []PerformedOnce
<1>1. AssistantInv => PerformedOnce
  BY DEF AssistantInv
<1> QED
  BY <1>1, AssistantAlways, PTL

\* An operation is performed by the yes to its own summary, as long as no other
\* message has the text that asked for it: checkPendingConfirmation.
THEOREM YesMeansThisOne == AssistantSpec => []YesAnswersItsSummary
<1>1. AssistantInv => YesAnswersItsSummary
  <2> SUFFICES ASSUME AssistantInv, NEW o \in Prepared, performed[o] > 0, Unmistakable(o)
               PROVE  /\ by[o] # pending[o].request
                      /\ message[by[o]].text = Yes
                      /\ message[by[o]].before = pending[o].request
                      /\ message[by[o]].chat = message[pending[o].request].chat
                      /\ message[pending[o].request].state = "answered"
    BY DEF YesAnswersItsSummary
  <2> USE DEF AssistantInv
  <2> DEFINE m == by[o]
             b == message[m].before
  <2>1. m \in Messages /\ Answers(m, o)
    BY DEF Performers, YesStands
  <2>2. b \in Messages
    BY <2>1 DEF Answers, AssistantTypeOK, Message
  <2>3. message[b].chat = message[m].chat /\ message[b].state = "answered"
    BY <2>1 DEF Answers, TurnsFollow
  <2>4. message[b] # NotSent
    BY <2>3 DEF NotSent
  <2>5. b = pending[o].request
    BY <2>1, <2>2, <2>4 DEF Answers, Unmistakable
  <2> QED
    BY <2>1, <2>3, <2>5 DEF Answers
<1> QED
  BY <1>1, AssistantAlways, PTL

\* What is archived or corrected is what the summary showed, for any history of
\* changes: the data is read again under a lock that the write still holds.
THEOREM ShownIsCorrected == AssistantSpec => CorrectsWhatWasShown
<1>1. AssistantInv /\ [AssistantNext]_assistantVars =>
        [\A o \in Prepared :
            performed'[o] > performed[o] /\ pending[o].kind \in ReadLocked
            => facts[pending[o].kind] = pending[o].shown]_assistantVars
  <2> SUFFICES ASSUME AssistantInv, [AssistantNext]_assistantVars, NEW o \in Prepared,
                      performed'[o] > performed[o], pending[o].kind \in ReadLocked
               PROVE  facts[pending[o].kind] = pending[o].shown
    OBVIOUS
  <2> USE DEF AssistantInv
  <2>1. performed[o] = 0 \/ performed[o] = 1
    BY DEF PerformedOnce
  <2>2. performed'[o] > 0
    BY <2>1, TypesStep DEF AssistantTypeOK
  <2>3. PICK m \in Messages : Executing(m, o) /\ Execute(m)
    <3>1. CASE performed[o] > 0
      <4>1. pending[o].status = "EXECUTED"
        BY <3>1 DEF PerformedOnce
      <4>2. UNCHANGED performed \/ \E m \in Messages : Execute(m)
        BY DEF AssistantNext, Send, Repeat, End, StartPrepare, StartConfirm, Save, Check,
           GiveUp, Undo, Lapse, ChangeFacts, assistantVars
      <4>3. PICK m \in Messages : Execute(m)
        BY <2>1, <4>2
      <4>4. tool[m].found = o
        BY <2>1, <4>3 DEF Execute, AssistantTypeOK
      <4> QED
        BY <4>1, <4>3, <4>4 DEF Execute, RowsHeld
    <3>2. CASE ~(performed[o] > 0)
      BY <2>2, <3>2, DoneStays
    <3> QED
      BY <3>1, <3>2
  <2>4. tool[m].read = facts[pending[o].kind]
    BY <2>3 DEF ReadsStand, Executing
  <2>5. tool[m].read = pending[o].shown
    BY <2>3 DEF Execute, Executing, Changed, Rechecked, ReadLocked
  <2> QED
    BY <2>4, <2>5
<1> QED
  BY <1>1, AssistantAlways, PTL DEF AssistantSpec, CorrectsWhatWasShown

-----------------------------------------------------------------------------
(* The assistant implements Consent.                                       *)

\* What a prepare tool is about to save was so when it read it.
SavesRead ==
    \A m \in Messages : tool[m].step = "save" => tool[m].read \in 0..facts[tool[m].kind]

LEMMA SavesReadStep ==
    ASSUME AssistantInv, SavesRead, [AssistantNext]_assistantVars
    PROVE  SavesRead'
<1> USE DEF AssistantInv, AssistantTypeOK
<1>1. ASSUME NEW m \in Messages, NEW k \in Operations, StartPrepare(m, k)
      PROVE  SavesRead'
  <2>1. k \in Kinds /\ facts[k] \in Nat
    BY AssistantAssumption
  <2>2. /\ UNCHANGED facts
        /\ tool' = [tool EXCEPT ![m] = [step |-> "save", found |-> Found, kind |-> k,
                                        late |-> FALSE, read |-> facts[k]]]
    BY <1>1 DEF StartPrepare
  <2> QED
    BY <2>1, <2>2 DEF SavesRead
<1>2. ASSUME UNCHANGED facts,
             \A m \in Messages : tool'[m] = tool[m] \/ tool'[m].step # "save"
      PROVE  SavesRead'
  BY <1>2 DEF SavesRead
<1>3. ASSUME NEW m \in Messages, NEW k \in Operations, StartConfirm(m, k)
      PROVE  SavesRead'
  BY <1>2, <1>3 DEF StartConfirm
<1>4. ASSUME NEW m \in Messages, NEW o \in Prepared, Save(m, o)
      PROVE  SavesRead'
  BY <1>2, <1>4 DEF Save, NoCall
<1>5. ASSUME NEW m \in Messages, Check(m)
      PROVE  SavesRead'
  <2>1. tool[m] \in Call /\ tool \in [Messages -> Call]
    BY DEF AssistantTypeOK
  <2>2. UNCHANGED facts
    BY <1>5 DEF Check
  <2>3. tool'[m].step # "save"
    <3>1. CASE tool' = [tool EXCEPT ![m] = NoCall]
      BY <3>1 DEF NoCall
    <3>2. CASE tool' # [tool EXCEPT ![m] = NoCall]
      <4> DEFINE k == pending[tool[m].found].kind
      <4>1. tool' = [tool EXCEPT ![m] = [tool[m] EXCEPT !.step = "execute", !.read = facts[k]]]
        BY <1>5, <3>2 DEF Check
      <4> HIDE DEF k
      <4> QED
        BY <2>1, <4>1 DEF Call
    <3> QED
      BY <3>1, <3>2
  <2>4. \A n \in Messages : n # m => tool'[n] = tool[n]
    BY <1>5 DEF Check
  <2> QED
    BY <1>2, <2>2, <2>3, <2>4
<1>6. ASSUME NEW m \in Messages, GiveUp(m) \/ Execute(m) \/ Undo(m)
      PROVE  SavesRead'
  BY <1>2, <1>6 DEF GiveUp, Execute, Undo, NoCall
<1>7. ASSUME NEW k \in Operations, ChangeFacts(k)
      PROVE  SavesRead'
  <2>1. /\ UNCHANGED tool /\ \A j \in Kinds : facts[j] \in Nat /\ facts'[j] \in Nat
                                              /\ facts[j] <= facts'[j]
    BY <1>7, AssistantAssumption DEF ChangeFacts
  <2>2. \A m \in Messages : tool[m].kind \in Kinds /\ tool[m].read \in Nat
    BY DEF Call
  <2> QED
    BY <2>1, <2>2 DEF SavesRead
<1>8. CASE UNCHANGED <<tool, facts>>
  BY <1>2, <1>8
<1>9. \/ UNCHANGED <<tool, facts>>
      \/ \E m \in Messages, k \in Operations : StartPrepare(m, k) \/ StartConfirm(m, k)
      \/ \E m \in Messages, o \in Prepared : Save(m, o)
      \/ \E m \in Messages : Check(m) \/ GiveUp(m) \/ Execute(m) \/ Undo(m)
      \/ \E k \in Operations : ChangeFacts(k)
  BY DEF AssistantNext, Send, Repeat, End, Lapse, assistantVars
<1> QED
  BY <1>1, <1>3, <1>4, <1>5, <1>6, <1>7, <1>8, <1>9

\* What became of an operation is what its row says, since it is performed once.
LEMMA LifeIs ==
    ASSUME AssistantTypeOK, PerformedOnce, NEW o \in Prepared
    PROVE  /\ lifeOf[o] = "done" <=> pending[o].status = "EXECUTED"
           /\ lifeOf[o] = "waiting" <=> pending[o].status = "PENDING"
           /\ lifeOf[o] = "none" <=> pending[o].status = "none"
           /\ lifeOf[o] = "dropped" <=> pending[o].status \in {"SUPERSEDED", "EXPIRED"}
<1>1. pending[o].status \in {"none", "PENDING", "EXECUTED", "SUPERSEDED", "EXPIRED"}
  BY DEF AssistantTypeOK, PendingRow
<1>2. performed[o] = IF pending[o].status = "EXECUTED" THEN 1 ELSE 0
  BY DEF PerformedOnce
<1> QED
  BY <1>1, <1>2 DEF lifeOf

LEMMA LifeIsNext ==
    ASSUME AssistantTypeOK', PerformedOnce', NEW o \in Prepared
    PROVE  /\ lifeOf'[o] = "done" <=> pending'[o].status = "EXECUTED"
           /\ lifeOf'[o] = "waiting" <=> pending'[o].status = "PENDING"
           /\ lifeOf'[o] = "none" <=> pending'[o].status = "none"
           /\ lifeOf'[o] = "dropped" <=> pending'[o].status \in {"SUPERSEDED", "EXPIRED"}
<1>1. pending'[o].status \in {"none", "PENDING", "EXECUTED", "SUPERSEDED", "EXPIRED"}
  BY DEF AssistantTypeOK, PendingRow
<1>2. performed'[o] = IF pending'[o].status = "EXECUTED" THEN 1 ELSE 0
  BY DEF PerformedOnce
<1> QED
  BY <1>1, <1>2 DEF lifeOf

\* What a row shows never changes once it is there.
LEMMA RowsStay ==
    ASSUME AssistantInv, [AssistantNext]_assistantVars, NEW o \in Prepared,
           pending[o].status # "none"
    PROVE  /\ pending'[o].status # "none" /\ pending'[o].kind = pending[o].kind
           /\ pending'[o].shown = pending[o].shown /\ pending'[o].request = pending[o].request
           /\ pending'[o].trigger = pending[o].trigger
<1> USE DEF AssistantInv, AssistantTypeOK
<1>0. pending[o] \in PendingRow
  OBVIOUS
<1>1. CASE UNCHANGED pending
  BY <1>1
<1>2. ASSUME NEW m \in Messages, NEW p \in Prepared, Save(m, p)
      PROVE  pending'[o] = pending[o]
             \/ pending'[o] = [pending[o] EXCEPT !.status = "SUPERSEDED"]
  <2>1. p # o
    BY <1>2 DEF Save
  <2> QED
    BY <1>2, <2>1 DEF Save, Superseded
<1>3. ASSUME NEW m \in Messages, Check(m) \/ GiveUp(m) \/ Undo(m)
      PROVE  pending'[o] = pending[o] \/ pending'[o] = [pending[o] EXCEPT !.status = "EXPIRED"]
  BY <1>3 DEF Check, GiveUp, Undo
<1>4. ASSUME NEW m \in Messages, Execute(m)
      PROVE  pending'[o] = pending[o] \/ pending'[o] = [pending[o] EXCEPT !.status = "EXECUTED"]
  BY <1>4 DEF Execute, Done
<1>5. ASSUME NEW p \in Prepared, Lapse(p)
      PROVE  pending'[o] = pending[o] \/ pending'[o] = [pending[o] EXCEPT !.expired = TRUE]
  BY <1>5 DEF Lapse
<1>6. ASSUME \/ pending'[o] = pending[o]
             \/ \E s \in {"SUPERSEDED", "EXPIRED", "EXECUTED"} :
                    pending'[o] = [pending[o] EXCEPT !.status = s]
             \/ pending'[o] = [pending[o] EXCEPT !.expired = TRUE]
      PROVE  /\ pending'[o].status # "none" /\ pending'[o].kind = pending[o].kind
             /\ pending'[o].shown = pending[o].shown
             /\ pending'[o].request = pending[o].request
             /\ pending'[o].trigger = pending[o].trigger
  BY <1>0, <1>6 DEF PendingRow
<1>7. \/ UNCHANGED pending
      \/ \E m \in Messages, p \in Prepared : Save(m, p)
      \/ \E m \in Messages : Check(m) \/ GiveUp(m) \/ Execute(m) \/ Undo(m)
      \/ \E p \in Prepared : Lapse(p)
  BY DEF AssistantNext, Send, Repeat, End, StartPrepare, StartConfirm, ChangeFacts, assistantVars
<1> QED
  BY <1>1, <1>2, <1>3, <1>4, <1>5, <1>6, <1>7

\* A yes is never taken back.
LEMMA AgreementsStay ==
    ASSUME AssistantInv, AssistantInv', [AssistantNext]_assistantVars
    PROVE  Promise!Agree
<1>1. ASSUME NEW o \in agreedTo
      PROVE  o \in agreedTo'
  <2>1. o \in Prepared /\ pending[o].status # "none"
    BY DEF agreedTo
  <2>2. PICK m \in Messages : m # pending[o].request /\ Confirms(o, m)
    BY DEF agreedTo
  <2> DEFINE b == message[m].before
  <2>3. b \in Messages /\ message[m].state # "none" /\ message[b].state = "answered"
    BY <2>2 DEF Confirms, AssistantInv, TurnsFollow, AssistantTypeOK, Message
  <2>4. /\ message'[m].text = message[m].text /\ message'[m].before = b
        /\ message'[b].text = message[b].text
    BY <2>3, SentStays
  <2>5. /\ pending'[o].status # "none" /\ pending'[o].request = pending[o].request
        /\ pending'[o].trigger = pending[o].trigger
    BY <2>1, RowsStay
  <2> QED
    BY <2>1, <2>2, <2>4, <2>5 DEF agreedTo, Confirms
<1>2. ASSUME NEW o \in agreedTo'
      PROVE  lifeOf'[o] # "none"
  BY <1>2, LifeIsNext DEF agreedTo, AssistantInv
<1> QED
  BY <1>1, <1>2 DEF Promise!Agree

\* Every step is a step of Consent, or none.
LEMMA AssistantConsents ==
    ASSUME AssistantInv, AssistantInv', SavesRead, [AssistantNext]_assistantVars
    PROVE  Promise!CNext \/ UNCHANGED Promise!cvars
<1> DEFINE subjectOf == [o \in Prepared |-> pending[o].kind]
           shownOf == [o \in Prepared |-> pending[o].shown]
<1>0. Promise!Agree
  BY AgreementsStay
<1>1. AssistantTypeOK /\ PerformedOnce /\ AssistantTypeOK' /\ PerformedOnce'
  BY DEF AssistantInv
<1>2. ASSUME UNCHANGED <<lifeOf, subjectOf, shownOf, facts>>
      PROVE  Promise!CNext
  BY <1>0, <1>2 DEF Promise!CNext
<1>3. ASSUME UNCHANGED <<pending, performed, facts>>
      PROVE  Promise!CNext
  BY <1>2, <1>3 DEF lifeOf
<1>4. ASSUME NEW m \in Messages, NEW o \in Prepared, Save(m, o)
      PROVE  Promise!CNext
  <2>0. PICK k \in Kinds : k = tool[m].kind
    BY <1>1 DEF AssistantTypeOK, Call
  <2> DEFINE p == tool[m].found
             row == [status |-> "PENDING", kind |-> k, request |-> m,
                     trigger |-> message[m].text, expired |-> FALSE, shown |-> tool[m].read]
  <2>1. CASE Collides(p)
    BY <1>3, <1>4, <2>1 DEF Save
  <2>2. CASE ~Collides(p)
    <3>1. /\ pending' = [Superseded(p) EXCEPT ![o] = row] /\ pending[o].status = "none"
          /\ UNCHANGED <<facts, performed>>
      BY <1>4, <2>0, <2>2 DEF Save
    <3>2. pending'[o] = row
      BY <3>1 DEF Superseded
    <3>3. ASSUME NEW q \in Prepared, q # o
          PROVE  pending'[q] = IF Waiting(q) THEN [pending[q] EXCEPT !.status = "SUPERSEDED"]
                               ELSE pending[q]
      BY <2>2, <3>1, <3>3 DEF Superseded, Collides
    <3>4. lifeOf[o] = "none" /\ lifeOf'[o] = "waiting"
      BY <1>1, <3>1, <3>2, LifeIs, LifeIsNext
    <3>5. ASSUME NEW q \in Prepared, q # o
          PROVE  lifeOf'[q] = IF lifeOf[q] = "waiting" THEN "dropped" ELSE lifeOf[q]
      <4>1. CASE Waiting(q)
        <5>1. pending[q] \in PendingRow
          BY <1>1 DEF AssistantTypeOK
        <5>2. pending'[q].status = "SUPERSEDED"
          BY <3>3, <3>5, <4>1, <5>1 DEF PendingRow
        <5> QED
          BY <1>1, <4>1, <5>2, LifeIs, LifeIsNext DEF Waiting
      <4>2. CASE ~Waiting(q)
        <5>1. pending'[q] = pending[q] /\ performed'[q] = performed[q]
          BY <3>1, <3>3, <3>5, <4>2
        <5>2. lifeOf'[q] = lifeOf[q]
          BY <5>1 DEF lifeOf
        <5> QED
          BY <1>1, <4>2, <5>2, LifeIs DEF Waiting
      <4> QED
        BY <4>1, <4>2
    <3>6. lifeOf' = [q \in Prepared |-> IF q = o THEN "waiting"
                                        ELSE IF lifeOf[q] = "waiting" THEN "dropped"
                                        ELSE lifeOf[q]]
      <4>1. lifeOf' = [q \in Prepared |-> lifeOf'[q]]
        BY DEF lifeOf
      <4> QED
        BY <3>4, <3>5, <4>1
    <3>7. /\ subjectOf' = [subjectOf EXCEPT ![o] = k]
          /\ shownOf' = [shownOf EXCEPT ![o] = tool[m].read]
      <4>1. ASSUME NEW q \in Prepared, q # o
            PROVE  pending'[q].kind = pending[q].kind /\ pending'[q].shown = pending[q].shown
        BY <1>1, <3>3, <4>1 DEF AssistantTypeOK, PendingRow
      <4>2. pending'[o].kind = k /\ pending'[o].shown = tool[m].read
        BY <3>2
      <4> HIDE DEF p, row
      <4>3. \A q \in Prepared :
                /\ pending'[q].kind = IF q = o THEN k ELSE pending[q].kind
                /\ pending'[q].shown = IF q = o THEN tool[m].read ELSE pending[q].shown
        BY <4>1, <4>2
      <4>4. subjectOf' = [q \in Prepared |-> IF q = o THEN k ELSE pending[q].kind]
        BY <4>3
      <4>5. shownOf' = [q \in Prepared |-> IF q = o THEN tool[m].read ELSE pending[q].shown]
        BY <4>3
      <4> QED
        BY <4>4, <4>5
    <3>8. tool[m].read \in 0..facts[k]
      BY <1>4, <2>0 DEF Save, SavesRead
    <3>9. Promise!Offer(o, k)
      BY <3>1, <3>4, <3>6, <3>7, <3>8 DEF Promise!Offer
    <3> QED
      BY <1>0, <3>9 DEF Promise!CNext
  <2> QED
    BY <2>1, <2>2
\* One row changes its status, and what it shows stays.
<1>5. ASSUME NEW o \in Prepared, NEW s \in {"EXPIRED", "EXECUTED"},
             pending' = [pending EXCEPT ![o].status = s], pending[o].status = "PENDING"
      PROVE  /\ UNCHANGED <<subjectOf, shownOf>>
             /\ lifeOf' = [lifeOf EXCEPT ![o] = IF s = "EXPIRED" THEN "dropped" ELSE "done"]
             /\ lifeOf[o] = "waiting"
  <2>1. \A q \in Prepared : /\ pending[q] \in PendingRow
                            /\ pending'[q] = IF q = o THEN [pending[q] EXCEPT !.status = s]
                                             ELSE pending[q]
    BY <1>1, <1>5 DEF AssistantTypeOK
  <2>2. \A q \in Prepared : pending'[q].kind = pending[q].kind
                            /\ pending'[q].shown = pending[q].shown
    BY <2>1 DEF PendingRow
  <2>3. pending'[o].status = s
    BY <2>1 DEF PendingRow
  <2>4. ASSUME NEW q \in Prepared, q # o
        PROVE  lifeOf'[q] = lifeOf[q]
    <3>1. pending'[q] = pending[q]
      BY <2>1, <2>4
    <3>2. performed'[q] = performed[q]
      BY <1>1, <3>1 DEF PerformedOnce
    <3> QED
      BY <3>1, <3>2 DEF lifeOf
  <2>5. /\ lifeOf[o] = "waiting"
        /\ lifeOf'[o] = IF s = "EXPIRED" THEN "dropped" ELSE "done"
    BY <1>1, <1>5, <2>3, LifeIs, LifeIsNext
  <2>6. lifeOf' = [q \in Prepared |-> lifeOf'[q]] /\ lifeOf = [q \in Prepared |-> lifeOf[q]]
    BY DEF lifeOf
  <2> QED
    BY <2>2, <2>4, <2>5, <2>6
<1>6. ASSUME NEW o \in Prepared, pending' = [pending EXCEPT ![o].status = "EXPIRED"],
             pending[o].status = "PENDING", UNCHANGED facts
      PROVE  Promise!CNext
  <2>1. Promise!Drop(o)
    BY <1>5, <1>6 DEF Promise!Drop
  <2> QED
    BY <1>0, <2>1 DEF Promise!CNext
<1>7. ASSUME NEW m \in Messages, Check(m)
      PROVE  Promise!CNext
  <2> DEFINE o == tool[m].found
  <2>1. o \in Prepared /\ UNCHANGED <<facts, performed>>
    BY <1>7 DEF Check, AssistantInv, RowsHeld
  <2>2. \/ UNCHANGED pending
        \/ pending' = [pending EXCEPT ![o].status = "EXPIRED"] /\ Waiting(o)
    BY <1>7 DEF Check
  <2> QED
    BY <1>3, <1>6, <2>1, <2>2 DEF Waiting
<1>8. ASSUME NEW m \in Messages, GiveUp(m)
      PROVE  Promise!CNext
  <2> DEFINE o == tool[m].found
  <2>1. o \in Prepared /\ pending[o].status = "PENDING" /\ UNCHANGED <<facts, performed>>
    BY <1>8 DEF GiveUp, AssistantInv, RowsHeld
  <2>2. UNCHANGED pending \/ pending' = [pending EXCEPT ![o].status = "EXPIRED"]
    BY <1>8 DEF GiveUp
  <2> QED
    BY <1>3, <1>6, <2>1, <2>2
<1>9. ASSUME NEW m \in Messages, Execute(m)
      PROVE  Promise!CNext
  <2> DEFINE o == tool[m].found
  <2>1. /\ o \in Prepared /\ pending[o].status = "PENDING" /\ UNCHANGED facts
        /\ pending' = [pending EXCEPT ![o].status = "EXECUTED"]
        /\ Executing(m, o)
    BY <1>9 DEF Execute, Done, AssistantInv, RowsHeld, Executing
  <2>2. o \in agreedTo
    <3>1. Answers(m, o)
      BY <2>1 DEF AssistantInv, YesStands
    <3> QED
      BY <2>1, <3>1 DEF Answers, agreedTo, Confirms
  <2>3. ASSUME pending[o].kind \in ReadLocked
        PROVE  pending[o].shown = facts[pending[o].kind]
    <3>1. tool[m].read = facts[pending[o].kind]
      BY <2>1, <2>3 DEF AssistantInv, ReadsStand, Executing
    <3>2. tool[m].read = pending[o].shown
      BY <1>9, <2>3 DEF Execute, Changed, ReadLocked, Rechecked
    <3> QED
      BY <3>1, <3>2
  <2>4. Promise!Do(o)
    BY <1>5, <2>1, <2>2, <2>3 DEF Promise!Do
  <2> QED
    BY <1>0, <2>1, <2>4 DEF Promise!CNext
<1>10. ASSUME NEW o \in Prepared, Lapse(o)
       PROVE  Promise!CNext
  <2>1. \A q \in Prepared : /\ pending'[q].status = pending[q].status
                            /\ pending'[q].kind = pending[q].kind
                            /\ pending'[q].shown = pending[q].shown
    <3>1. \A q \in Prepared : /\ pending[q] \in PendingRow
                              /\ pending'[q] = IF q = o THEN [pending[q] EXCEPT !.expired = TRUE]
                                               ELSE pending[q]
      BY <1>1, <1>10 DEF AssistantTypeOK, Lapse
    <3> QED
      BY <3>1 DEF PendingRow
  <2>2. UNCHANGED <<performed, facts>>
    BY <1>10 DEF Lapse
  <2>3. UNCHANGED <<lifeOf, subjectOf, shownOf>>
    BY <2>1, <2>2 DEF lifeOf
  <2> QED
    BY <1>2, <2>2, <2>3
<1>11. ASSUME NEW k \in Operations, ChangeFacts(k)
       PROVE  Promise!CNext
  <2>1. k \in Kinds /\ facts' = [facts EXCEPT ![k] = @ + 1] /\ UNCHANGED <<pending, performed>>
    BY <1>11, AssistantAssumption DEF ChangeFacts
  <2>2. Promise!Happen(k)
    BY <2>1 DEF Promise!Happen, lifeOf
  <2> QED
    BY <1>0, <2>1, <2>2 DEF Promise!CNext
<1>12. \/ UNCHANGED <<pending, performed, facts>>
       \/ \E m \in Messages, o \in Prepared : Save(m, o)
       \/ \E m \in Messages : Check(m) \/ GiveUp(m) \/ Execute(m)
       \/ \E o \in Prepared : Lapse(o)
       \/ \E k \in Operations : ChangeFacts(k)
  BY DEF AssistantNext, Send, Repeat, End, StartPrepare, StartConfirm, Undo, assistantVars
<1> QED
  BY <1>3, <1>4, <1>7, <1>8, <1>9, <1>10, <1>11, <1>12

\* Assistant implements Consent, for any number of chats, messages and
\* operations: one operation waits at a time, it is done once and after a yes,
\* exactly as it was shown where it is archived or corrected, and never again.
THEOREM WordIsKept == AssistantSpec => KeepsItsWord
<1>1. AssistantInit => Promise!CInit
  <2> SUFFICES ASSUME AssistantInit
               PROVE  Promise!CInit
    OBVIOUS
  <2>1. \A o \in Prepared : /\ pending[o].status = "none" /\ pending[o].kind \in Kinds
                            /\ pending[o].shown = 0 /\ performed[o] = 0
    BY DEF AssistantInit, NotPrepared, Kinds
  <2>2. lifeOf = [o \in Prepared |-> "none"]
    BY <2>1 DEF lifeOf
  <2>3. agreedTo = {}
    BY <2>1 DEF agreedTo
  <2> QED
    BY <2>1, <2>2, <2>3 DEF Promise!CInit, AssistantInit
<1>2. AssistantInit => SavesRead
  BY DEF AssistantInit, SavesRead, NoCall
<1>3. AssistantInv /\ SavesRead /\ [AssistantNext]_assistantVars => SavesRead'
  BY SavesReadStep
<1>4. AssistantInv /\ AssistantInv' /\ SavesRead /\ [AssistantNext]_assistantVars
        => [Promise!CNext]_(Promise!cvars)
  BY AssistantConsents
<1> QED
  BY <1>1, <1>2, <1>3, <1>4, AssistantAlways, PTL DEF AssistantSpec, KeepsItsWord, Promise!CSpec

-----------------------------------------------------------------------------
\* The orders of the sales agent.

\* Items that would become an order of their own.
Fresh(c) == c.items # Nothing /\ c.amends = NoOrder

\* A cart that somebody holds, or that is kept, has its operation id.
OpsKnown ==
    /\ cart # NoCart => cart.op \in Orders
    /\ \A t \in Turns : turn[t].step # "idle" => turn[t].cart.op \in Orders

\* Two copies of a purchase that is not an order yet have one operation id.
OneOpPerPurchase ==
    \A c, d \in CartsAround : Fresh(c) /\ Fresh(d) /\ c.purchase = d.purchase => c.op = d.op

\* The order of a purchase that a cart still holds has the cart's operation id.
OrderOfItsCart ==
    \A c \in CartsAround, o \in Orders :
        Fresh(c) /\ orders[o] # NoRow /\ orders[o].purchase = c.purchase => o = c.op

\* What a request of the shop carries: an order that exists, and a change of
\* state that is allowed or a ticket to link.
ErrandsKnow ==
    \A c \in Clerks : clerk[c].step # "idle" =>
        /\ clerk[c].order \in Orders /\ orders[clerk[c].order] # NoRow
        /\ IF clerk[c].to = "none" THEN clerk[c].ticket \in Tickets
           ELSE clerk[c].ticket = NoTicket /\ <<clerk[c].status, clerk[c].to>> \in Transitions

\* A request that will take its order out of the ticket it is in, and one that
\* will not look at it again, have an order that no live ticket holds, unless it
\* was linked since the request read it.
Loose(e) == \/ e.step = "update" /\ (e.to = "pending" \/ e.ticket # NoTicket)
            \/ e.step = "check" /\ e.was = NoTicket

LinksStand ==
    \A c \in Clerks : Loose(clerk[c]) /\ ~clerk[c].raced =>
        orders[clerk[c].order].ticket \notin live

SellerInv ==
    /\ SellerTypeOK /\ OpsKnown /\ OneOpPerPurchase /\ OrderOfItsCart /\ OneOrderPerPurchase
    /\ ErrandsKnow /\ LinksStand /\ TicketFitsOrder

LEMMA SellerInit_Inv == SellerInit => SellerInv
<1> SUFFICES ASSUME SellerInit PROVE SellerInv
    OBVIOUS
<1> USE SellerAssumption DEF SellerInit
<1>1. SellerTypeOK
    BY DEF SellerTypeOK, SellerCart, OrderRow, Errand, NoCart, NoRow, NoTurn, NoErrand,
           Orders, NoOrder, NoPurchase
<1>2. \A c \in CartsAround : ~Fresh(c)
    BY DEF CartsAround, Fresh, NoCart, NoTurn
<1>3. OpsKnown /\ ErrandsKnow
    BY DEF OpsKnown, ErrandsKnow, NoTurn, NoErrand
<1>4. LinksStand
    BY DEF LinksStand, Loose, NoErrand
<1>5. OneOrderPerPurchase /\ TicketFitsOrder
    BY DEF OneOrderPerPurchase, TicketFitsOrder, NoRow
<1>6. QED
    BY <1>1, <1>2, <1>3, <1>4, <1>5 DEF SellerInv, OneOpPerPurchase, OrderOfItsCart

\* A step whose carts hold nothing new, and whose orders keep their purchases.
LEMMA CartsKept ==
    ASSUME OneOpPerPurchase, OrderOfItsCart, OneOrderPerPurchase,
           \A d \in CartsAround' : Fresh(d) =>
              \E c \in CartsAround : Fresh(c) /\ c.op = d.op /\ c.purchase = d.purchase,
           \A o \in Orders : orders'[o] # NoRow =>
              orders[o] # NoRow /\ orders'[o].purchase = orders[o].purchase
    PROVE  OneOpPerPurchase' /\ OrderOfItsCart' /\ OneOrderPerPurchase'
<1>1. OneOpPerPurchase'
    <2> SUFFICES ASSUME NEW d \in CartsAround', NEW e \in CartsAround', Fresh(d), Fresh(e),
                        d.purchase = e.purchase
                 PROVE  d.op = e.op
        BY DEF OneOpPerPurchase, Fresh
    <2>1. PICK c \in CartsAround : Fresh(c) /\ c.op = d.op /\ c.purchase = d.purchase
        OBVIOUS
    <2>2. PICK b \in CartsAround : Fresh(b) /\ b.op = e.op /\ b.purchase = e.purchase
        OBVIOUS
    <2>3. QED
        BY <2>1, <2>2 DEF OneOpPerPurchase
<1>2. OrderOfItsCart'
    <2> SUFFICES ASSUME NEW d \in CartsAround', NEW o \in Orders, Fresh(d),
                        orders'[o] # NoRow, orders'[o].purchase = d.purchase
                 PROVE  o = d.op
        BY DEF OrderOfItsCart, Fresh
    <2>1. PICK c \in CartsAround : Fresh(c) /\ c.op = d.op /\ c.purchase = d.purchase
        OBVIOUS
    <2>2. QED
        BY <2>1 DEF OrderOfItsCart
<1>3. OneOrderPerPurchase'
    BY DEF OneOrderPerPurchase
<1>4. QED
    BY <1>1, <1>2, <1>3

\* A turn that becomes e: the carts are those there were, and e's.
LEMMA TurnBecomes ==
    ASSUME SellerTypeOK, NEW t \in Turns, NEW e, cart' = cart \/ cart' = turn[t].cart,
           turn' = [turn EXCEPT ![t] = e]
    PROVE  CartsAround' \subseteq CartsAround \cup {e.cart}
BY DEF CartsAround, SellerTypeOK

\* Steps that leave the orders and the tickets alone keep what is about them.
LEMMA OrdersUntouched ==
    ASSUME ErrandsKnow, LinksStand, TicketFitsOrder, UNCHANGED <<orders, clerk, live>>
    PROVE  ErrandsKnow' /\ LinksStand' /\ TicketFitsOrder'
BY DEF ErrandsKnow, LinksStand, TicketFitsOrder, Loose

\* Steps of the shop leave the carts and the purchases of the orders alone.
LEMMA CartsUntouched ==
    ASSUME OpsKnown, OneOpPerPurchase, OrderOfItsCart, OneOrderPerPurchase,
           UNCHANGED <<cart, turn>>,
           \A o \in Orders : orders'[o] # NoRow =>
              orders[o] # NoRow /\ orders'[o].purchase = orders[o].purchase
    PROVE  OpsKnown' /\ OneOpPerPurchase' /\ OrderOfItsCart' /\ OneOrderPerPurchase'
<1>1. CartsAround' = CartsAround
    BY DEF CartsAround
<1>2. OneOpPerPurchase' /\ OrderOfItsCart' /\ OneOrderPerPurchase'
    BY <1>1, CartsKept
<1>3. QED
    BY <1>2 DEF OpsKnown

LEMMA NoTurnType ==
    /\ NoTurn \in [step : {"idle", "read", "write"}, cart : SellerCart]
    /\ NoCart \in SellerCart /\ ~Fresh(NoCart) /\ NoTurn.cart = NoCart /\ NoTurn.step = "idle"
BY DEF NoTurn, NoCart, SellerCart, NoOrder, NoPurchase, Fresh

-----------------------------------------------------------------------------
LEMMA ReadCart_Inv ==
    ASSUME SellerInv, NEW t \in Turns, NEW o \in Orders, ReadCart(t, o) PROVE SellerInv'
<1> DEFINE e == [step |-> "read", cart |-> IF cart = NoCart THEN [NoCart EXCEPT !.op = o]
                                           ELSE cart]
<1> USE DEF SellerInv, ReadCart
<1>0. SellerTypeOK
    OBVIOUS
<1>1. /\ e.cart \in SellerCart /\ e.cart.op \in Orders /\ e.step = "read"
      /\ Fresh(e.cart) => e.cart = cart
      /\ e \in [step : {"idle", "read", "write"}, cart : SellerCart]
    <2>1. CASE cart = NoCart
        BY <2>1 DEF SellerCart, NoCart, Fresh, NoOrder, NoPurchase
    <2>2. CASE cart # NoCart
        BY <2>2, <1>0 DEF SellerTypeOK, OpsKnown
    <2>3. QED
        BY <2>1, <2>2
<1> HIDE DEF e
<1>2. turn' = [turn EXCEPT ![t] = e] /\ UNCHANGED <<cart, orders, clerk, live>>
    BY DEF e
<1>3. SellerTypeOK'
    BY <1>0, <1>1, <1>2 DEF SellerTypeOK
<1>4. OpsKnown'
    BY <1>0, <1>1, <1>2 DEF OpsKnown, SellerTypeOK
<1>5. CartsAround' \subseteq CartsAround \cup {e.cart} /\ cart \in CartsAround
    <2>1. CartsAround' \subseteq CartsAround \cup {e.cart}
        BY <1>0, <1>2, TurnBecomes
    <2>2. QED
        BY <2>1 DEF CartsAround
<1>6. OneOpPerPurchase' /\ OrderOfItsCart' /\ OneOrderPerPurchase'
    BY <1>1, <1>2, <1>5, CartsKept
<1>7. ErrandsKnow' /\ LinksStand' /\ TicketFitsOrder'
    BY <1>2, OrdersUntouched
<1>8. QED
    BY <1>3, <1>4, <1>6, <1>7

LEMMA WriteItems_Inv ==
    ASSUME SellerInv, NEW t \in Turns, NEW w \in Wishes \cup {Nothing}, NEW p \in Orders,
           WriteItems(t, w, p)
    PROVE  SellerInv'
<1> DEFINE c == turn[t].cart
           d == [c EXCEPT !.items = w, !.purchase = PurchaseOf(c, w, p)]
<1> USE DEF SellerInv, WriteItems
<1>0. SellerTypeOK /\ c \in SellerCart /\ c \in CartsAround /\ c.op \in Orders
    BY DEF SellerTypeOK, CartsAround, OpsKnown
<1>1. /\ d \in SellerCart /\ d.op = c.op /\ d.items = w /\ d.amends = c.amends
      /\ d.purchase = PurchaseOf(c, w, p)
    BY <1>0 DEF SellerCart, PurchaseOf, NoPurchase
<1>2. /\ cart' = d /\ turn' = [turn EXCEPT ![t] = NoTurn]
      /\ UNCHANGED <<orders, clerk, live>> /\ p \in UnusedPurchases
    BY DEF Least
<1> HIDE DEF c, d
<1>3. SellerTypeOK'
    BY <1>0, <1>1, <1>2, NoTurnType DEF SellerTypeOK
<1>4. OpsKnown'
    BY <1>0, <1>1, <1>2, NoTurnType DEF OpsKnown, SellerTypeOK
<1>5. CartsAround' \subseteq CartsAround \cup {d, NoCart}
    BY <1>0, <1>2, NoTurnType DEF CartsAround, SellerTypeOK
<1>6. OneOpPerPurchase' /\ OrderOfItsCart' /\ OneOrderPerPurchase'
    <2>1. CASE Fresh(d) => Fresh(c) /\ d.purchase = c.purchase
        BY <1>0, <1>1, <1>2, <1>5, <2>1, NoTurnType, CartsKept
    <2>2. CASE Fresh(d) /\ ~(Fresh(c) /\ d.purchase = c.purchase)
        <3>1. d.purchase = p
            BY <1>1, <2>2 DEF Fresh, PurchaseOf
        <3>2. \A b \in CartsAround : b.purchase # p
            BY <1>2 DEF UnusedPurchases
        <3>3. \A o \in Orders : orders'[o].purchase # p
            BY <1>2 DEF UnusedPurchases
        <3>4. OneOpPerPurchase'
            BY <1>5, <3>1, <3>2, NoTurnType DEF OneOpPerPurchase, Fresh
        <3>5. OrderOfItsCart'
            BY <1>2, <1>5, <3>1, <3>3, NoTurnType DEF OrderOfItsCart, Fresh
        <3>6. OneOrderPerPurchase'
            BY <1>2 DEF OneOrderPerPurchase
        <3>7. QED
            BY <3>4, <3>5, <3>6
    <2>3. QED
        BY <2>1, <2>2
<1>7. ErrandsKnow' /\ LinksStand' /\ TicketFitsOrder'
    BY <1>2, OrdersUntouched
<1>8. QED
    BY <1>3, <1>4, <1>6, <1>7

LEMMA WriteOrLeave_Inv ==
    ASSUME SellerInv, NEW t \in Turns, WriteCart(t) \/ LeaveCart(t) PROVE SellerInv'
<1> USE DEF SellerInv, WriteCart, LeaveCart
<1>0. SellerTypeOK
    OBVIOUS
<1>1. /\ cart' = cart \/ (cart' = turn[t].cart /\ turn[t].step # "idle")
      /\ turn' = [turn EXCEPT ![t] = NoTurn]
      /\ UNCHANGED <<orders, clerk, live>>
    OBVIOUS
<1>2. SellerTypeOK'
    BY <1>0, <1>1, NoTurnType DEF SellerTypeOK
<1>3. OpsKnown'
    BY <1>0, <1>1, NoTurnType DEF OpsKnown, SellerTypeOK
<1>4. CartsAround' \subseteq CartsAround \cup {NoCart}
    BY <1>0, <1>1, NoTurnType, TurnBecomes
<1>5. OneOpPerPurchase' /\ OrderOfItsCart' /\ OneOrderPerPurchase'
    BY <1>1, <1>4, NoTurnType, CartsKept
<1>6. ErrandsKnow' /\ LinksStand' /\ TicketFitsOrder'
    BY <1>1, OrdersUntouched
<1>7. QED
    BY <1>2, <1>3, <1>5, <1>6

LEMMA ForgetCart_Inv == SellerInv /\ ForgetCart => SellerInv'
<1> SUFFICES ASSUME SellerInv, ForgetCart PROVE SellerInv'
    OBVIOUS
<1> USE DEF SellerInv, ForgetCart
<1>1. SellerTypeOK' /\ OpsKnown'
    BY NoTurnType DEF SellerTypeOK, OpsKnown
<1>2. CartsAround' \subseteq CartsAround \cup {NoCart}
    BY DEF CartsAround
<1>3. OneOpPerPurchase' /\ OrderOfItsCart' /\ OneOrderPerPurchase'
    BY <1>2, NoTurnType, CartsKept
<1>4. ErrandsKnow' /\ LinksStand' /\ TicketFitsOrder'
    BY OrdersUntouched
<1>5. QED
    BY <1>1, <1>3, <1>4

-----------------------------------------------------------------------------
\* A turn goes on to write d.
LEMMA TurnWrites ==
    ASSUME SellerTypeOK, OpsKnown, NEW t \in Turns, NEW d \in SellerCart, d.op \in Orders,
           ThenWrites(t, d), UNCHANGED cart
    PROVE  /\ cart' \in SellerCart
           /\ turn' \in [Turns -> [step : {"idle", "read", "write"}, cart : SellerCart]]
           /\ OpsKnown' /\ CartsAround' \subseteq CartsAround \cup {d}
<1> DEFINE e == [step |-> "write", cart |-> d]
<1>1. turn' = [turn EXCEPT ![t] = e] /\ e.cart = d /\ e.step = "write"
    BY DEF ThenWrites
<1>2. e \in [step : {"idle", "read", "write"}, cart : SellerCart]
    OBVIOUS
<1> HIDE DEF e
<1>3. CartsAround' \subseteq CartsAround \cup {d}
    BY <1>1, TurnBecomes
<1>4. QED
    BY <1>1, <1>2, <1>3 DEF SellerTypeOK, OpsKnown

\* The requests of the shop are about orders that are there and whose tickets
\* stay as they are.
LEMMA TicketsUntouched ==
    ASSUME ErrandsKnow, LinksStand, UNCHANGED <<clerk, live>>,
           \A o \in Orders : orders[o] # NoRow =>
              orders'[o] # NoRow /\ orders'[o].ticket = orders[o].ticket
    PROVE  ErrandsKnow' /\ LinksStand'
<1>1. ErrandsKnow'
    BY DEF ErrandsKnow
<1>2. LinksStand'
    BY DEF ErrandsKnow, LinksStand, Loose
<1>3. QED
    BY <1>1, <1>2

\* What the tools go on to write.
LEMMA WhatToolsWrite ==
    ASSUME NEW c \in SellerCart, NEW o \in Orders, NEW n \in Orders
    PROVE  /\ Emptied(o, n) \in SellerCart /\ Emptied(o, n).op = n /\ ~Fresh(Emptied(o, n))
           /\ Released(c) \in SellerCart /\ Released(c).op = c.op
           /\ Fresh(Released(c)) => Released(c) = c
BY DEF Emptied, Released, SellerCart, Fresh, NoCart, NoOrder, NoPurchase, Orders

\* A row that is there: its state says so.
LEMMA RowsThere ==
    \A r \in OrderRow : r.status # "none" => r # NoRow
BY DEF NoRow, OrderRow

LEMMA RecordOrder_Inv ==
    ASSUME SellerInv, NEW t \in Turns, NEW n \in Orders, RecordOrder(t, n) PROVE SellerInv'
<1> DEFINE c == turn[t].cart
           row == [NoRow EXCEPT !.status = "pending", !.items = c.items,
                                !.purchase = c.purchase]
<1> USE DEF SellerInv, RecordOrder
<1>0. SellerTypeOK /\ c \in SellerCart /\ c \in CartsAround /\ c.op \in Orders /\ Fresh(c)
    BY DEF SellerTypeOK, CartsAround, OpsKnown, Fresh
<1>1. /\ row \in OrderRow /\ row.status = "pending" /\ row.ticket = NoTicket
      /\ row.purchase = c.purchase /\ row # NoRow /\ NoRow.ticket = NoTicket
    BY <1>0 DEF SellerCart, OrderRow, NoRow
<1>2. /\ orders' = orders \/ (orders[c.op] = NoRow /\ orders' = [orders EXCEPT ![c.op] = row])
      /\ ThenWrites(t, Emptied(c.op, n)) /\ UNCHANGED <<cart, clerk, live>>
    OBVIOUS
<1> HIDE DEF c, row
<1>3. /\ cart' \in SellerCart
      /\ turn' \in [Turns -> [step : {"idle", "read", "write"}, cart : SellerCart]]
      /\ OpsKnown' /\ CartsAround' \subseteq CartsAround \cup {Emptied(c.op, n)}
    <2>1. Emptied(c.op, n) \in SellerCart /\ Emptied(c.op, n).op \in Orders
        BY <1>0, WhatToolsWrite
    <2>2. QED
        BY <1>0, <1>2, <2>1, TurnWrites
<1>4. SellerTypeOK'
    BY <1>0, <1>1, <1>2, <1>3 DEF SellerTypeOK
<1>5. ~Fresh(Emptied(c.op, n))
    BY <1>0, WhatToolsWrite
<1>6. CASE orders' = orders
    <2>1. OneOpPerPurchase' /\ OrderOfItsCart' /\ OneOrderPerPurchase'
        BY <1>3, <1>5, <1>6, CartsKept
    <2>2. ErrandsKnow' /\ LinksStand' /\ TicketFitsOrder'
        BY <1>2, <1>6, OrdersUntouched
    <2>3. QED
        BY <1>3, <1>4, <2>1, <2>2
<1>7. CASE orders[c.op] = NoRow /\ orders' = [orders EXCEPT ![c.op] = row]
    <2>1. \A o \in Orders : o # c.op => orders'[o] = orders[o]
        BY <1>0, <1>7 DEF SellerTypeOK
    <2>2. orders'[c.op] = row
        BY <1>0, <1>7 DEF SellerTypeOK
    <2>3. OneOpPerPurchase'
        BY <1>3, <1>5 DEF OneOpPerPurchase, Fresh
    <2>4. OrderOfItsCart'
        <3> SUFFICES ASSUME NEW d \in CartsAround', NEW o \in Orders, Fresh(d),
                            orders'[o] # NoRow, orders'[o].purchase = d.purchase
                     PROVE  o = d.op
            BY DEF OrderOfItsCart, Fresh
        <3>1. d \in CartsAround
            BY <1>3, <1>5
        <3>2. CASE o = c.op
            BY <1>0, <1>1, <2>2, <3>1, <3>2 DEF OneOpPerPurchase
        <3>3. CASE o # c.op
            BY <2>1, <3>1, <3>3 DEF OrderOfItsCart
        <3>4. QED
            BY <3>2, <3>3
    <2>5. OneOrderPerPurchase'
        <3>1. \A q \in Orders : orders[q] # NoRow /\ orders[q].purchase = c.purchase => q = c.op
            BY <1>0 DEF OrderOfItsCart
        <3> SUFFICES ASSUME NEW q \in Orders, NEW o \in Orders, orders'[q] # NoRow,
                            orders'[o] # NoRow, orders'[q].purchase = orders'[o].purchase
                     PROVE  q = o
            BY DEF OneOrderPerPurchase
        <3>2. CASE q # c.op /\ o # c.op
            BY <2>1, <3>2 DEF OneOrderPerPurchase
        <3>3. ASSUME NEW x \in Orders, NEW y \in Orders, x = c.op, y # c.op, orders'[y] # NoRow,
                     orders'[x].purchase = orders'[y].purchase
              PROVE  FALSE
            <4>1. orders[y] = orders'[y]
                BY <2>1, <3>3
            <4>2. orders'[x].purchase = c.purchase
                BY <1>1, <2>2, <3>3
            <4>3. y = c.op
                BY <3>1, <3>3, <4>1, <4>2
            <4>4. QED
                BY <3>3, <4>3
        <3>4. QED
            BY <3>2, <3>3
    <2>6. ErrandsKnow' /\ LinksStand'
        BY <1>2, <1>7, <2>1, TicketsUntouched
    <2>7. TicketFitsOrder'
        BY <1>1, <2>1, <2>2 DEF TicketFitsOrder
    <2>8. QED
        BY <1>3, <1>4, <2>3, <2>4, <2>5, <2>6, <2>7
<1>8. QED
    BY <1>2, <1>6, <1>7

LEMMA AmendOrder_Inv ==
    ASSUME SellerInv, NEW t \in Turns, NEW n \in Orders, AmendOrder(t, n) PROVE SellerInv'
<1> DEFINE c == turn[t].cart
           o == c.amends
<1> USE DEF SellerInv, AmendOrder
<1>0. /\ SellerTypeOK /\ c \in SellerCart /\ c \in CartsAround /\ c.op \in Orders
      /\ o \in Orders /\ c.items \in Wishes \cup {Nothing}
    BY DEF SellerTypeOK, CartsAround, OpsKnown, SellerCart
<1>1. PICK d \in {Emptied(o, n), Released(c)} :
           /\ ThenWrites(t, d) /\ UNCHANGED <<cart, clerk, live>>
           /\ orders' = orders \/ (Amendable(o) /\ orders' = [orders EXCEPT ![o].items = c.items])
    OBVIOUS
<1> HIDE DEF c, o
<1>2. d \in SellerCart /\ d.op \in Orders /\ (Fresh(d) => d = c)
    BY <1>0, WhatToolsWrite
<1>3. /\ cart' \in SellerCart
      /\ turn' \in [Turns -> [step : {"idle", "read", "write"}, cart : SellerCart]]
      /\ OpsKnown' /\ CartsAround' \subseteq CartsAround \cup {d}
    BY <1>0, <1>1, <1>2, TurnWrites
<1>4. SellerTypeOK'
    BY <1>0, <1>1, <1>3, SMTT(30) DEF SellerTypeOK, OrderRow
<1>5. \A q \in Orders : /\ orders'[q].ticket = orders[q].ticket
                        /\ orders'[q].purchase = orders[q].purchase
                        /\ orders'[q].status = orders[q].status
                        /\ orders'[q].held = orders[q].held
                        /\ orders'[q] = orders[q] \/ orders[q].status = "pending"
    BY <1>0, <1>1 DEF SellerTypeOK, OrderRow, Amendable
<1>6. \A q \in Orders : orders'[q] # NoRow <=> orders[q] # NoRow
    BY <1>0, <1>4, <1>5, RowsThere DEF SellerTypeOK
<1>7. OneOpPerPurchase' /\ OrderOfItsCart' /\ OneOrderPerPurchase'
    BY <1>0, <1>2, <1>3, <1>5, <1>6, CartsKept
<1>8. ErrandsKnow' /\ LinksStand'
    BY <1>1, <1>5, <1>6, TicketsUntouched
<1>9. TicketFitsOrder'
    BY <1>5 DEF TicketFitsOrder
<1>10. QED
    BY <1>3, <1>4, <1>7, <1>8, <1>9

LEMMA ReopenOrder_Inv ==
    ASSUME SellerInv, NEW t \in Turns, ReopenOrder(t) PROVE SellerInv'
<1> DEFINE c == turn[t].cart
           o == c.last
           d == [c EXCEPT !.items = orders[o].items, !.amends = o,
                          !.purchase = orders[o].purchase]
<1> USE DEF SellerInv, ReopenOrder
<1>0. /\ SellerTypeOK /\ c \in SellerCart /\ c.op \in Orders /\ o \in Orders
      /\ orders[o] \in OrderRow
    BY DEF SellerTypeOK, CartsAround, OpsKnown, SellerCart
<1>1. ThenWrites(t, d) /\ UNCHANGED <<cart, orders, clerk, live>>
    OBVIOUS
<1>2. d \in SellerCart /\ d.op \in Orders /\ ~Fresh(d)
    BY <1>0 DEF SellerCart, OrderRow, Fresh, NoPurchase, NoOrder, Orders
<1> HIDE DEF c, o, d
<1>3. /\ cart' \in SellerCart
      /\ turn' \in [Turns -> [step : {"idle", "read", "write"}, cart : SellerCart]]
      /\ OpsKnown' /\ CartsAround' \subseteq CartsAround \cup {d}
    BY <1>0, <1>1, <1>2, TurnWrites
<1>4. SellerTypeOK'
    BY <1>0, <1>1, <1>3 DEF SellerTypeOK
<1>5. OneOpPerPurchase' /\ OrderOfItsCart' /\ OneOrderPerPurchase'
    BY <1>1, <1>2, <1>3, CartsKept
<1>6. ErrandsKnow' /\ LinksStand' /\ TicketFitsOrder'
    BY <1>1, OrdersUntouched
<1>7. QED
    BY <1>3, <1>4, <1>5, <1>6

LEMMA CancelOrder_Inv ==
    ASSUME SellerInv, NEW t \in Turns, CancelOrder(t) PROVE SellerInv'
<1> DEFINE c == turn[t].cart
           o == c.last
           d == Released(c)
<1> USE DEF SellerInv, CancelOrder
<1>0. /\ SellerTypeOK /\ c \in SellerCart /\ c \in CartsAround /\ c.op \in Orders
      /\ o \in Orders /\ Amendable(o)
    BY DEF SellerTypeOK, CartsAround, OpsKnown, SellerCart
<1>1. /\ ThenWrites(t, d) /\ UNCHANGED <<cart, clerk, live>>
      /\ orders' = [orders EXCEPT ![o].status = "dismissed"]
    OBVIOUS
<1>2. d \in SellerCart /\ d.op \in Orders /\ (Fresh(d) => d = c)
    BY <1>0, WhatToolsWrite
<1> HIDE DEF c, o, d
<1>3. /\ cart' \in SellerCart
      /\ turn' \in [Turns -> [step : {"idle", "read", "write"}, cart : SellerCart]]
      /\ OpsKnown' /\ CartsAround' \subseteq CartsAround \cup {d}
    BY <1>0, <1>1, <1>2, TurnWrites
<1>4. SellerTypeOK'
    <2>1. [orders[o] EXCEPT !.status = "dismissed"] \in OrderRow
        BY <1>0 DEF SellerTypeOK, OrderRow
    <2>2. QED
        BY <1>0, <1>1, <1>3, <2>1 DEF SellerTypeOK
<1>5. \A q \in Orders : /\ orders'[q].ticket = orders[q].ticket
                        /\ orders'[q].purchase = orders[q].purchase
                        /\ \/ orders'[q] = orders[q]
                           \/ /\ q = o /\ orders'[q].status = "dismissed"
                              /\ orders[q].status = "pending"
                              /\ orders[q].ticket = NoTicket
    BY <1>0, <1>1 DEF SellerTypeOK, OrderRow, Amendable
<1>6. \A q \in Orders : orders'[q] # NoRow <=> orders[q] # NoRow
    BY <1>0, <1>4, <1>5, RowsThere DEF SellerTypeOK
<1>7. OneOpPerPurchase' /\ OrderOfItsCart' /\ OneOrderPerPurchase'
    BY <1>0, <1>2, <1>3, <1>5, <1>6, CartsKept
<1>8. ErrandsKnow' /\ LinksStand'
    BY <1>1, <1>5, <1>6, TicketsUntouched
<1>9. TicketFitsOrder'
    <2> SUFFICES ASSUME NEW q \in Orders
                 PROVE  /\ orders'[q].ticket # NoTicket => orders'[q].status = "taken"
                        /\ orders'[q].status = "taken" => orders'[q].items = orders'[q].held
        BY DEF TicketFitsOrder
    <2>1. CASE orders'[q] = orders[q]
        BY <2>1 DEF TicketFitsOrder
    <2>2. CASE orders'[q] # orders[q]
        BY <1>5, <2>2
    <2>3. QED
        BY <2>1, <2>2
<1>10. QED
    BY <1>3, <1>4, <1>7, <1>8, <1>9

-----------------------------------------------------------------------------
LEMMA ReadOrder_Inv ==
    ASSUME SellerInv, NEW c \in Clerks, NEW o \in Orders,
           NEW to \in {"pending", "taken", "dismissed"}, ReadOrder(c, o, to)
    PROVE  SellerInv'
<1> DEFINE e == [NoErrand EXCEPT !.step = IF orders[o].ticket = NoTicket THEN "update"
                                          ELSE "check",
                                 !.order = o, !.status = orders[o].status,
                                 !.was = orders[o].ticket, !.to = to]
<1> USE SellerAssumption DEF SellerInv, ReadOrder
<1>0. SellerTypeOK /\ orders[o] \in OrderRow
    BY DEF SellerTypeOK
<1>1. /\ e \in Errand /\ e.order = o /\ e.to = to /\ e.ticket = NoTicket
      /\ e.status = orders[o].status /\ e.was = orders[o].ticket
      /\ e.step = "update" => orders[o].ticket = NoTicket
      /\ e.step = "check" => orders[o].ticket # NoTicket
    BY <1>0 DEF Errand, NoErrand, OrderRow
<1>2. /\ clerk' = [clerk EXCEPT ![c] = e] /\ UNCHANGED <<cart, orders, turn, live>>
      /\ <<orders[o].status, to>> \in Transitions
    OBVIOUS
<1> HIDE DEF e
<1>3. SellerTypeOK'
    BY <1>0, <1>1, <1>2 DEF SellerTypeOK
<1>4. orders[o] # NoRow
    BY <1>2 DEF Transitions, NoRow
<1>5. ErrandsKnow'
    <2> SUFFICES ASSUME NEW d \in Clerks, clerk'[d].step # "idle"
                 PROVE  /\ clerk'[d].order \in Orders /\ orders[clerk'[d].order] # NoRow
                        /\ IF clerk'[d].to = "none" THEN clerk'[d].ticket \in Tickets
                           ELSE /\ clerk'[d].ticket = NoTicket
                                /\ <<clerk'[d].status, clerk'[d].to>> \in Transitions
        BY <1>2 DEF ErrandsKnow
    <2>1. CASE d = c
        <3>1. clerk'[d] = e
            BY <1>0, <1>2, <2>1 DEF SellerTypeOK
        <3>2. QED
            BY <1>1, <1>2, <1>4, <3>1
    <2>2. CASE d # c
        BY <1>0, <1>2, <2>2 DEF ErrandsKnow, SellerTypeOK
    <2>3. QED
        BY <2>1, <2>2
<1>6. LinksStand'
    BY <1>0, <1>1, <1>2 DEF LinksStand, SellerTypeOK, Loose
<1>7. OpsKnown' /\ OneOpPerPurchase' /\ OrderOfItsCart' /\ OneOrderPerPurchase'
    BY <1>2, CartsUntouched
<1>8. QED
    BY <1>2, <1>3, <1>5, <1>6, <1>7 DEF TicketFitsOrder

LEMMA NoErrandType == NoErrand \in Errand /\ NoErrand.step = "idle" /\ ~Loose(NoErrand)
BY DEF NoErrand, Errand, Loose, NoOrder

LEMMA CheckErrand_Inv ==
    ASSUME SellerInv, NEW c \in Clerks, CheckStatus(c) \/ CheckLink(c) PROVE SellerInv'
<1> DEFINE e == [clerk[c] EXCEPT !.step = "update"]
           o == clerk[c].order
<1> USE SellerAssumption DEF SellerInv
<1>0. /\ SellerTypeOK /\ clerk[c] \in Errand /\ clerk[c].step = "check" /\ o \in Orders
      /\ UNCHANGED <<cart, orders, turn, live>>
    BY DEF SellerTypeOK, CheckStatus, CheckLink, ErrandsKnow
<1>1. /\ e \in Errand /\ e.step = "update" /\ e.order = o /\ e.to = clerk[c].to
      /\ e.ticket = clerk[c].ticket /\ e.status = clerk[c].status /\ e.raced = clerk[c].raced
    BY <1>0 DEF Errand
<1>2. PICK f \in {e, NoErrand} : clerk' = [clerk EXCEPT ![c] = f]
    BY DEF CheckStatus, CheckLink, EndErrand
<1>3. clerk' = [clerk EXCEPT ![c] = NoErrand] \/ (Loose(e) /\ ~e.raced => orders[o].ticket \notin live)
    <2>1. CASE CheckStatus(c)
        BY <1>0, <1>1, <2>1 DEF CheckStatus, EndErrand, Loose, HeldByTicket, ErrandsKnow
    <2>2. CASE CheckLink(c)
        <3>1. CASE clerk[c].was # NoTicket
            BY <2>2, <3>1 DEF CheckLink, EndErrand, HeldByTicket
        <3>2. CASE clerk[c].was = NoTicket
            BY <1>0, <1>1, <3>2 DEF LinksStand, Loose
        <3>3. QED
            BY <3>1, <3>2
    <2>3. QED
        BY <2>1, <2>2
<1>4. SellerTypeOK'
    BY <1>0, <1>1, <1>2, NoErrandType DEF SellerTypeOK
<1>5. ErrandsKnow'
    <2> SUFFICES ASSUME NEW d \in Clerks, clerk'[d].step # "idle"
                 PROVE  /\ clerk'[d].order \in Orders /\ orders[clerk'[d].order] # NoRow
                        /\ IF clerk'[d].to = "none" THEN clerk'[d].ticket \in Tickets
                           ELSE /\ clerk'[d].ticket = NoTicket
                                /\ <<clerk'[d].status, clerk'[d].to>> \in Transitions
        BY <1>0 DEF ErrandsKnow
    <2>1. CASE d = c
        BY <1>0, <1>1, <1>2, <2>1, NoErrandType DEF ErrandsKnow, SellerTypeOK
    <2>2. CASE d # c
        BY <1>0, <1>2, <2>2 DEF ErrandsKnow, SellerTypeOK
    <2>3. QED
        BY <2>1, <2>2
<1>6. LinksStand'
    <2> SUFFICES ASSUME NEW d \in Clerks, Loose(clerk'[d]), ~clerk'[d].raced
                 PROVE  orders[clerk'[d].order].ticket \notin live
        BY <1>0 DEF LinksStand, Loose
    <2>1. CASE d = c
        BY <1>0, <1>1, <1>2, <1>3, <2>1, NoErrandType DEF SellerTypeOK
    <2>2. CASE d # c
        BY <1>0, <1>2, <2>2 DEF LinksStand, SellerTypeOK
    <2>3. QED
        BY <2>1, <2>2
<1>7. OpsKnown' /\ OneOpPerPurchase' /\ OrderOfItsCart' /\ OneOrderPerPurchase'
    BY <1>0, CartsUntouched
<1>8. QED
    BY <1>0, <1>4, <1>5, <1>6, <1>7 DEF TicketFitsOrder

LEMMA ReadToLink_Inv ==
    ASSUME SellerInv, NEW c \in Clerks, NEW o \in Orders, NEW k \in Tickets, ReadToLink(c, o, k)
    PROVE  SellerInv'
<1> DEFINE e == [NoErrand EXCEPT !.step = "check", !.order = o, !.status = orders[o].status,
                                 !.was = orders[o].ticket, !.ticket = k]
<1> USE SellerAssumption DEF SellerInv, ReadToLink
<1>0. SellerTypeOK /\ orders[o] \in OrderRow
    BY DEF SellerTypeOK
<1>1. /\ e \in Errand /\ e.order = o /\ e.to = "none" /\ e.ticket = k
      /\ e.was = orders[o].ticket /\ e.step = "check"
    BY <1>0 DEF Errand, NoErrand, OrderRow
<1>2. /\ clerk' = [clerk EXCEPT ![c] = e] /\ UNCHANGED <<cart, orders, turn, live>>
      /\ orders[o] # NoRow
    OBVIOUS
<1> HIDE DEF e
<1>3. SellerTypeOK'
    BY <1>0, <1>1, <1>2 DEF SellerTypeOK
<1>4. ErrandsKnow'
    BY <1>0, <1>1, <1>2, ZenonT(40) DEF ErrandsKnow, SellerTypeOK
<1>5. LinksStand'
    BY <1>0, <1>1, <1>2 DEF LinksStand, SellerTypeOK, Loose
<1>6. OpsKnown' /\ OneOpPerPurchase' /\ OrderOfItsCart' /\ OneOrderPerPurchase'
    BY <1>2, CartsUntouched
<1>7. QED
    BY <1>2, <1>3, <1>4, <1>5, <1>6 DEF TicketFitsOrder

LEMMA UpdateStatus_Inv ==
    ASSUME SellerInv, NEW c \in Clerks, UpdateStatus(c) PROVE SellerInv'
<1> DEFINE o == clerk[c].order
           to == clerk[c].to
           row == [orders[o] EXCEPT !.status = to, !.held = HeldAfter(o, to),
                                    !.ticket = IF to = "pending" THEN NoTicket ELSE @]
<1> USE SellerAssumption DEF SellerInv
<1>0. /\ SellerTypeOK /\ clerk[c] \in Errand /\ o \in Orders /\ orders[o] \in OrderRow
      /\ <<clerk[c].status, to>> \in Transitions /\ to \in {"pending", "taken", "dismissed"}
    BY DEF SellerTypeOK, UpdateStatus, ErrandsKnow, Transitions
<1>1. /\ UNCHANGED <<cart, turn, live>> /\ clerk' = [clerk EXCEPT ![c] = NoErrand]
      /\ orders' = orders \/ (StatusStands(c) /\ orders' = [orders EXCEPT ![o] = row])
    <2>1. UNCHANGED <<cart, turn, live>> /\ clerk' = [clerk EXCEPT ![c] = NoErrand]
        BY DEF UpdateStatus, EndErrand
    <2>2. CASE ~StatusStands(c)
        BY <2>1, <2>2 DEF UpdateStatus
    <2>3. CASE StatusStands(c)
        <3>1. orders' = [orders EXCEPT ![o] = row]
            BY <1>0, <2>3 DEF UpdateStatus, SellerTypeOK
        <3>2. QED
            BY <2>1, <2>3, <3>1
    <2>4. QED
        BY <2>1, <2>2, <2>3
<1>2. /\ row \in OrderRow /\ row.status = to /\ row.purchase = orders[o].purchase
      /\ row.held = HeldAfter(o, to) /\ row.items = orders[o].items
      /\ row.ticket = IF to = "pending" THEN NoTicket ELSE orders[o].ticket
    BY <1>0 DEF OrderRow, HeldAfter
<1>3. row # NoRow
    BY <1>0, <1>2, RowsThere
<1>4. orders[o] # NoRow
    BY <1>0, <1>1 DEF ErrandsKnow, UpdateStatus
<1> HIDE DEF row, o, to
<1>5. SellerTypeOK'
    BY <1>0, <1>1, <1>2, NoErrandType DEF SellerTypeOK
<1>6. \A q \in Orders : /\ orders'[q].purchase = orders[q].purchase
                        /\ orders'[q] # NoRow <=> orders[q] # NoRow
                        /\ orders'[q].ticket \in {orders[q].ticket, NoTicket}
    BY <1>0, <1>1, <1>2, <1>3, <1>4 DEF SellerTypeOK
<1>7. ErrandsKnow'
    BY <1>0, <1>1, <1>6, NoErrandType DEF ErrandsKnow, SellerTypeOK
<1>8. LinksStand'
    <2> SUFFICES ASSUME NEW d \in Clerks, Loose(clerk'[d]), ~clerk'[d].raced
                 PROVE  orders'[clerk'[d].order].ticket \notin live'
        BY DEF LinksStand, Loose
    <2>1. d # c /\ clerk'[d] = clerk[d]
        BY <1>0, <1>1, NoErrandType DEF SellerTypeOK
    <2>2. clerk[d].order \in Orders
        BY <2>1 DEF ErrandsKnow, Loose
    <2>3. orders[clerk[d].order].ticket \notin live
        BY <2>1 DEF LinksStand
    <2>4. QED
        BY <1>0, <1>1, <1>6, <2>1, <2>2, <2>3 DEF SellerTypeOK
<1>9. TicketFitsOrder'
    <2>1. CASE orders' = orders
        BY <2>1 DEF TicketFitsOrder
    <2>2. CASE StatusStands(c) /\ orders' = [orders EXCEPT ![o] = row]
        <3>1. orders[o].status = clerk[c].status
            BY <2>2 DEF StatusStands, o
        <3>2. row.ticket # NoTicket => row.status = "taken"
            BY <1>0, <1>2, <3>1 DEF Transitions, TicketFitsOrder
        <3>3. row.status = "taken" => row.items = row.held
            BY <1>0, <1>2, <3>1 DEF HeldAfter, TicketFitsOrder
        <3>4. QED
            BY <1>0, <2>2, <3>2, <3>3 DEF TicketFitsOrder, SellerTypeOK
    <2>3. QED
        BY <1>1, <2>1, <2>2
<1>10. OpsKnown' /\ OneOpPerPurchase' /\ OrderOfItsCart' /\ OneOrderPerPurchase'
    BY <1>1, <1>6, CartsUntouched
<1>11. QED
    BY <1>5, <1>7, <1>8, <1>9, <1>10

LEMMA LinkTicket_Inv ==
    ASSUME SellerInv, NEW c \in Clerks, LinkTicket(c) PROVE SellerInv'
<1> DEFINE o == clerk[c].order
           k == clerk[c].ticket
           links == \A q \in Orders \ {o} : orders[q].ticket # k
           row == [orders[o] EXCEPT !.status = "taken", !.ticket = k,
                                    !.held = HeldAfter(o, "taken")]
<1> USE SellerAssumption DEF SellerInv
<1>0. /\ SellerTypeOK /\ clerk[c] \in Errand /\ o \in Orders /\ orders[o] \in OrderRow
      /\ k \in Tickets \cup {NoTicket} /\ orders[o] # NoRow
    BY DEF SellerTypeOK, LinkTicket, ErrandsKnow, Errand
<1>1. /\ UNCHANGED <<cart, turn, live>>
      /\ orders' = IF links THEN [orders EXCEPT ![o] = row] ELSE orders
    BY <1>0 DEF LinkTicket, SellerTypeOK
<1>2. /\ row \in OrderRow /\ row.status = "taken" /\ row.purchase = orders[o].purchase
      /\ row.held = HeldAfter(o, "taken") /\ row.items = orders[o].items
    BY <1>0 DEF OrderRow, HeldAfter
<1>3. row # NoRow
    BY <1>0, <1>2, RowsThere
<1>4. clerk' = [d \in Clerks |->
                   IF d = c THEN NoErrand
                   ELSE IF links /\ clerk[d].order = o THEN [clerk[d] EXCEPT !.raced = TRUE]
                   ELSE clerk[d]]
    BY DEF LinkTicket
<1> HIDE DEF row, o, k, links
<1>5. \A d \in Clerks \ {c} :
          /\ clerk'[d] \in Errand /\ clerk'[d].step = clerk[d].step
          /\ clerk'[d].order = clerk[d].order /\ clerk'[d].status = clerk[d].status
          /\ clerk'[d].was = clerk[d].was /\ clerk'[d].to = clerk[d].to
          /\ clerk'[d].ticket = clerk[d].ticket
          /\ clerk'[d].raced = (clerk[d].raced \/ (links /\ clerk[d].order = o))
    <2> SUFFICES ASSUME NEW d \in Clerks \ {c}
                 PROVE  /\ clerk'[d] \in Errand /\ clerk'[d].step = clerk[d].step
                        /\ clerk'[d].order = clerk[d].order /\ clerk'[d].status = clerk[d].status
                        /\ clerk'[d].was = clerk[d].was /\ clerk'[d].to = clerk[d].to
                        /\ clerk'[d].ticket = clerk[d].ticket
                        /\ clerk'[d].raced = (clerk[d].raced \/ (links /\ clerk[d].order = o))
        OBVIOUS
    <2>1. clerk[d] \in Errand
        BY <1>0 DEF SellerTypeOK
    <2>2. CASE links /\ clerk[d].order = o
        BY <1>4, <2>1, <2>2 DEF Errand
    <2>3. CASE ~(links /\ clerk[d].order = o)
        BY <1>4, <2>1, <2>3 DEF Errand
    <2>4. QED
        BY <2>2, <2>3
<1>6. clerk'[c] = NoErrand /\ clerk' \in [Clerks -> Errand]
    BY <1>4, <1>5, NoErrandType
<1>7. SellerTypeOK'
    BY <1>0, <1>1, <1>2, <1>6 DEF SellerTypeOK
<1>8. \A q \in Orders : /\ orders'[q].purchase = orders[q].purchase
                        /\ orders'[q] # NoRow <=> orders[q] # NoRow
                        /\ orders'[q].ticket = orders[q].ticket \/ (links /\ q = o)
    BY <1>0, <1>1, <1>2, <1>3 DEF SellerTypeOK
<1>9. ErrandsKnow'
    <2> SUFFICES ASSUME NEW d \in Clerks, clerk'[d].step # "idle"
                 PROVE  /\ clerk'[d].order \in Orders /\ orders'[clerk'[d].order] # NoRow
                        /\ IF clerk'[d].to = "none" THEN clerk'[d].ticket \in Tickets
                           ELSE /\ clerk'[d].ticket = NoTicket
                                /\ <<clerk'[d].status, clerk'[d].to>> \in Transitions
        BY DEF ErrandsKnow
    <2>1. d \in Clerks \ {c}
        BY <1>6, NoErrandType
    <2>2. QED
        BY <1>5, <1>8, <2>1 DEF ErrandsKnow
<1>10. LinksStand'
    <2> SUFFICES ASSUME NEW d \in Clerks, Loose(clerk'[d]), ~clerk'[d].raced
                 PROVE  orders'[clerk'[d].order].ticket \notin live'
        BY DEF LinksStand, Loose
    <2>1. d \in Clerks \ {c}
        BY <1>6, NoErrandType
    <2>2. Loose(clerk[d]) /\ ~clerk[d].raced /\ ~(links /\ clerk[d].order = o)
        BY <1>5, <2>1 DEF Loose
    <2>3. clerk[d].order \in Orders /\ orders[clerk[d].order].ticket \notin live
        BY <2>1, <2>2 DEF LinksStand, ErrandsKnow, Loose
    <2>4. QED
        BY <1>1, <1>5, <1>8, <2>1, <2>2, <2>3
<1>11. TicketFitsOrder'
    <2>1. row.items = row.held
        BY <1>0, <1>2 DEF HeldAfter, TicketFitsOrder
    <2>2. QED
        BY <1>0, <1>1, <1>2, <2>1 DEF TicketFitsOrder, SellerTypeOK
<1>12. OpsKnown' /\ OneOpPerPurchase' /\ OrderOfItsCart' /\ OneOrderPerPurchase'
    BY <1>1, <1>8, CartsUntouched
<1>13. QED
    BY <1>7, <1>9, <1>10, <1>11, <1>12

LEMMA AnnulTicket_Inv ==
    ASSUME SellerInv, NEW k \in Tickets, AnnulTicket(k) PROVE SellerInv'
<1> USE DEF SellerInv, AnnulTicket
<1>1. OpsKnown' /\ OneOpPerPurchase' /\ OrderOfItsCart' /\ OneOrderPerPurchase'
    BY CartsUntouched
<1>2. SellerTypeOK' /\ ErrandsKnow' /\ LinksStand' /\ TicketFitsOrder'
    BY DEF SellerTypeOK, ErrandsKnow, LinksStand, TicketFitsOrder, Loose
<1>3. QED
    BY <1>1, <1>2

-----------------------------------------------------------------------------
\* The next-state relation, taken apart once.
LEMMA SellerSteps ==
    ASSUME SellerNext
    PROVE  \/ \E t \in Turns, o \in Orders : ReadCart(t, o) \/ RecordOrder(t, o) \/ AmendOrder(t, o)
           \/ \E t \in Turns, w \in Wishes \cup {Nothing}, p \in Orders : WriteItems(t, w, p)
           \/ \E t \in Turns : WriteCart(t) \/ LeaveCart(t) \/ ReopenOrder(t) \/ CancelOrder(t)
           \/ ForgetCart
           \/ \E c \in Clerks, o \in Orders, s \in {"pending", "taken", "dismissed"} :
                 ReadOrder(c, o, s)
           \/ \E c \in Clerks, o \in Orders, k \in Tickets : ReadToLink(c, o, k)
           \/ \E c \in Clerks : CheckStatus(c) \/ UpdateStatus(c) \/ CheckLink(c) \/ LinkTicket(c)
           \/ \E k \in Tickets : AnnulTicket(k)
BY DEF SellerNext

LEMMA SellerStep_Inv == SellerInv /\ [SellerNext]_sellerVars => SellerInv'
<1> SUFFICES ASSUME SellerInv, [SellerNext]_sellerVars PROVE SellerInv'
    OBVIOUS
<1>1. ASSUME NEW t \in Turns, NEW o \in Orders,
             ReadCart(t, o) \/ RecordOrder(t, o) \/ AmendOrder(t, o)
      PROVE  SellerInv'
    BY <1>1, ReadCart_Inv, RecordOrder_Inv, AmendOrder_Inv
<1>2. ASSUME NEW t \in Turns, NEW w \in Wishes \cup {Nothing}, NEW p \in Orders,
             WriteItems(t, w, p)
      PROVE  SellerInv'
    BY <1>2, WriteItems_Inv
<1>3. ASSUME NEW t \in Turns, WriteCart(t) \/ LeaveCart(t) \/ ReopenOrder(t) \/ CancelOrder(t)
      PROVE  SellerInv'
    BY <1>3, WriteOrLeave_Inv, ReopenOrder_Inv, CancelOrder_Inv
<1>4. ASSUME NEW c \in Clerks, NEW o \in Orders, NEW s \in {"pending", "taken", "dismissed"},
             ReadOrder(c, o, s)
      PROVE  SellerInv'
    BY <1>4, ReadOrder_Inv
<1>5. ASSUME NEW c \in Clerks, NEW o \in Orders, NEW k \in Tickets, ReadToLink(c, o, k)
      PROVE  SellerInv'
    BY <1>5, ReadToLink_Inv
<1>6. ASSUME NEW c \in Clerks, CheckStatus(c) \/ UpdateStatus(c) \/ CheckLink(c) \/ LinkTicket(c)
      PROVE  SellerInv'
    BY <1>6, CheckErrand_Inv, UpdateStatus_Inv, LinkTicket_Inv
<1>7. ASSUME NEW k \in Tickets, AnnulTicket(k) PROVE SellerInv'
    BY <1>7, AnnulTicket_Inv
<1>8. CASE UNCHANGED sellerVars
    BY <1>8 DEF SellerInv, SellerTypeOK, OpsKnown, OneOpPerPurchase, OrderOfItsCart,
                OneOrderPerPurchase, ErrandsKnow, LinksStand, TicketFitsOrder, CartsAround,
                Loose, sellerVars
<1>9. CASE SellerNext
    BY <1>1, <1>2, <1>3, <1>4, <1>5, <1>6, <1>7, <1>9, ForgetCart_Inv, SellerSteps
<1>10. QED
    BY <1>8, <1>9

\* A step that takes an order out of a live ticket is the update of a request
\* that read the order before it was linked.
LEMMA LinkLost ==
    ASSUME SellerInv, SellerNext, NEW o \in Orders, orders[o].ticket \in live,
           orders'[o].ticket # orders[o].ticket
    PROVE  \E c \in Clerks : /\ clerk[c].order = o /\ clerk[c].step = "update"
                             /\ clerk[c].raced /\ clerk'[c] = NoErrand
<1> USE SellerAssumption DEF SellerInv
<1>0. /\ SellerTypeOK /\ orders[o].ticket # NoTicket /\ orders[o] # NoRow
    BY DEF SellerTypeOK, NoRow
<1>1. ASSUME NEW c \in Clerks, UpdateStatus(c) \/ LinkTicket(c)
      PROVE  /\ clerk[c].order = o /\ clerk[c].step = "update"
             /\ clerk[c].raced /\ clerk'[c] = NoErrand
    <2>1. clerk[c].step = "update" /\ clerk'[c] = NoErrand /\ clerk[c] \in Errand
        BY <1>0, <1>1 DEF UpdateStatus, LinkTicket, EndErrand, SellerTypeOK
    <2>2. clerk[c].order = o
        BY <1>0, <1>1 DEF UpdateStatus, LinkTicket, SellerTypeOK, OrderRow
    <2>3. Loose(clerk[c])
        <3>1. CASE UpdateStatus(c)
            <4>1. clerk[c].to = "pending"
                BY <1>0, <3>1 DEF UpdateStatus, SellerTypeOK, OrderRow
            <4>2. QED
                BY <2>1, <4>1 DEF Loose
        <3>2. CASE LinkTicket(c)
            BY <2>1, <3>2 DEF LinkTicket, Loose
        <3>3. QED
            BY <1>1, <3>1, <3>2
    <2>4. clerk[c].raced
        BY <2>1, <2>2, <2>3 DEF LinksStand, Errand
    <2>5. QED
        BY <2>1, <2>2, <2>4
<1>2. ASSUME NEW t \in Turns, NEW n \in Orders, RecordOrder(t, n) \/ AmendOrder(t, n)
      PROVE  FALSE
    BY <1>0, <1>2 DEF RecordOrder, AmendOrder, SellerTypeOK, OrderRow
<1>3. ASSUME NEW t \in Turns, CancelOrder(t)
      PROVE  FALSE
    BY <1>0, <1>3 DEF CancelOrder, SellerTypeOK, OrderRow
<1>4. orders' # orders
    OBVIOUS
<1>5. (\E c \in Clerks : UpdateStatus(c) \/ LinkTicket(c))
      \/ (\E t \in Turns, n \in Orders : RecordOrder(t, n) \/ AmendOrder(t, n))
      \/ (\E t \in Turns : CancelOrder(t))
    BY <1>4, SellerSteps DEF ReadCart, WriteItems, WriteCart, LeaveCart, ReopenOrder, ForgetCart,
           ReadOrder, ReadToLink, CheckStatus, CheckLink, AnnulTicket
<1>6. QED
    BY <1>1, <1>2, <1>3, <1>5

-----------------------------------------------------------------------------
LEMMA SellerAlways == SellerSpec => []SellerInv
BY SellerInit_Inv, SellerStep_Inv, PTL DEF SellerSpec

\* The cart, the tool calls, the rows of orders and the requests of the shop
\* always have their types.
THEOREM SellerTypes == SellerSpec => []SellerTypeOK
BY SellerAlways, PTL DEF SellerInv

\* For any number of tool calls that overlap, and whatever the shop does in
\* between: one purchase is one order in the tray.
THEOREM OneOrderEach == SellerSpec => []OneOrderPerPurchase
BY SellerAlways, PTL DEF SellerInv

\* Whatever the customer and the shop do at the same time, only a taken order is
\* in a ticket, and a taken order holds what it held when it was taken.
THEOREM TicketsFit == SellerSpec => []TicketFitsOrder
BY SellerAlways, PTL DEF SellerInv

\* An order leaves a live ticket only by a request that read it before it was
\* linked: with any number of requests, the reads before the updates hold the
\* others back.
THEOREM LiveTicketsKept == SellerSpec => KeepsLiveTicket
<1> DEFINE Keeps == \A o \in Orders :
          orders[o].ticket \in live /\ orders'[o].ticket # orders[o].ticket
          => \E c \in Clerks : /\ clerk[c].order = o /\ clerk[c].step = "update"
                               /\ clerk[c].raced /\ clerk'[c] = NoErrand
<1>1. SellerInv /\ [SellerNext]_sellerVars => [Keeps]_sellerVars
    BY LinkLost
<1>2. QED
    BY <1>1, SellerAlways, PTL DEF SellerSpec, KeepsLiveTicket

-----------------------------------------------------------------------------
\* While requests of the shop come one after the other, none is raced.
Unraced == \A c \in Clerks : ~clerk[c].raced

LEMMA UnracedStep ==
    ASSUME \A c, d \in Clerks : c = d, SellerTypeOK, Unraced, [SellerNext]_sellerVars
    PROVE  Unraced'
<1>1. clerk \in [Clerks -> Errand] /\ ~NoErrand.raced
    BY DEF SellerTypeOK, NoErrand
<1>2. ASSUME NEW c \in Clerks, NEW o \in Orders, NEW s, ReadOrder(c, o, s)
      PROVE  Unraced'
    BY <1>1, <1>2 DEF ReadOrder, Unraced, NoErrand
<1>3. ASSUME NEW c \in Clerks, NEW o \in Orders, NEW k, ReadToLink(c, o, k)
      PROVE  Unraced'
    BY <1>1, <1>3 DEF ReadToLink, Unraced, NoErrand
<1>4. ASSUME NEW c \in Clerks, CheckStatus(c) \/ UpdateStatus(c) \/ CheckLink(c)
      PROVE  Unraced'
    BY <1>1, <1>4 DEF CheckStatus, UpdateStatus, CheckLink, EndErrand, Unraced, Errand
<1>5. ASSUME NEW c \in Clerks, LinkTicket(c)
      PROVE  Unraced'
    BY <1>1, <1>5 DEF LinkTicket, Unraced
<1>6. ASSUME UNCHANGED clerk
      PROVE  Unraced'
    BY <1>6 DEF Unraced
<1>7. CASE UNCHANGED sellerVars
    BY <1>6, <1>7 DEF sellerVars
<1>8. CASE SellerNext
    <2>1. \/ UNCHANGED clerk
          \/ \E c \in Clerks, o \in Orders, s \in {"pending", "taken", "dismissed"} :
                ReadOrder(c, o, s)
          \/ \E c \in Clerks, o \in Orders, k \in Tickets : ReadToLink(c, o, k)
          \/ \E c \in Clerks : CheckStatus(c) \/ UpdateStatus(c) \/ CheckLink(c)
          \/ \E c \in Clerks : LinkTicket(c)
        BY <1>8 DEF SellerNext, ReadCart, RecordOrder, AmendOrder, WriteItems, WriteCart,
               LeaveCart, ReopenOrder, CancelOrder, ForgetCart, AnnulTicket
    <2>2. QED
        BY <2>1, <1>2, <1>3, <1>4, <1>5, <1>6
<1>9. QED
    BY <1>7, <1>8

\* With one request of the shop at a time, whatever the customer does and the
\* shop annuls meanwhile, an order never leaves a live ticket: what the comment
\* of updateStatus says is true while requests of the shop do not overlap.
THEOREM OneClerkKeepsTickets ==
    ASSUME \A c, d \in Clerks : c = d
    PROVE  SellerSpec =>
             [][\A o \in Orders : orders[o].ticket \in live
                                  => orders'[o].ticket = orders[o].ticket]_sellerVars
<1> DEFINE Keeps == \A o \in Orders : orders[o].ticket \in live
                                      => orders'[o].ticket = orders[o].ticket
<1>1. SellerInit => Unraced
    BY DEF SellerInit, Unraced, NoErrand
<1>2. SellerInv /\ Unraced /\ [SellerNext]_sellerVars => Unraced'
    BY UnracedStep DEF SellerInv
<1>3. SellerInv /\ Unraced /\ [SellerNext]_sellerVars => [Keeps]_sellerVars
    BY LinkLost DEF Unraced
<1>4. QED
    BY <1>1, <1>2, <1>3, SellerAlways, PTL DEF SellerSpec
=============================================================================
