----------------------------- MODULE Assistant -----------------------------
(***************************************************************************)
(* Operations that the assistant of one user prepares and the user         *)
(* confirms.  A row of ai_pending_actions holds what the summary said; it  *)
(* is executed by a tool call of the message that answers the summary.     *)
(*                                                                         *)
(* A message is one request to /ai/chat: its number is the request_id, the *)
(* model may call any tools in it, one after the other, and when it ends   *)
(* the user has seen the answer.  The chats of a user (tabs, devices) send *)
(* messages at the same time.  Which tools the model calls, and with what, *)
(* is left open.  Saving a prepared operation is one statement, a          *)
(* confirmation one transaction that holds the row it found; each is a     *)
(* step that takes the snapshot and a step that runs once the row is free. *)
(*                                                                         *)
(* `facts` are versions of the data a summary shows, by kind of operation: *)
(* prices of an order, the expense to archive, the balance to correct.     *)
(***************************************************************************)
EXTENDS Integers, FiniteSetsExt

CONSTANTS
    Chats,
    Texts,          \* messages, up to spaces
    Yes,            \* the message that is an explicit confirmation
    Operations,     \* kinds of operation in use, of Kinds
    MaxMessages,    \* bound: messages sent
    MaxPrepared,    \* bound: operations prepared
    MaxFacts        \* bound: changes of the data summaries show

Kinds == {"register", "void", "sale", "purchase", "transfer", "adjust"}

ASSUME AssistantAssumption ==
    /\ Yes \in Texts /\ Operations \subseteq Kinds
    /\ MaxMessages \in Nat /\ MaxPrepared \in Nat /\ MaxFacts \in Nat

Messages == 1..MaxMessages
Prepared == 1..MaxPrepared
NoMessage == 0
NoneFound == 0

VARIABLES
    message,    \* what the chats sent: text, and the message before, if answered
    pending,    \* rows of ai_pending_actions
    tool,       \* the tool call each message is in
    facts,      \* versions of the data that summaries show
    performed,  \* times each prepared operation took effect (history)
    by          \* the message whose tool call performed it (history)

assistantVars == <<message, pending, tool, facts, performed, by>>

-----------------------------------------------------------------------------
\* The tool that confirms a kind of operation.
ToolOf(k) == CASE k \in {"register", "void"} -> "expense"
               [] k \in {"transfer", "adjust"} -> "treasury"
               [] OTHER -> k

\* Kinds whose data a confirmation reads again before it acts, those it
\* reads with a lock, and those that give the operation up for good when the
\* data changed; "void" rolls back instead and stays prepared.  A sale and a
\* purchase are built again as a request of the API and validated as one.
Rechecked == {"void", "sale", "purchase", "adjust"}
ReadLocked == {"void", "adjust"}
GivenUp == {"sale", "purchase", "adjust"}
Validated == {"sale", "purchase"}

NotSent == [chat |-> "none", text |-> Yes, before |-> NoMessage, state |-> "none"]

Message == [chat : Chats \cup {"none"}, text : Texts, before : Messages \cup {NoMessage},
            state : {"none", "open", "answered", "cut"}]

NotPrepared == [status |-> "none", kind |-> "sale", request |-> NoMessage,
                trigger |-> Yes, expired |-> FALSE, shown |-> 0]

PendingRow == [status : {"none", "PENDING", "EXECUTED", "SUPERSEDED", "EXPIRED"},
               kind : Kinds, request : Messages \cup {NoMessage}, trigger : Texts,
               expired : BOOLEAN, shown : Nat]

NoCall == [step |-> "none", found |-> NoneFound, kind |-> "sale", late |-> FALSE, read |-> 0]

Call == [step : {"none", "save", "confirm", "execute"}, found : Prepared \cup {NoneFound},
         kind : Kinds, late : BOOLEAN, read : Nat]

AssistantTypeOK ==
    /\ message \in [Messages -> Message]
    /\ pending \in [Prepared -> PendingRow]
    /\ tool \in [Messages -> Call]
    /\ facts \in [Kinds -> Nat]
    /\ performed \in [Prepared -> Nat]
    /\ by \in [Prepared -> Messages \cup {NoMessage}]

AssistantInit ==
    /\ message = [m \in Messages |-> NotSent]
    /\ pending = [o \in Prepared |-> NotPrepared]
    /\ tool = [m \in Messages |-> NoCall]
    /\ facts = [k \in Kinds |-> 0]
    /\ performed = [o \in Prepared |-> 0]
    /\ by = [o \in Prepared |-> NoMessage]

-----------------------------------------------------------------------------
Waiting(o) == pending[o].status = "PENDING"

\* The row a query for the PENDING row of the user returns.
Found == IF \E o \in Prepared : Waiting(o)
         THEN CHOOSE o \in Prepared : Waiting(o) ELSE NoneFound

\* Mutant: the PENDING row is read without FOR UPDATE.
UnlockedAlways(o) == TRUE

\* A confirmation keeps the row it found FOR UPDATE until its end.
Unlocked(o) == \A m \in Messages : ~(tool[m].step = "execute" /\ tool[m].found = o)

Free(m) == message[m].state = "open" /\ tool[m].step = "none"

\* The last message of a chat, and what its client sends along as the one
\* before: a message the assistant answered.
Last(c) ==
    LET sent == {m \in Messages : message[m].chat = c}
    IN  IF sent = {} THEN NoMessage ELSE Max(sent)

Before(c) ==
    IF Last(c) # NoMessage /\ message[Last(c)].state = "answered" THEN Last(c) ELSE NoMessage

\* A chat sends a message when it is not waiting for an answer.
Send(c, m, t) ==
    /\ message[m] = NotSent /\ \A n \in 1..(m - 1) : message[n] # NotSent
    /\ Last(c) # NoMessage => message[Last(c)].state # "open"
    /\ message' = [message EXCEPT ![m] = [chat |-> c, text |-> t, before |-> Before(c),
                                          state |-> "open"]]
    /\ UNCHANGED <<pending, tool, facts, performed, by>>

\* The same turns once more, as a new request: the answer to the first was
\* lost, or the user pressed twice.  The first may still be running.
Repeat(m, n) ==
    /\ message[n] = NotSent /\ \A i \in 1..(n - 1) : message[i] # NotSent
    /\ message[m].state \in {"open", "cut"} /\ Last(message[m].chat) = m
    /\ message' = [message EXCEPT ![n] = [message[m] EXCEPT !.state = "open"]]
    /\ UNCHANGED <<pending, tool, facts, performed, by>>

\* The answer is complete, or the client left while it was written: no more
\* tools are called.
End(m, state) ==
    /\ Free(m)
    /\ message' = [message EXCEPT ![m].state = state]
    /\ UNCHANGED <<pending, tool, facts, performed, by>>

-----------------------------------------------------------------------------
\* A prepare tool reads what it shows; then the statement that saves it takes
\* its snapshot.  With an operation of this very request pending it saves none.
StartPrepare(m, k) ==
    /\ Free(m) /\ \E o \in Prepared : pending[o].status = "none"
    /\ Found # NoneFound => pending[Found].request # m
    /\ tool' = [tool EXCEPT ![m] = [step |-> "save", found |-> Found, kind |-> k,
                                    late |-> FALSE, read |-> facts[k]]]
    /\ UNCHANGED <<message, pending, facts, performed, by>>

\* PENDING rows that the statement did not supersede: its insert meets the
\* unique index.
Collides(p) == \E o \in Prepared : Waiting(o) /\ o # p

Superseded(p) ==
    [o \in Prepared |-> IF o = p /\ Waiting(o) THEN [pending[o] EXCEPT !.status = "SUPERSEDED"]
                                               ELSE pending[o]]

\* The statement supersedes the row of its snapshot, if it is still PENDING
\* once it is free, and inserts the new one; a collision takes both back.
Save(m, o) ==
    LET p == tool[m].found IN
    /\ tool[m].step = "save"
    /\ pending[o].status = "none" /\ \A q \in 1..(o - 1) : pending[q].status # "none"
    /\ p # NoneFound => Unlocked(p)
    /\ pending' = IF Collides(p) THEN pending
                  ELSE [Superseded(p) EXCEPT ![o] =
                          [status |-> "PENDING", kind |-> tool[m].kind, request |-> m,
                           trigger |-> message[m].text, expired |-> FALSE,
                           shown |-> tool[m].read]]
    /\ tool' = [tool EXCEPT ![m] = NoCall]
    /\ UNCHANGED <<message, facts, performed, by>>

-----------------------------------------------------------------------------
\* Mutant: the previous message is not compared.
ConfirmsAnyYes(o, m) == message[m].text = Yes

\* checkPendingConfirmation, in its order: a rejection leaves the row alone or
\* makes it useless.
Confirms(o, m) ==
    /\ message[m].before # NoMessage
    /\ message[message[m].before].text = pending[o].trigger
    /\ message[m].text = Yes

Rejection(o, m, late) ==
    IF pending[o].request = m THEN "awaiting"
    ELSE IF late \/ ~Confirms(o, m) THEN "expire"
    ELSE "none"

\* A confirm tool takes its snapshot; the time of the transaction decides
\* whether the row it finds has expired.
StartConfirm(m, k) ==
    /\ Free(m) /\ Found # NoneFound
    /\ tool' = [tool EXCEPT ![m] = [step |-> "confirm", found |-> Found, kind |-> k,
                                    late |-> pending[Found].expired, read |-> 0]]
    /\ UNCHANGED <<message, pending, facts, performed, by>>

\* The lock is granted.  A row that is no longer PENDING, an operation of
\* another tool or a rejection end the call; otherwise the data shown is read
\* again, and the call goes on with the row locked.
Check(m) ==
    LET o == tool[m].found
        mine == Waiting(o) /\ ToolOf(pending[o].kind) = ToolOf(tool[m].kind)
        verdict == Rejection(o, m, tool[m].late)
        k == pending[o].kind
    IN
    /\ tool[m].step = "confirm" /\ Unlocked(o)
    /\ \/ /\ ~mine \/ verdict = "awaiting"
          /\ tool' = [tool EXCEPT ![m] = NoCall]
          /\ UNCHANGED pending
       \/ /\ mine /\ verdict = "expire"
          /\ pending' = [pending EXCEPT ![o].status = "EXPIRED"]
          /\ tool' = [tool EXCEPT ![m] = NoCall]
       \/ /\ mine /\ verdict = "none"
          /\ tool' = [tool EXCEPT ![m] = [@ EXCEPT !.step = "execute", !.read = facts[k]]]
          /\ UNCHANGED pending
    /\ UNCHANGED <<message, facts, performed, by>>

Changed(m) ==
    LET o == tool[m].found
    IN  pending[o].kind \in Rechecked /\ tool[m].read # pending[o].shown

\* The data is not what the summary showed, or it is and the request built of
\* it is not valid: the operation is given up and that commits.  For the
\* expense to archive everything is rolled back.
GiveUp(m) ==
    LET o == tool[m].found IN
    /\ tool[m].step = "execute"
    /\ Changed(m) \/ pending[o].kind \in Validated
    /\ pending' = IF pending[o].kind \in GivenUp
                  THEN [pending EXCEPT ![o].status = "EXPIRED"] ELSE pending
    /\ tool' = [tool EXCEPT ![m] = NoCall]
    /\ UNCHANGED <<message, facts, performed, by>>

Done(o) == [pending EXCEPT ![o].status = "EXECUTED"]

\* The operation and the mark of the row commit together.
Execute(m) ==
    LET o == tool[m].found IN
    /\ tool[m].step = "execute" /\ ~Changed(m)
    /\ pending' = Done(o)
    /\ performed' = [performed EXCEPT ![o] = @ + 1]
    /\ by' = [by EXCEPT ![o] = m]
    /\ tool' = [tool EXCEPT ![m] = NoCall]
    /\ UNCHANGED <<message, facts>>

\* The operation is refused by its own rules, or the process stops: both are
\* rolled back and the row stays PENDING.
Undo(m) ==
    /\ tool[m].step = "execute" /\ ~Changed(m)
    /\ tool' = [tool EXCEPT ![m] = NoCall]
    /\ UNCHANGED <<message, pending, facts, performed, by>>

-----------------------------------------------------------------------------
\* Fifteen minutes pass for a row.
Lapse(o) ==
    /\ Waiting(o) /\ ~pending[o].expired
    /\ pending' = [pending EXCEPT ![o].expired = TRUE]
    /\ UNCHANGED <<message, tool, facts, performed, by>>

\* Mutant: the expense and the balance are read again without a lock.
PinnedNever(k) == FALSE

\* Rows that a confirmation reads with a lock cannot change under it.
Pinned(k) == k \in ReadLocked /\ \E m \in Messages : /\ tool[m].step = "execute"
                                                     /\ pending[tool[m].found].kind = k

\* Another part of the system changes the data of a kind of operation.
ChangeFacts(k) ==
    /\ facts[k] < MaxFacts /\ ~Pinned(k)
    /\ facts' = [facts EXCEPT ![k] = @ + 1]
    /\ UNCHANGED <<message, pending, tool, performed, by>>

AssistantNext ==
    \/ \E c \in Chats, m \in Messages, t \in Texts : Send(c, m, t)
    \/ \E m, n \in Messages : Repeat(m, n)
    \/ \E m \in Messages : End(m, "answered") \/ End(m, "cut")
    \/ \E m \in Messages, k \in Operations : StartPrepare(m, k) \/ StartConfirm(m, k)
    \/ \E m \in Messages, o \in Prepared : Save(m, o)
    \/ \E m \in Messages : Check(m) \/ GiveUp(m) \/ Execute(m) \/ Undo(m)
    \/ \E o \in Prepared : Lapse(o)
    \/ \E k \in Operations : ChangeFacts(k)

AssistantSpec == AssistantInit /\ [][AssistantNext]_assistantVars

-----------------------------------------------------------------------------
\* An operation takes effect exactly when its row says EXECUTED, and once,
\* whatever yeses, preparations and failures overlap; the user has one pending
\* operation at most.
PerformedOnce ==
    /\ \A o \in Prepared : performed[o] = IF pending[o].status = "EXECUTED" THEN 1 ELSE 0
    /\ \A o, p \in Prepared : Waiting(o) /\ Waiting(p) => o = p

\* The message that asked for the operation is the only one with its text: the
\* code tells messages apart by the hash of their text.
Unmistakable(o) ==
    \A m \in Messages \ {pending[o].request} :
        message[m] # NotSent => message[m].text # pending[o].trigger

\* An operation is performed by an explicit yes that the user sent to the very
\* answer that showed its summary, in the same chat, and after that answer.
YesAnswersItsSummary ==
    \A o \in Prepared : performed[o] > 0 /\ Unmistakable(o) =>
        /\ by[o] # pending[o].request
        /\ message[by[o]].text = Yes
        /\ message[by[o]].before = pending[o].request
        /\ message[by[o]].chat = message[pending[o].request].chat
        /\ message[pending[o].request].state = "answered"

\* An expense is archived, and a balance corrected, only as the summary showed
\* it, whatever happened to it since.
CorrectsWhatWasShown ==
    [][\A o \in Prepared :
          performed'[o] > performed[o] /\ pending[o].kind \in ReadLocked
          => facts[pending[o].kind] = pending[o].shown]_assistantVars

-----------------------------------------------------------------------------
\* What the user is promised (Consent): what became of each operation, and
\* which of them a message agreed to that is not the one that asked for it.
lifeOf == [o \in Prepared |->
    CASE performed[o] = 1 /\ pending[o].status = "EXECUTED" -> "done"
      [] performed[o] = 0 /\ pending[o].status = "PENDING" -> "waiting"
      [] performed[o] = 0 /\ pending[o].status = "none" -> "none"
      [] performed[o] = 0 /\ pending[o].status \in {"SUPERSEDED", "EXPIRED"} -> "dropped"
      [] OTHER -> "wrong"]

agreedTo == {o \in Prepared :
    pending[o].status # "none" /\ \E m \in Messages : m # pending[o].request /\ Confirms(o, m)}

Promise == INSTANCE Consent WITH
    Offers <- Prepared, Subjects <- Kinds, Exact <- ReadLocked, life <- lifeOf,
    subject <- [o \in Prepared |-> pending[o].kind],
    shown <- [o \in Prepared |-> pending[o].shown], world <- facts, agreed <- agreedTo

\* Snapshots, locks, the unique index and the hash of a message add up to
\* offers made one after the other, each done once after a yes or dropped.
KeepsItsWord == Promise!CSpec
=============================================================================
