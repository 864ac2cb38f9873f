---------------------- MODULE LineConversationProofs ----------------------
(***************************************************************************)
(* Proofs about LineConversation, for every set of events and LINE users:  *)
(* conversations are only appended, so what an event finds or makes is not *)
(* older than what an event before it has used; and an event that is about *)
(* to insert a row has not been preceded by one that made it.              *)
(***************************************************************************)
EXTENDS LineConversation, TLAPS

(***************************************************************************)
(* The conversation of an event is one of its sender, and it has one when  *)
(* it is about to write or has written its message.                        *)
(***************************************************************************)
GoodConv(e) ==
  /\ event[e].conv # 0 =>
       event[e].conv \in 1..Len(convs) /\ convs[event[e].conv].user = Sender[e]
  /\ LineAt(e, "new") => event[e].conv = 0
  /\ LineAt(e, "author") \/ LineAt(e, "store") \/ "text" \in event[e].left =>
       event[e].conv # 0

EarlierAreOver == \A e \in Events : \A f \in earlier[e] : Over(f)

\* As TextsMoveForward, from the moment the later event has its conversation.
MovesForward ==
  \A e, f \in Events :
    "text" \in event[f].left /\ event[e].conv # 0 /\ Sender[e] = Sender[f] /\ f \in earlier[e]
      => event[f].conv <= event[e].conv

Inv ==
  /\ LineTypeOK
  /\ \A e \in Events : GoodConv(e)
  /\ EarlierAreOver
  /\ MovesForward

LEMMA InvMoves == Inv => TextsMoveForward
  BY DEF Inv, GoodConv, MovesForward, TextsMoveForward

Conversation == [user : LineUsers, by : Events \cup {ByHand}]

LEMMA InitInv == LineInit => Inv
<1> SUFFICES ASSUME LineInit PROVE Inv
  OBVIOUS
<1>1. LineTypeOK
  BY DEF LineInit, LineTypeOK, EventState, LinePcs, Traces
<1>2. (\A e \in Events : GoodConv(e)) /\ EarlierAreOver /\ MovesForward
  BY DEF LineInit, GoodConv, EarlierAreOver, MovesForward, LineAt
<1> QED
  BY <1>1, <1>2 DEF Inv

-----------------------------------------------------------------------------
\* What was there of the conversations is there still.
LEMMA Appended ==
  ASSUME convs \in Seq(Conversation), NEW c \in Conversation,
         convs' = convs \/ convs' = Append(convs, c)
  PROVE  /\ convs' \in Seq(Conversation)
         /\ \A i \in 1..Len(convs) : i \in 1..Len(convs') /\ convs'[i] = convs[i]
<1>1. Len(convs) \in Nat
  OBVIOUS
<1>2. CASE convs' = convs
  BY <1>2
<1>3. CASE convs' = Append(convs, c)
  BY <1>1, <1>3
<1> QED
  BY <1>2, <1>3

(***************************************************************************)
(* One event moves to the state s.  It may take a conversation, which then *)
(* is not older than any of its sender's.                                  *)
(***************************************************************************)
LEMMA EventMoves ==
  ASSUME Inv, NEW e \in Events, ~Over(e), NEW s \in EventState,
         event' = [event EXCEPT ![e] = s], UNCHANGED <<hasBranch, earlier>>,
         account' \in [Events -> {"none", "active", "inactive"}],
         NEW c \in Conversation, convs' = convs \/ convs' = Append(convs, c),
         s.conv # 0 => s.conv \in 1..Len(convs') /\ convs'[s.conv].user = Sender[e],
         s.pc # "new",
         s.pc \in {"author", "store"} \/ "text" \in s.left => s.conv # 0,
         s.conv = event[e].conv \/ \A j \in OpenOf(Sender[e]) : j <= s.conv
  PROVE  Inv'
<1>1. /\ event \in [Events -> EventState] /\ convs \in Seq(Conversation)
      /\ earlier \in [Events -> SUBSET Events]
  BY DEF Inv, LineTypeOK, Conversation
<1>2. /\ convs' \in Seq(Conversation)
      /\ \A i \in 1..Len(convs) : i \in 1..Len(convs') /\ convs'[i] = convs[i]
  BY <1>1, Appended
<1>3. /\ event' \in [Events -> EventState] /\ event'[e] = s
      /\ \A f \in Events \ {e} : event'[f] = event[f]
  BY <1>1
<1>4. LineTypeOK'
  BY <1>2, <1>3 DEF Inv, LineTypeOK, Conversation
<1>5. ASSUME NEW f \in Events PROVE GoodConv(f)'
  <2>1. CASE f = e
    BY <1>3, <2>1 DEF GoodConv, LineAt
  <2>2. CASE f # e
    <3>1. event'[f] = event[f] /\ GoodConv(f)
      BY <1>3, <2>2 DEF Inv
    <3> QED
      BY <1>2, <3>1 DEF GoodConv, LineAt
  <2> QED
    BY <2>1, <2>2
<1>6. \A g \in Events : \A f \in earlier[g] : f # e /\ f \in Events /\ Over(f)
  BY <1>1 DEF Inv, EarlierAreOver
<1>7. EarlierAreOver'
  BY <1>3, <1>6 DEF EarlierAreOver, Over
<1>8. MovesForward'
  <2> SUFFICES ASSUME NEW g \in Events, NEW f \in Events, "text" \in event'[f].left,
                      event'[g].conv # 0, Sender[g] = Sender[f], f \in earlier[g]
               PROVE  event'[f].conv <= event'[g].conv
    BY DEF MovesForward
  <2>1. event'[f] = event[f] /\ GoodConv(f)
    BY <1>3, <1>6 DEF Inv
  <2>2. CASE event'[g].conv = event[g].conv
    BY <2>1, <2>2 DEF Inv, MovesForward
  <2>3. CASE event'[g].conv # event[g].conv
    <3>1. g = e /\ \A j \in OpenOf(Sender[e]) : j <= s.conv
      BY <1>3, <2>3
    <3>2. event[f].conv \in OpenOf(Sender[e])
      BY <2>1, <3>1 DEF GoodConv, OpenOf
    <3> QED
      BY <1>3, <2>1, <3>1, <3>2
  <2> QED
    BY <2>2, <2>3
<1> QED
  BY <1>4, <1>5, <1>7, <1>8 DEF Inv

\* One event moves without a conversation being made or taken.
LEMMA PlainMove ==
  ASSUME Inv, NEW e \in Events, ~Over(e), ~LineAt(e, "new"), NEW s \in EventState,
         event' = [event EXCEPT ![e] = s], UNCHANGED <<convs, hasBranch, earlier>>,
         account' \in [Events -> {"none", "active", "inactive"}],
         s.conv = event[e].conv, s.pc # "new",
         s.pc \in {"author", "store"} => event[e].conv # 0,
         "text" \in s.left => "text" \in event[e].left \/ event[e].conv # 0
  PROVE  Inv'
<1>1. GoodConv(e)
  BY DEF Inv
<1>2. s.conv # 0 => s.conv \in 1..Len(convs') /\ convs'[s.conv].user = Sender[e]
  BY <1>1 DEF GoodConv
<1>3. s.pc \in {"author", "store"} \/ "text" \in s.left => s.conv # 0
  BY <1>1 DEF GoodConv
<1>4. Sender[e] \in LineUsers
  BY LineAssumption
<1>5. PICK c \in Conversation : TRUE
  <2>1. [user |-> Sender[e], by |-> e] \in Conversation
    BY <1>4 DEF Conversation
  <2> QED
    BY <2>1
<1> QED
  BY <1>2, <1>3, <1>5, EventMoves

\* The steps that only go on.
LEMMA AdvanceKeepsInv ==
  ASSUME Inv, NEW e \in Events, ~Over(e), ~LineAt(e, "new"),
         NEW pc \in LinePcs \ {"new"}, pc \in {"author", "store"} => event[e].conv # 0,
         Advance(e, pc),
         account' \in [Events -> {"none", "active", "inactive"}],
         UNCHANGED <<convs, hasBranch, earlier>>
  PROVE  Inv'
<1>1. event[e] \in EventState /\ event \in [Events -> EventState]
  BY DEF Inv, LineTypeOK
<1>2. PICK s : s = [event[e] EXCEPT !.pc = pc]
  OBVIOUS
<1>3. event' = [event EXCEPT ![e] = s]
  BY <1>1, <1>2 DEF Advance
<1>4. s \in EventState /\ s.pc = pc /\ s.conv = event[e].conv /\ s.left = event[e].left
  BY <1>1, <1>2 DEF EventState
<1> QED
  BY <1>3, <1>4, PlainMove

\* The steps that leave a trace.
LEMMA LeaveKeepsInv ==
  ASSUME Inv, NEW e \in Events, ~Over(e), ~LineAt(e, "new"),
         NEW pc \in LinePcs \ {"new", "author", "store"}, NEW trace \in Traces \ {"text"},
         Leave(e, pc, trace), UNCHANGED <<account, convs, hasBranch, earlier>>
  PROVE  Inv'
<1>1. /\ event[e] \in EventState /\ event \in [Events -> EventState]
      /\ account' \in [Events -> {"none", "active", "inactive"}]
  BY DEF Inv, LineTypeOK
<1>2. PICK s : s = [event[e] EXCEPT !.pc = pc, !.left = @ \cup {trace}]
  OBVIOUS
<1>3. event' = [event EXCEPT ![e] = s]
  BY <1>1, <1>2 DEF Leave
<1>4. s \in EventState /\ s.pc = pc /\ s.conv = event[e].conv
      /\ s.left = event[e].left \cup {trace}
  BY <1>1, <1>2 DEF EventState
<1> QED
  BY <1>1, <1>3, <1>4, PlainMove

-----------------------------------------------------------------------------
(* The actions.                                                            *)

\* What the steps of an event rely on.
LEMMA AtLine ==
  ASSUME Inv, NEW e \in Events, NEW pc, LineAt(e, pc), pc \notin {"new", "done", "lost"}
  PROVE  /\ ~Over(e) /\ ~LineAt(e, "new")
         /\ event[e] \in EventState /\ event \in [Events -> EventState]
         /\ account \in [Events -> {"none", "active", "inactive"}]
         /\ pc \in {"author", "store"} => event[e].conv # 0
  BY DEF Inv, GoodConv, LineAt, Over, LineTypeOK

LEMMA DispatchKeepsInv ==
  ASSUME Inv, NEW e \in Events, Dispatch(e)
  PROVE  Inv'
<1>1. PICK pc : pc = CASE KindOf[e] = "image" -> "download"
                       [] KindOf[e] = "text" -> "branch"
                       [] OTHER -> "user"
  OBVIOUS
<1>2. pc \in {"download", "branch", "user"}
  BY <1>1
<1>3. /\ event \in [Events -> EventState] /\ event[e].pc = "new" /\ event[e].conv = 0
      /\ event' = [event EXCEPT ![e].pc = pc]
      /\ earlier' = [earlier EXCEPT ![e] = {f \in Events : Over(f)}]
      /\ earlier \in [Events -> SUBSET Events]
      /\ UNCHANGED <<account, convs, hasBranch>>
  BY <1>1 DEF Inv, LineTypeOK, GoodConv, Dispatch, Advance, LineAt
<1>4. PICK s : s = [event[e] EXCEPT !.pc = pc]
  OBVIOUS
<1>5. event[e] \in EventState
  BY <1>3
<1>6. s \in EventState /\ s.pc = pc /\ s.conv = 0 /\ s.left = event[e].left
  BY <1>2, <1>3, <1>4, <1>5 DEF EventState, LinePcs
<1>7. event' \in [Events -> EventState] /\ event'[e] = s
      /\ \A f \in Events \ {e} : event'[f] = event[f]
  BY <1>3, <1>4, <1>6
<1>8. /\ earlier' \in [Events -> SUBSET Events] /\ earlier'[e] = {f \in Events : Over(f)}
      /\ \A g \in Events \ {e} : earlier'[g] = earlier[g]
  BY <1>3
<1>9. LineTypeOK'
  BY <1>3, <1>7, <1>8 DEF Inv, LineTypeOK
<1>10. ASSUME NEW f \in Events PROVE GoodConv(f)'
  <2>1. CASE f = e
    BY <1>2, <1>3, <1>5, <1>6, <1>7, <2>1 DEF Inv, GoodConv, LineAt
  <2>2. CASE f # e
    <3>1. event'[f] = event[f] /\ GoodConv(f)
      BY <1>7, <2>2 DEF Inv
    <3> QED
      BY <1>3, <3>1 DEF GoodConv, LineAt
  <2> QED
    BY <2>1, <2>2
<1>11. EarlierAreOver' /\ ~Over(e)
  BY <1>3, <1>7, <1>8 DEF Inv, EarlierAreOver, Over
<1>12. MovesForward'
  <2> SUFFICES ASSUME NEW g \in Events, NEW f \in Events, "text" \in event'[f].left,
                      event'[g].conv # 0, Sender[g] = Sender[f], f \in earlier'[g]
               PROVE  event'[f].conv <= event'[g].conv
    BY DEF MovesForward
  <2>1. g # e
    BY <1>6, <1>7
  <2>2. event'[g] = event[g] /\ f \in earlier[g]
    BY <1>7, <1>8, <2>1
  <2>3. event'[f].conv = event[f].conv /\ event'[f].left = event[f].left
    BY <1>3, <1>6, <1>7
  <2> QED
    BY <2>2, <2>3 DEF Inv, MovesForward
<1> QED
  BY <1>9, <1>10, <1>11, <1>12 DEF Inv

LEMMA UserKeepsInv ==
  ASSUME Inv, NEW e \in Events, FindUser(e) \/ InsertLiffUser(e) \/ UserFails(e)
  PROVE  Inv'
<1>1. /\ ~Over(e) /\ ~LineAt(e, "new")
      /\ event[e] \in EventState /\ event \in [Events -> EventState]
      /\ account \in [Events -> {"none", "active", "inactive"}]
  BY AtLine DEF FindUser, InsertLiffUser, UserFails
<1>2. AfterUser(e) \in {"done", "branch"}
  BY DEF AfterUser
<1>3. ASSUME NEW known \in BOOLEAN, NEW s, s = [event[e] EXCEPT !.pc = AfterUser(e), !.known = known],
             event' = [event EXCEPT ![e] = s], UNCHANGED <<convs, hasBranch, earlier>>,
             account' \in [Events -> {"none", "active", "inactive"}]
      PROVE  Inv'
  <2>1. s \in EventState /\ s.pc = AfterUser(e) /\ s.conv = event[e].conv
        /\ s.left = event[e].left
    BY <1>1, <1>2, <1>3 DEF EventState, LinePcs
  <2> QED
    BY <1>1, <1>2, <1>3, <2>1, PlainMove
<1>4. CASE FindUser(e) /\ KnownUser(Sender[e])
  <2>1. event' = [event EXCEPT ![e].pc = AfterUser(e), ![e].known = TRUE]
    BY <1>4 DEF FindUser
  <2>2. PICK s : s = [event[e] EXCEPT !.pc = AfterUser(e), !.known = TRUE]
    OBVIOUS
  <2>3. event' = [event EXCEPT ![e] = s]
    BY <1>1, <2>1, <2>2
  <2> QED
    BY <1>1, <1>3, <1>4, <2>2, <2>3 DEF FindUser
<1>5. CASE FindUser(e) /\ ~KnownUser(Sender[e])
  <2>1. event' = [event EXCEPT ![e].pc = "insertUser",
                               ![e].passedOver = InactiveOf(Sender[e])]
        /\ UNCHANGED <<account, convs, hasBranch, earlier>>
    BY <1>5 DEF FindUser
  <2>2. PICK s : s = [event[e] EXCEPT !.pc = "insertUser",
                                      !.passedOver = InactiveOf(Sender[e])]
    OBVIOUS
  <2>3. event' = [event EXCEPT ![e] = s]
    BY <1>1, <2>1, <2>2
  <2>4. s \in EventState /\ s.pc = "insertUser" /\ s.conv = event[e].conv
        /\ s.left = event[e].left
    BY <1>1, <2>2 DEF EventState, LinePcs, InactiveOf
  <2> QED
    BY <1>1, <2>1, <2>3, <2>4, PlainMove
<1>6. CASE InsertLiffUser(e)
  <2>1. event' = [event EXCEPT ![e].pc = AfterUser(e), ![e].known = TRUE]
        /\ account' = [account EXCEPT ![e] = "active"]
        /\ UNCHANGED <<convs, hasBranch, earlier>>
    BY <1>6 DEF InsertLiffUser
  <2>2. PICK s : s = [event[e] EXCEPT !.pc = AfterUser(e), !.known = TRUE]
    OBVIOUS
  <2>3. event' = [event EXCEPT ![e] = s]
    BY <1>1, <2>1, <2>2
  <2>4. account' \in [Events -> {"none", "active", "inactive"}]
    BY <1>1, <2>1
  <2> QED
    BY <1>3, <2>1, <2>2, <2>3, <2>4
<1>7. CASE UserFails(e)
  <2>1. Advance(e, AfterUser(e)) /\ UNCHANGED <<account, convs, hasBranch, earlier>>
    BY <1>7 DEF UserFails
  <2> QED
    BY <1>1, <1>2, <2>1, AdvanceKeepsInv DEF LinePcs
<1> QED
  BY <1>4, <1>5, <1>6, <1>7

LEMMA BranchKeepsInv ==
  ASSUME Inv, NEW e \in Events, FirstActiveBranch(e)
  PROVE  Inv'
<1>1. /\ ~Over(e) /\ ~LineAt(e, "new")
      /\ event[e] \in EventState /\ event \in [Events -> EventState]
      /\ account' \in [Events -> {"none", "active", "inactive"}]
      /\ hasBranch \in BOOLEAN
  BY AtLine DEF FirstActiveBranch, Inv, LineTypeOK
<1>2. PICK found \in {hasBranch} \cup IF e \in LineFaults THEN {FALSE} ELSE {} :
        event' = [event EXCEPT ![e].branch = found,
                    ![e].pc = IF KindOf[e] # "image" THEN "find"
                              ELSE IF found THEN "upload" ELSE "done"]
  BY DEF FirstActiveBranch
<1>3. PICK pc \in {"find", "upload", "done"} :
        pc = IF KindOf[e] # "image" THEN "find" ELSE IF found THEN "upload" ELSE "done"
  OBVIOUS
<1>4. found \in BOOLEAN
  BY <1>1
<1>5. PICK s : s = [event[e] EXCEPT !.branch = found, !.pc = pc]
  OBVIOUS
<1>6. event' = [event EXCEPT ![e] = s]
  BY <1>1, <1>2, <1>3, <1>5
<1>7. s \in EventState /\ s.pc = pc /\ s.conv = event[e].conv /\ s.left = event[e].left
  BY <1>1, <1>4, <1>5 DEF EventState, LinePcs
<1> QED
  BY <1>1, <1>6, <1>7, PlainMove DEF FirstActiveBranch

LEMMA AuthorKeepsInv ==
  ASSUME Inv, NEW e \in Events, FindAuthor(e) \/ StoreMessage(e) \/ StoreMessageFails(e)
  PROVE  Inv'
<1>1. /\ ~Over(e) /\ ~LineAt(e, "new") /\ event[e].conv # 0
      /\ event[e] \in EventState /\ event \in [Events -> EventState]
      /\ account' \in [Events -> {"none", "active", "inactive"}]
      /\ UNCHANGED <<account, convs, hasBranch, earlier>>
  BY AtLine DEF FindAuthor, StoreMessage, StoreMessageFails
<1>2. CASE FindAuthor(e)
  <2>1. PICK found \in BOOLEAN :
          event' = [event EXCEPT ![e].pc = "store", ![e].known = found]
    BY <1>2 DEF FindAuthor, KnownUser
  <2>2. PICK s : s = [event[e] EXCEPT !.pc = "store", !.known = found]
    OBVIOUS
  <2>3. event' = [event EXCEPT ![e] = s]
    BY <1>1, <2>1, <2>2
  <2>4. s \in EventState /\ s.pc = "store" /\ s.conv = event[e].conv /\ s.left = event[e].left
    BY <1>1, <2>2 DEF EventState, LinePcs
  <2> QED
    BY <1>1, <2>3, <2>4, PlainMove
<1>3. CASE StoreMessage(e)
  <2>1. PICK traces \in SUBSET Traces :
          event' = [event EXCEPT ![e].pc = "done", ![e].left = @ \cup traces]
    BY <1>3 DEF StoreMessage, Traces
  <2>2. PICK s : s = [event[e] EXCEPT !.pc = "done", !.left = @ \cup traces]
    OBVIOUS
  <2>3. event' = [event EXCEPT ![e] = s]
    BY <1>1, <2>1, <2>2
  <2>4. s \in EventState /\ s.pc = "done" /\ s.conv = event[e].conv
    BY <1>1, <2>2 DEF EventState, LinePcs
  <2> QED
    BY <1>1, <2>3, <2>4, PlainMove
<1>4. CASE StoreMessageFails(e)
  <2>1. Advance(e, "done")
    BY <1>4 DEF StoreMessageFails
  <2> QED
    BY <1>1, <2>1, AdvanceKeepsInv DEF LinePcs
<1> QED
  BY <1>2, <1>3, <1>4

LEMMA ImageKeepsInv ==
  ASSUME Inv, NEW e \in Events,
         \/ GetContent(e) \/ UploadImage(e) \/ CreateImport(e) \/ CreateLineInvoice(e)
         \/ EnqueueImage(e) \/ ImageFails(e)
  PROVE  Inv'
<1>1. /\ ~Over(e) /\ ~LineAt(e, "new")
      /\ event[e] \in EventState /\ event \in [Events -> EventState]
      /\ account' \in [Events -> {"none", "active", "inactive"}]
      /\ UNCHANGED <<account, convs, hasBranch, earlier>>
  BY AtLine DEF GetContent, UploadImage, CreateImport, CreateLineInvoice, EnqueueImage,
                ImageFails, LineAt
<1>2. CASE GetContent(e)
  BY <1>1, <1>2, AdvanceKeepsInv DEF GetContent, LinePcs
<1>3. CASE ImageFails(e)
  BY <1>1, <1>3, AdvanceKeepsInv DEF ImageFails, LinePcs
<1>4. CASE UploadImage(e)
  BY <1>1, <1>4, LeaveKeepsInv DEF UploadImage, LinePcs, Traces
<1>5. CASE CreateImport(e)
  BY <1>1, <1>5, LeaveKeepsInv DEF CreateImport, LinePcs, Traces
<1>6. CASE CreateLineInvoice(e)
  BY <1>1, <1>6, LeaveKeepsInv DEF CreateLineInvoice, LinePcs, Traces
<1>7. CASE EnqueueImage(e)
  <2>1. PICK traces \in SUBSET {"task", "receipt"} :
          event' = [event EXCEPT ![e].pc = "done", ![e].left = @ \cup traces]
    <3>1. PICK queued \in BOOLEAN :
            event' = [event EXCEPT ![e].pc = "done",
                        ![e].left = @ \cup (IF queued THEN {"task"} ELSE {}) \cup {"receipt"}]
      BY <1>7 DEF EnqueueImage
    <3>2. PICK traces \in SUBSET {"task", "receipt"} :
            traces = (IF queued THEN {"task"} ELSE {}) \cup {"receipt"}
      OBVIOUS
    <3>3. event[e].left \cup (IF queued THEN {"task"} ELSE {}) \cup {"receipt"}
            = event[e].left \cup traces
      BY <3>2
    <3> QED
      BY <1>1, <3>1, <3>3
  <2>2. PICK s : s = [event[e] EXCEPT !.pc = "done", !.left = @ \cup traces]
    OBVIOUS
  <2>3. event' = [event EXCEPT ![e] = s]
    BY <1>1, <2>1, <2>2
  <2>4. s \in EventState /\ s.pc = "done" /\ s.conv = event[e].conv
        /\ s.left = event[e].left \cup traces
    BY <1>1, <2>2 DEF EventState, LinePcs, Traces
  <2> QED
    BY <1>1, <2>3, <2>4, PlainMove
<1> QED
  BY <1>2, <1>3, <1>4, <1>5, <1>6, <1>7


LEMMA ConversationKeepsInv ==
  ASSUME Inv, NEW e \in Events,
         \/ FindConversation(e) \/ FindConversationFails(e)
         \/ InsertConversation(e) \/ InsertConversationFails(e)
  PROVE  Inv'
<1>1. /\ ~Over(e) /\ ~LineAt(e, "new")
      /\ event[e] \in EventState /\ event \in [Events -> EventState]
      /\ account' \in [Events -> {"none", "active", "inactive"}]
      /\ convs \in Seq(Conversation)
      /\ UNCHANGED <<account, hasBranch, earlier>>
  BY AtLine DEF FindConversation, FindConversationFails, InsertConversation,
                InsertConversationFails, Inv, LineTypeOK, Conversation
<1>2. AfterConv(e) \in {"author", "done"}
  BY DEF AfterConv
<1>3. Sender[e] \in LineUsers
  BY LineAssumption
<1>4. PICK c \in Conversation : c = [user |-> Sender[e], by |-> e]
  BY <1>3 DEF Conversation
<1>5. CASE FindConversation(e) /\ Advance(e, "insertConv")
  BY <1>1, <1>5, AdvanceKeepsInv DEF FindConversation, LinePcs
<1>6. ASSUME NEW i \in OpenOf(Sender[e]), \A j \in OpenOf(Sender[e]) : j <= i,
             event' = [event EXCEPT ![e].pc = AfterConv(e), ![e].conv = i],
             convs' = convs
      PROVE  Inv'
  <2>1. i \in 1..Len(convs) /\ convs[i].user = Sender[e] /\ i \in Nat \ {0}
    BY <1>1, <1>6 DEF OpenOf
  <2>2. PICK s : s = [event[e] EXCEPT !.pc = AfterConv(e), !.conv = i]
    OBVIOUS
  <2>3. event' = [event EXCEPT ![e] = s]
    BY <1>1, <1>6, <2>2
  <2>4. s \in EventState /\ s.pc = AfterConv(e) /\ s.conv = i
    BY <1>1, <1>2, <2>1, <2>2 DEF EventState, LinePcs
  <2> QED
    BY <1>1, <1>2, <1>4, <1>6, <2>1, <2>3, <2>4, EventMoves
<1>7. CASE FindConversationFails(e)
  <2>1. event' = [event EXCEPT ![e].pc = "insertConv", ![e].blind = TRUE] /\ convs' = convs
    BY <1>7 DEF FindConversationFails
  <2>2. PICK s : s = [event[e] EXCEPT !.pc = "insertConv", !.blind = TRUE]
    OBVIOUS
  <2>3. event' = [event EXCEPT ![e] = s]
    BY <1>1, <2>1, <2>2
  <2>4. s \in EventState /\ s.pc = "insertConv" /\ s.conv = event[e].conv
        /\ s.left = event[e].left
    BY <1>1, <2>2 DEF EventState, LinePcs
  <2> QED
    BY <1>1, <2>1, <2>3, <2>4, PlainMove
<1>8. CASE InsertConversation(e)
  <2>1. /\ convs' = Append(convs, c) /\ Len(convs) \in Nat
        /\ event' = [event EXCEPT ![e].pc = AfterConv(e), ![e].conv = Len(convs) + 1]
    BY <1>1, <1>4, <1>8 DEF InsertConversation
  <2>2. PICK n \in Nat \ {0} : n = Len(convs) + 1
    BY <2>1
  <2>3. n \in 1..Len(convs') /\ convs'[n] = c /\ c.user = Sender[e]
    BY <1>1, <1>4, <2>1, <2>2
  <2>4. PICK s : s = [event[e] EXCEPT !.pc = AfterConv(e), !.conv = n]
    OBVIOUS
  <2>5. event' = [event EXCEPT ![e] = s]
    BY <1>1, <2>1, <2>2, <2>4
  <2>6. s \in EventState /\ s.pc = AfterConv(e) /\ s.conv = n
    BY <1>1, <1>2, <2>2, <2>4 DEF EventState, LinePcs
  <2>7. \A j \in OpenOf(Sender[e]) : j <= n
    BY <2>1, <2>2 DEF OpenOf
  <2>8. /\ s.conv # 0 /\ s.conv \in 1..Len(convs') /\ convs'[s.conv].user = Sender[e]
        /\ s.pc # "new" /\ \A j \in OpenOf(Sender[e]) : j <= s.conv
    BY <1>2, <2>2, <2>3, <2>6, <2>7
  <2> QED
    BY <1>1, <2>1, <2>5, <2>6, <2>8, EventMoves
<1>9. CASE InsertConversationFails(e)
  BY <1>1, <1>9, AdvanceKeepsInv DEF InsertConversationFails, LinePcs
<1> QED
  BY <1>5, <1>6, <1>7, <1>8, <1>9 DEF FindConversation

\* Everybody else's steps leave the events where they are.
LEMMA OthersKeepInv ==
  ASSUME Inv, UNCHANGED <<event, earlier>>, hasBranch' \in BOOLEAN,
         account' \in [Events -> {"none", "active", "inactive"}],
         convs' = convs \/ \E c \in Conversation : convs' = Append(convs, c)
  PROVE  Inv'
<1>1. /\ convs' \in Seq(Conversation)
      /\ \A i \in 1..Len(convs) : i \in 1..Len(convs') /\ convs'[i] = convs[i]
  <2>1. convs \in Seq(Conversation)
    BY DEF Inv, LineTypeOK, Conversation
  <2>2. CASE convs' = convs
    BY <2>1, <2>2
  <2>3. CASE \E c \in Conversation : convs' = Append(convs, c)
    BY <2>1, <2>3, Appended
  <2> QED
    BY <2>2, <2>3
<1>2. LineTypeOK'
  BY <1>1 DEF Inv, LineTypeOK, Conversation
<1>3. ASSUME NEW e \in Events PROVE GoodConv(e)'
  <2>1. GoodConv(e)
    BY DEF Inv
  <2> QED
    BY <1>1, <2>1 DEF GoodConv, LineAt
<1>4. EarlierAreOver' /\ MovesForward'
  BY DEF Inv, EarlierAreOver, MovesForward, Over
<1> QED
  BY <1>2, <1>3, <1>4 DEF Inv

LEMMA AdministrationKeepsInv ==
  ASSUME Inv,
         \/ \E e \in Events : DeactivateAccount(e) \/ ReactivateAccount(e)
         \/ \E u \in LineUsers : CreateConversation(u)
         \/ SetBranches
         \/ UNCHANGED lineVars
  PROVE  Inv'
<1>1. /\ account \in [Events -> {"none", "active", "inactive"}]
      /\ hasBranch \in BOOLEAN
  BY DEF Inv, LineTypeOK
<1>2. CASE \E e \in Events : DeactivateAccount(e) \/ ReactivateAccount(e)
  BY <1>1, <1>2, OthersKeepInv DEF DeactivateAccount, ReactivateAccount
<1>3. CASE \E u \in LineUsers : CreateConversation(u)
  <2>1. PICK u \in LineUsers : CreateConversation(u)
    BY <1>3
  <2>2. [user |-> u, by |-> ByHand] \in Conversation
    BY DEF Conversation
  <2> QED
    BY <1>1, <2>1, <2>2, OthersKeepInv DEF CreateConversation
<1>4. CASE SetBranches
  BY <1>1, <1>4, OthersKeepInv DEF SetBranches
<1>5. CASE UNCHANGED lineVars
  BY <1>1, <1>5, OthersKeepInv DEF lineVars
<1> QED
  BY <1>2, <1>3, <1>4, <1>5

LEMMA LineCrashKeepsInv ==
  ASSUME Inv, LineCrash
  PROVE  Inv'
<1>1. /\ event \in [Events -> EventState]
      /\ UNCHANGED <<account, convs, hasBranch, earlier>>
      /\ earlier \in [Events -> SUBSET Events]
  BY DEF Inv, LineTypeOK, LineCrash
<1>2. ASSUME NEW e \in Events
      PROVE  /\ event'[e] \in EventState
             /\ event'[e].conv = event[e].conv /\ event'[e].left = event[e].left
             /\ event'[e].pc \in {event[e].pc, "lost"}
             /\ Over(e) => event'[e] = event[e]
  <2>1. event[e] \in EventState
    BY <1>1
  <2>2. CASE Begun(e) /\ ~Over(e)
    <3>1. event'[e] = [event[e] EXCEPT !.pc = "lost"]
      BY <2>2 DEF LineCrash
    <3> QED
      BY <2>1, <2>2, <3>1 DEF EventState, LinePcs
  <2>3. CASE ~(Begun(e) /\ ~Over(e))
    <3>1. event'[e] = event[e]
      BY <2>3 DEF LineCrash
    <3> QED
      BY <2>1, <3>1
  <2> QED
    BY <2>2, <2>3
<1>3. event' \in [Events -> EventState]
  <2>1. event' = [e \in Events |-> event'[e]]
    BY DEF LineCrash
  <2> QED
    BY <1>2, <2>1
<1>4. LineTypeOK'
  BY <1>1, <1>3 DEF Inv, LineTypeOK
<1>5. ASSUME NEW e \in Events PROVE GoodConv(e)'
  <2>1. GoodConv(e)
    BY DEF Inv
  <2> QED
    BY <1>1, <1>2, <2>1 DEF GoodConv, LineAt
<1>6. EarlierAreOver'
  BY <1>1, <1>2 DEF Inv, EarlierAreOver, Over
<1>7. MovesForward'
  BY <1>1, <1>2 DEF Inv, MovesForward
<1> QED
  BY <1>4, <1>5, <1>6, <1>7 DEF Inv

LEMMA NextKeepsInv == Inv /\ [LineNext]_lineVars => Inv'
<1> SUFFICES ASSUME Inv, [LineNext]_lineVars PROVE Inv'
  OBVIOUS
<1>1. CASE \E e \in Events : Dispatch(e)
  BY <1>1, DispatchKeepsInv
<1>2. CASE \E e \in Events : LineStep(e)
  BY <1>2, UserKeepsInv, BranchKeepsInv, ConversationKeepsInv, AuthorKeepsInv,
     ImageKeepsInv DEF LineStep
<1>3. CASE \/ \E e \in Events : DeactivateAccount(e) \/ ReactivateAccount(e)
           \/ \E u \in LineUsers : CreateConversation(u)
           \/ SetBranches
           \/ UNCHANGED lineVars
  BY <1>3, AdministrationKeepsInv
<1>4. CASE LineCrash
  BY <1>4, LineCrashKeepsInv
<1> QED
  BY <1>1, <1>2, <1>3, <1>4 DEF LineNext

THEOREM AlwaysInv == LineSpec => []Inv
  BY InitInv, NextKeepsInv, PTL DEF LineSpec

-----------------------------------------------------------------------------
\* Rows and goroutines keep the shape of the code's, whatever is delivered.
THEOREM LineTypes == LineSpec => []LineTypeOK
<1>1. Inv => LineTypeOK
  BY DEF Inv
<1> QED
  BY <1>1, AlwaysInv, PTL

\* A text that arrives after another of its sender was stored is put into the
\* conversation of that one or into a newer one: onLineText and
\* FindOrCreateConversationByLineUser, however they overlap, fail and crash.
THEOREM TextsOnlyForward == LineSpec => []TextsMoveForward
  BY AlwaysInv, InvMoves, PTL

-----------------------------------------------------------------------------
(* Rows made twice.  What an event may do to the rows of its sender, as far *)
(* as the events after it can tell.                                        *)

TextPcs == {"new", "branch", "find", "insertConv", "author", "store", "done", "lost"}

\* A text that failed by no fault of its own found neither branch nor conversation.
Unheard(e) ==
  event'[e].pc = "done" /\ "text" \notin event'[e].left /\ e \notin LineFaults
    => LineAt(e, "insertConv") /\ ~event'[e].branch /\ convs' = convs

Effect(e) ==
  /\ ~Over(e) /\ ~LineAt(e, "new") /\ event'[e].pc # "new" /\ earlier' = earlier
  /\ \A f \in Events \ {e} : event'[f] = event[f] /\ account'[f] = account[f]
  /\ \/ account'[e] = account[e]
     \/ LineAt(e, "insertUser") /\ account'[e] = "active"
  /\ event'[e].pc = "insertUser" => ~KnownUser(Sender[e]) /\ account'[e] = account[e]
       /\ event'[e].passedOver = InactiveOf(Sender[e])
  /\ event'[e].pc # "insertUser" => event'[e].passedOver = event[e].passedOver
  /\ event[e].blind => event'[e].blind
  /\ event'[e].blind => event[e].blind \/ e \in LineFaults
  /\ \/ convs' = convs
     \/ /\ LineAt(e, "insertConv") /\ event'[e].pc # "insertConv"
        /\ convs' = Append(convs, [user |-> Sender[e], by |-> e])
  /\ event'[e].pc = "insertConv" => event'[e].blind \/ OpenOf(Sender[e]) = {}
  /\ KindOf[e] = "text" /\ event[e].pc \in TextPcs =>
       event'[e].pc \in TextPcs /\ Unheard(e)

\* A step that writes neither an account nor a conversation.
LEMMA QuietEffect ==
  ASSUME Inv, NEW e \in Events, ~Over(e), ~LineAt(e, "new"), NEW s,
         event' = [event EXCEPT ![e] = s], UNCHANGED <<account, convs, earlier>>,
         s.pc \notin {"new", "insertUser", "insertConv"}, s.blind = event[e].blind /\ s.passedOver = event[e].passedOver,
         KindOf[e] = "text" /\ event[e].pc \in TextPcs =>
           /\ s.pc \in TextPcs
           /\ s.pc = "done" /\ "text" \notin s.left /\ e \notin LineFaults
                => LineAt(e, "insertConv") /\ ~s.branch
  PROVE  Effect(e)
<1>1. event'[e] = s /\ \A f \in Events \ {e} : event'[f] = event[f]
  BY DEF Inv, LineTypeOK
<1>2. account' = account /\ convs' = convs /\ earlier' = earlier
  OBVIOUS
<1>3. event'[e].pc # "new" /\ event'[e].pc # "insertUser" /\ event'[e].pc # "insertConv"
  BY <1>1
<1>4. event'[e].blind = event[e].blind /\ event'[e].passedOver = event[e].passedOver
  BY <1>1, Zenon
<1>5. KindOf[e] = "text" /\ event[e].pc \in TextPcs =>
        event'[e].pc \in TextPcs /\ Unheard(e)
  BY <1>1, <1>2, Zenon DEF Unheard
<1> QED
  BY <1>1, <1>2, <1>3, <1>4, <1>5 DEF Effect


\* The steps that only go on.
LEMMA AdvanceEffect ==
  ASSUME Inv, NEW e \in Events, ~Over(e), ~LineAt(e, "new"), NEW pc,
         Advance(e, pc), UNCHANGED <<account, convs, earlier>>,
         pc \notin {"new", "insertUser", "insertConv"},
         KindOf[e] = "text" /\ event[e].pc \in TextPcs =>
           /\ pc \in TextPcs
           /\ pc = "done" /\ "text" \notin event[e].left /\ e \notin LineFaults
                => LineAt(e, "insertConv") /\ ~event[e].branch
  PROVE  Effect(e)
<1>1. event[e] \in EventState /\ event \in [Events -> EventState]
  BY DEF Inv, LineTypeOK
<1>2. PICK s : s = [event[e] EXCEPT !.pc = pc]
  OBVIOUS
<1>3. event' = [event EXCEPT ![e] = s]
  BY <1>1, <1>2 DEF Advance
<1>4. s.pc = pc /\ s.left = event[e].left /\ s.blind = event[e].blind /\ s.passedOver = event[e].passedOver
      /\ s.branch = event[e].branch
  BY <1>1, <1>2 DEF EventState
<1> QED
  BY <1>3, <1>4, QuietEffect

LEMMA UserEffect ==
  ASSUME Inv, NEW e \in Events, FindUser(e) \/ InsertLiffUser(e) \/ UserFails(e)
  PROVE  Effect(e)
<1>1. /\ ~Over(e) /\ ~LineAt(e, "new")
      /\ event[e] \in EventState /\ event \in [Events -> EventState]
      /\ account \in [Events -> {"none", "active", "inactive"}]
      /\ LineAt(e, "user") \/ LineAt(e, "insertUser")
  BY AtLine DEF FindUser, InsertLiffUser, UserFails
<1>2. event[e].pc \notin TextPcs
  BY <1>1 DEF LineAt, TextPcs
<1>3. AfterUser(e) \in {"done", "branch"}
  BY DEF AfterUser
<1>4. PICK s : s = [event[e] EXCEPT !.pc = AfterUser(e), !.known = TRUE]
  OBVIOUS
<1>5. s.pc = AfterUser(e) /\ s.blind = event[e].blind /\ s.passedOver = event[e].passedOver
  BY <1>1, <1>4 DEF EventState
<1>6. CASE FindUser(e) /\ KnownUser(Sender[e])
  <2>1. event' = [event EXCEPT ![e].pc = AfterUser(e), ![e].known = TRUE]
        /\ UNCHANGED <<account, convs, earlier>>
    BY <1>6 DEF FindUser
  <2>2. event' = [event EXCEPT ![e] = s]
    BY <1>1, <1>4, <2>1
  <2> QED
    BY <1>1, <1>2, <1>3, <1>5, <2>1, <2>2, QuietEffect
<1>7. CASE FindUser(e) /\ ~KnownUser(Sender[e])
  <2>1. event' = [event EXCEPT ![e].pc = "insertUser",
                               ![e].passedOver = InactiveOf(Sender[e])]
        /\ UNCHANGED <<account, convs, earlier>>
    BY <1>7 DEF FindUser
  <2>2. event'[e] = [event[e] EXCEPT !.pc = "insertUser",
                                     !.passedOver = InactiveOf(Sender[e])]
        /\ \A f \in Events \ {e} : event'[f] = event[f]
    BY <1>1, <2>1
  <2>3. event'[e].pc = "insertUser" /\ event'[e].blind = event[e].blind
        /\ event'[e].passedOver = InactiveOf(Sender[e])
    BY <1>1, <2>2 DEF EventState
  <2> QED
    BY <1>1, <1>2, <1>7, <2>1, <2>2, <2>3 DEF Effect
<1>8. CASE InsertLiffUser(e)
  <2>1. event' = [event EXCEPT ![e].pc = AfterUser(e), ![e].known = TRUE]
        /\ account' = [account EXCEPT ![e] = "active"]
        /\ UNCHANGED <<convs, earlier>> /\ LineAt(e, "insertUser")
    BY <1>8 DEF InsertLiffUser
  <2>2. event'[e] = s /\ \A f \in Events \ {e} : event'[f] = event[f]
    BY <1>1, <1>4, <2>1
  <2>3. account'[e] = "active" /\ \A f \in Events \ {e} : account'[f] = account[f]
    BY <1>1, <2>1
  <2> QED
    BY <1>1, <1>2, <1>3, <1>5, <2>1, <2>2, <2>3 DEF Effect
<1>9. CASE UserFails(e)
  <2>1. Advance(e, AfterUser(e)) /\ UNCHANGED <<account, convs, earlier>>
    BY <1>9 DEF UserFails
  <2> QED
    BY <1>1, <1>2, <1>3, <2>1, AdvanceEffect
<1> QED
  BY <1>6, <1>7, <1>8, <1>9


LEMMA BranchEffect ==
  ASSUME Inv, NEW e \in Events, FirstActiveBranch(e)
  PROVE  Effect(e)
<1>1. /\ ~Over(e) /\ ~LineAt(e, "new")
      /\ event[e] \in EventState /\ event \in [Events -> EventState]
      /\ UNCHANGED <<account, convs, earlier>>
  BY AtLine DEF FirstActiveBranch
<1>2. PICK found : event' = [event EXCEPT ![e].branch = found,
                               ![e].pc = IF KindOf[e] # "image" THEN "find"
                                         ELSE IF found THEN "upload" ELSE "done"]
  BY DEF FirstActiveBranch
<1>3. PICK pc \in {"find", "upload", "done"} :
        pc = IF KindOf[e] # "image" THEN "find" ELSE IF found THEN "upload" ELSE "done"
  OBVIOUS
<1>4. PICK s : s = [event[e] EXCEPT !.branch = found, !.pc = pc]
  OBVIOUS
<1>5. event' = [event EXCEPT ![e] = s]
  BY <1>1, <1>2, <1>3, <1>4
<1>6. s.pc = pc /\ s.blind = event[e].blind /\ s.passedOver = event[e].passedOver
  BY <1>1, <1>4 DEF EventState
<1>7. KindOf[e] = "text" => pc = "find"
  BY <1>3
<1> QED
  BY <1>1, <1>3, <1>5, <1>6, <1>7, QuietEffect DEF TextPcs

LEMMA FindEffect ==
  ASSUME Inv, NEW e \in Events, FindConversation(e) \/ FindConversationFails(e)
  PROVE  Effect(e)
<1>1. /\ ~Over(e) /\ ~LineAt(e, "new") /\ LineAt(e, "find")
      /\ event[e] \in EventState /\ event \in [Events -> EventState]
      /\ UNCHANGED <<account, convs, earlier>>
  BY AtLine DEF FindConversation, FindConversationFails
<1>2. CASE FindConversationFails(e)
  <2>1. e \in LineFaults
        /\ event' = [event EXCEPT ![e].pc = "insertConv", ![e].blind = TRUE]
    BY <1>2 DEF FindConversationFails
  <2>2. event'[e] = [event[e] EXCEPT !.pc = "insertConv", !.blind = TRUE]
        /\ \A f \in Events \ {e} : event'[f] = event[f]
    BY <1>1, <2>1
  <2>3. event'[e].pc = "insertConv" /\ event'[e].blind
    BY <1>1, <2>2 DEF EventState
  <2> QED
    BY <1>1, <2>1, <2>2, <2>3 DEF Effect, Unheard, TextPcs
<1>3. CASE FindConversation(e) /\ OpenOf(Sender[e]) = {}
  <2>1. event' = [event EXCEPT ![e].pc = "insertConv"]
    BY <1>3 DEF FindConversation, Advance
  <2>2. event'[e] = [event[e] EXCEPT !.pc = "insertConv"]
        /\ \A f \in Events \ {e} : event'[f] = event[f]
    BY <1>1, <2>1
  <2>3. event'[e].pc = "insertConv" /\ event'[e].blind = event[e].blind
    BY <1>1, <2>2 DEF EventState
  <2> QED
    BY <1>1, <1>3, <2>2, <2>3 DEF Effect, Unheard, TextPcs
<1>4. CASE FindConversation(e) /\ OpenOf(Sender[e]) # {}
  <2>1. PICK i : event' = [event EXCEPT ![e].pc = AfterConv(e), ![e].conv = i]
    BY <1>4 DEF FindConversation
  <2>2. PICK s : s = [event[e] EXCEPT !.pc = AfterConv(e), !.conv = i]
    OBVIOUS
  <2>3. event' = [event EXCEPT ![e] = s]
    BY <1>1, <2>1, <2>2
  <2>4. s.pc = AfterConv(e) /\ s.blind = event[e].blind /\ s.passedOver = event[e].passedOver
    BY <1>1, <2>2 DEF EventState
  <2>5. s.pc = IF KindOf[e] = "text" THEN "author" ELSE "done"
    BY <2>4 DEF AfterConv
  <2> QED
    BY <1>1, <2>3, <2>4, <2>5, QuietEffect DEF TextPcs
<1> QED
  BY <1>2, <1>3, <1>4

LEMMA InsertEffect ==
  ASSUME Inv, NEW e \in Events, InsertConversation(e) \/ InsertConversationFails(e)
  PROVE  Effect(e)
<1>1. /\ ~Over(e) /\ ~LineAt(e, "new") /\ LineAt(e, "insertConv")
      /\ event[e] \in EventState /\ event \in [Events -> EventState]
      /\ UNCHANGED <<account, earlier>>
  BY AtLine DEF InsertConversation, InsertConversationFails
<1>2. CASE InsertConversation(e)
  <2>1. event' = [event EXCEPT ![e].pc = AfterConv(e), ![e].conv = Len(convs) + 1]
        /\ convs' = Append(convs, [user |-> Sender[e], by |-> e])
    BY <1>2 DEF InsertConversation
  <2>2. event'[e] = [event[e] EXCEPT !.pc = AfterConv(e), !.conv = Len(convs) + 1]
        /\ \A f \in Events \ {e} : event'[f] = event[f]
    BY <1>1, <2>1, Zenon
  <2>3. event'[e].pc = AfterConv(e) /\ event'[e].blind = event[e].blind
    BY <1>1, <2>2 DEF EventState
  <2>4. event'[e].pc = IF KindOf[e] = "text" THEN "author" ELSE "done"
    BY <2>3 DEF AfterConv
  <2> QED
    BY <1>1, <2>1, <2>2, <2>3, <2>4 DEF Effect, Unheard, TextPcs
<1>3. CASE InsertConversationFails(e)
  <2>1. Advance(e, "done") /\ UNCHANGED <<account, convs, earlier>>
        /\ (~event[e].branch \/ e \in LineFaults)
    BY <1>3 DEF InsertConversationFails
  <2> QED
    BY <1>1, <2>1, AdvanceEffect DEF TextPcs
<1> QED
  BY <1>2, <1>3

LEMMA AuthorEffect ==
  ASSUME Inv, NEW e \in Events, FindAuthor(e) \/ StoreMessage(e) \/ StoreMessageFails(e)
  PROVE  Effect(e)
<1>1. /\ ~Over(e) /\ ~LineAt(e, "new")
      /\ event[e] \in EventState /\ event \in [Events -> EventState]
      /\ UNCHANGED <<account, convs, earlier>>
  BY AtLine DEF FindAuthor, StoreMessage, StoreMessageFails
<1>2. CASE FindAuthor(e)
  <2>1. PICK found : event' = [event EXCEPT ![e].pc = "store", ![e].known = found]
    BY <1>2 DEF FindAuthor
  <2>2. PICK s : s = [event[e] EXCEPT !.pc = "store", !.known = found]
    OBVIOUS
  <2>3. event' = [event EXCEPT ![e] = s]
    BY <1>1, <2>1, <2>2
  <2>4. s.pc = "store" /\ s.blind = event[e].blind /\ s.passedOver = event[e].passedOver
    BY <1>1, <2>2 DEF EventState
  <2> QED
    BY <1>1, <2>3, <2>4, QuietEffect DEF TextPcs
<1>3. CASE StoreMessage(e)
  <2>1. PICK traces : /\ "text" \in traces
                      /\ event' = [event EXCEPT ![e].pc = "done", ![e].left = @ \cup traces]
    BY <1>3 DEF StoreMessage
  <2>2. PICK s : s = [event[e] EXCEPT !.pc = "done", !.left = @ \cup traces]
    OBVIOUS
  <2>3. event' = [event EXCEPT ![e] = s]
    BY <1>1, <2>1, <2>2
  <2>4. s.pc = "done" /\ s.blind = event[e].blind /\ s.passedOver = event[e].passedOver /\ "text" \in s.left
    BY <1>1, <2>1, <2>2 DEF EventState
  <2> QED
    BY <1>1, <2>3, <2>4, QuietEffect DEF TextPcs
<1>4. CASE StoreMessageFails(e)
  <2>1. Advance(e, "done") /\ e \in LineFaults
    BY <1>4 DEF StoreMessageFails
  <2> QED
    BY <1>1, <2>1, AdvanceEffect DEF TextPcs
<1> QED
  BY <1>2, <1>3, <1>4

LEMMA ImageEffect ==
  ASSUME Inv, NEW e \in Events,
         \/ GetContent(e) \/ UploadImage(e) \/ CreateImport(e) \/ CreateLineInvoice(e)
         \/ EnqueueImage(e) \/ ImageFails(e)
  PROVE  Effect(e)
<1>1. event[e].pc \in {"download", "upload", "import", "invoice", "enqueue"}
      /\ UNCHANGED <<account, convs, earlier>>
  BY DEF GetContent, UploadImage, CreateImport, CreateLineInvoice, EnqueueImage, ImageFails,
         LineAt
<1>2. /\ ~Over(e) /\ ~LineAt(e, "new") /\ event[e].pc \notin TextPcs
      /\ event[e] \in EventState /\ event \in [Events -> EventState]
  BY <1>1 DEF Inv, LineTypeOK, Over, LineAt, TextPcs
<1>3. PICK pc \in {"user", "import", "invoice", "enqueue", "done"} :
        \E traces : event' = [event EXCEPT ![e].pc = pc, ![e].left = traces]
  <2>1. CASE \E pc \in {"user", "done"} : Advance(e, pc)
    <3>1. PICK pc \in {"user", "done"} : event' = [event EXCEPT ![e].pc = pc]
      BY <2>1 DEF Advance
    <3>2. event' = [event EXCEPT ![e].pc = pc, ![e].left = event[e].left]
      BY <1>2, <3>1 DEF EventState
    <3> QED
      BY <3>2
  <2>2. CASE \E pc \in {"import", "invoice", "enqueue"} : \E trace : Leave(e, pc, trace)
    <3>1. PICK pc \in {"import", "invoice", "enqueue"} : \E trace :
            event' = [event EXCEPT ![e].pc = pc, ![e].left = event[e].left \cup {trace}]
      BY <2>2 DEF Leave
    <3> QED
      BY <3>1
  <2>3. CASE EnqueueImage(e)
    <3>1. PICK queued :
            event' = [event EXCEPT ![e].pc = "done",
              ![e].left = event[e].left \cup (IF queued THEN {"task"} ELSE {}) \cup {"receipt"}]
      BY <2>3 DEF EnqueueImage
    <3> QED
      BY <3>1
  <2> QED
    BY <2>1, <2>2, <2>3 DEF GetContent, UploadImage, CreateImport, CreateLineInvoice, ImageFails
<1>4. PICK traces : event' = [event EXCEPT ![e].pc = pc, ![e].left = traces]
  BY <1>3
<1>5. PICK s : s = [event[e] EXCEPT !.pc = pc, !.left = traces]
  OBVIOUS
<1>6. event' = [event EXCEPT ![e] = s]
  BY <1>2, <1>4, <1>5
<1>7. s.pc = pc /\ s.blind = event[e].blind /\ s.passedOver = event[e].passedOver
  BY <1>2, <1>5 DEF EventState
<1> QED
  BY <1>1, <1>2, <1>3, <1>6, <1>7, QuietEffect

LEMMA StepEffect ==
  ASSUME Inv, NEW e \in Events, LineStep(e)
  PROVE  Effect(e)
  BY UserEffect, BranchEffect, FindEffect, InsertEffect, AuthorEffect, ImageEffect, Zenon
  DEF LineStep


-----------------------------------------------------------------------------
(* The invariants of the rows made twice.                                  *)

\* No conversation of the sender comes from an event that was over before this one.
Unseen(e) ==
  \A i \in 1..Len(convs) :
    convs[i].user = Sender[e] /\ convs[i].by # ByHand => convs[i].by \notin earlier[e]

\* An event that inserts an account has passed over those from before it.
Accounts ==
  \A e, f \in Events :
    /\ e \in earlier[f] /\ Sender[e] = Sender[f] /\ account[e] # "none"
    /\ LineAt(f, "insertUser") \/ account[f] # "none"
    => e \in event[f].passedOver

Rows(e) ==
  /\ LineAt(e, "new") => account[e] = "none" /\ ~event[e].blind
  /\ event[e].blind => e \in LineFaults
  /\ LineAt(e, "insertConv") => event[e].blind \/ Unseen(e)
  /\ KindOf[e] = "text" =>
       /\ event[e].pc \in TextPcs
       /\ LineAt(e, "done") /\ "text" \notin event[e].left /\ e \notin LineFaults
            => ~event[e].branch /\ Unseen(e)

\* Who made a conversation has begun.
MadeByBegun ==
  \A i \in 1..Len(convs) : convs[i].by # ByHand => Begun(convs[i].by)

FirstsInv ==
  /\ Accounts
  /\ \A e \in Events : Rows(e)
  /\ MadeByBegun
  /\ SecondConversationOnlyByRaceOrBlind

LEMMA FirstsKept == FirstsInv => SecondAccountOnlyByRaceOrReturn /\ TextsAreKept
<1> SUFFICES ASSUME FirstsInv PROVE SecondAccountOnlyByRaceOrReturn /\ TextsAreKept
  OBVIOUS
<1>1. SecondAccountOnlyByRaceOrReturn
  BY DEF FirstsInv, Accounts, SecondAccountOnlyByRaceOrReturn
<1>2. ASSUME NEW e \in Events, LineAt(e, "done"), KindOf[e] = "text",
             "text" \notin event[e].left, e \notin LineFaults
      PROVE  ~event[e].branch /\ \A i \in OpenOf(Sender[e]) :
               convs[i].by # ByHand => convs[i].by \notin earlier[e]
  <2>1. ~event[e].branch /\ Unseen(e)
    BY <1>2 DEF FirstsInv, Rows
  <2> QED
    BY <2>1 DEF Unseen, OpenOf
<1> QED
  BY <1>1, <1>2 DEF TextsAreKept

LEMMA InitFirsts == LineInit => FirstsInv
<1> SUFFICES ASSUME LineInit PROVE FirstsInv
  OBVIOUS
<1>1. Accounts /\ MadeByBegun /\ SecondConversationOnlyByRaceOrBlind
  BY DEF LineInit, Accounts, MadeByBegun, SecondConversationOnlyByRaceOrBlind
<1>2. ASSUME NEW e \in Events PROVE Rows(e)
  BY DEF LineInit, Rows, LineAt, TextPcs
<1> QED
  BY <1>1, <1>2 DEF FirstsInv

\* A conversation made by one who is not over is unseen by those who look back.
LEMMA UnseenStays ==
  ASSUME Inv, NEW e \in Events, Unseen(e), earlier'[e] = earlier[e],
         NEW f \in Events, ~Over(f), NEW u,
         convs' = convs \/ convs' = Append(convs, [user |-> u, by |-> f])
  PROVE  Unseen(e)'
<1>1. f \notin earlier[e] /\ convs \in Seq(Conversation)
  BY DEF Inv, EarlierAreOver, LineTypeOK, Conversation
<1>2. CASE convs' = convs
  BY <1>2 DEF Unseen
<1>3. CASE convs' = Append(convs, [user |-> u, by |-> f])
  <2>1. ASSUME NEW i \in 1..Len(convs')
        PROVE  \/ i \in 1..Len(convs) /\ convs'[i] = convs[i]
               \/ convs'[i].by = f
    BY <1>1, <1>3
  <2> QED
    BY <1>1, <2>1 DEF Unseen
<1> QED
  BY <1>2, <1>3


LEMMA AccountsStep ==
  ASSUME Inv, FirstsInv, NEW e \in Events, Effect(e)
  PROVE  Accounts'
<1> SUFFICES ASSUME NEW f \in Events, NEW g \in Events, f \in earlier[g],
                    Sender[f] = Sender[g], account'[f] # "none",
                    event'[g].pc = "insertUser" \/ account'[g] # "none"
             PROVE  f \in event'[g].passedOver
  BY DEF Accounts, Effect, LineAt
<1>1. f # e /\ account[f] # "none" /\ account[f] = account'[f]
  BY DEF Inv, EarlierAreOver, Effect
<1>2. event[g].pc = "insertUser" \/ account[g] # "none" => f \in event[g].passedOver
  BY <1>1 DEF FirstsInv, Accounts, LineAt
<1>3. CASE g # e
  BY <1>2, <1>3 DEF Effect
<1>4. CASE g = e /\ event'[e].pc = "insertUser"
  <2>1. account[f] = "inactive"
    BY <1>1, <1>4 DEF Effect, KnownUser, Inv, LineTypeOK
  <2>2. f \in InactiveOf(Sender[e])
    BY <1>4, <2>1 DEF InactiveOf
  <2> QED
    BY <1>4, <2>2 DEF Effect
<1>5. CASE g = e /\ event'[e].pc # "insertUser"
  <2>1. event[g].pc = "insertUser" \/ account[g] # "none"
    BY <1>5 DEF Effect, LineAt
  <2> QED
    BY <1>2, <1>5, <2>1 DEF Effect
<1> QED
  BY <1>3, <1>4, <1>5

LEMMA RowsStep ==
  ASSUME Inv, FirstsInv, NEW e \in Events, Effect(e), NEW f \in Events
  PROVE  Rows(f)'
<1>1. Rows(f) /\ earlier' = earlier
  BY DEF FirstsInv, Effect
<1>2. Unseen(f) => Unseen(f)'
  <2>1. convs' = convs \/ convs' = Append(convs, [user |-> Sender[e], by |-> e])
    BY DEF Effect
  <2>2. ~Over(e) /\ earlier'[f] = earlier[f]
    BY DEF Effect
  <2> QED
    BY <2>1, <2>2, UnseenStays
<1>3. CASE f # e
  <2>1. event'[f] = event[f] /\ account'[f] = account[f]
    BY <1>3 DEF Effect
  <2> QED
    BY <1>1, <1>2, <2>1 DEF Rows, LineAt
<1>4. CASE f = e
  <2>1. event'[e].pc # "new" /\ (event'[e].blind => e \in LineFaults)
    BY <1>1, <1>4 DEF Effect, Rows
  <2>2. OpenOf(Sender[e]) = {} => Unseen(e)
    BY DEF OpenOf, Unseen
  <2>3. event'[e].pc = "insertConv" => event'[e].blind \/ Unseen(e)'
    BY <1>2, <1>4, <2>2 DEF Effect
  <2>4. ASSUME KindOf[e] = "text"
        PROVE  event'[e].pc \in TextPcs /\ Unheard(e)
    BY <1>1, <1>4, <2>4 DEF Rows, Effect
  <2>5. ASSUME KindOf[e] = "text", event'[e].pc = "done", "text" \notin event'[e].left,
               e \notin LineFaults
        PROVE  ~event'[e].branch /\ Unseen(e)'
    <3>1. LineAt(e, "insertConv") /\ ~event'[e].branch
      BY <2>4, <2>5 DEF Unheard
    <3>2. Unseen(e)
      BY <1>1, <1>4, <2>5, <3>1 DEF Rows
    <3> QED
      BY <1>2, <1>4, <3>1, <3>2
  <2> QED
    BY <1>4, <2>1, <2>3, <2>4, <2>5 DEF Rows, LineAt
<1> QED
  BY <1>3, <1>4

LEMMA ConversationsStep ==
  ASSUME Inv, FirstsInv, NEW e \in Events, Effect(e)
  PROVE  MadeByBegun' /\ SecondConversationOnlyByRaceOrBlind'
<1>1. /\ convs \in Seq(Conversation) /\ earlier' = earlier
      /\ \A f \in Events : Begun(f) => Begun(f)'
      /\ \A f \in Events : event[f].blind => event'[f].blind
      /\ Begun(e)'
  BY DEF Inv, LineTypeOK, Conversation, Effect, Begun, LineAt
<1>2. \A i \in 1..Len(convs) : convs[i].by # ByHand => convs[i].by \in Events
  <2> SUFFICES ASSUME NEW i \in 1..Len(convs), convs[i].by # ByHand PROVE convs[i].by \in Events
    OBVIOUS
  <2>1. convs[i] \in Conversation
    BY <1>1
  <2> QED
    BY <2>1 DEF Conversation
<1>3. CASE convs' = convs
  BY <1>1, <1>2, <1>3 DEF FirstsInv, MadeByBegun, SecondConversationOnlyByRaceOrBlind
<1>4. CASE /\ LineAt(e, "insertConv")
           /\ convs' = Append(convs, [user |-> Sender[e], by |-> e])
  <2>1. /\ Len(convs) \in Nat /\ Len(convs') = Len(convs) + 1
        /\ \A i \in 1..Len(convs) : convs'[i] = convs[i]
        /\ convs'[Len(convs) + 1].user = Sender[e] /\ convs'[Len(convs) + 1].by = e
    BY <1>1, <1>4
  <2>2. MadeByBegun'
    <3> SUFFICES ASSUME NEW i \in 1..Len(convs'), convs'[i].by # ByHand
                 PROVE  Begun(convs[i].by)'
      BY DEF MadeByBegun
    <3>1. CASE i = Len(convs) + 1
      BY <1>1, <2>1, <3>1
    <3>2. CASE i \in 1..Len(convs)
      BY <1>1, <1>2, <2>1, <3>2 DEF FirstsInv, MadeByBegun
    <3> QED
      BY <2>1, <3>1, <3>2
  <2>3. SecondConversationOnlyByRaceOrBlind'
    <3> SUFFICES ASSUME NEW i \in 1..Len(convs'), NEW k \in 1..Len(convs'), i < k,
                        convs'[i].user = convs'[k].user,
                        ByHand \notin {convs'[i].by, convs'[k].by}
                 PROVE  convs'[i].by \notin earlier[convs'[k].by] \/ event'[convs'[k].by].blind
      BY <1>1 DEF SecondConversationOnlyByRaceOrBlind
    <3>1. i \in 1..Len(convs)
      BY <2>1
    <3>2. CASE k \in 1..Len(convs)
      BY <1>1, <1>2, <2>1, <3>1, <3>2 DEF FirstsInv, SecondConversationOnlyByRaceOrBlind
    <3>3. CASE k = Len(convs) + 1
      <4>1. event[e].blind \/ Unseen(e)
        BY <1>4 DEF FirstsInv, Rows
      <4>2. convs[i].user = Sender[e] /\ convs[i].by # ByHand /\ convs'[i] = convs[i]
        BY <2>1, <3>1, <3>3
      <4>3. convs'[k].by = e
        BY <2>1, <3>3
      <4> QED
        BY <1>1, <3>1, <4>1, <4>2, <4>3 DEF Unseen
    <3> QED
      BY <2>1, <3>2, <3>3
  <2> QED
    BY <2>2, <2>3
<1> QED
  BY <1>3, <1>4 DEF Effect

-----------------------------------------------------------------------------
\* An event that begins comes after those that are over, and has left nothing.
LEMMA DispatchFirsts ==
  ASSUME Inv, FirstsInv, NEW e \in Events, Dispatch(e)
  PROVE  FirstsInv'
<1>1. PICK pc : pc = CASE KindOf[e] = "image" -> "download"
                       [] KindOf[e] = "text" -> "branch"
                       [] OTHER -> "user"
  OBVIOUS
<1>2. pc \in {"download", "branch", "user"} /\ (KindOf[e] = "text" => pc = "branch")
  BY <1>1
<1>3. /\ event \in [Events -> EventState] /\ event[e].pc = "new"
      /\ event' = [event EXCEPT ![e].pc = pc]
      /\ earlier' = [earlier EXCEPT ![e] = {f \in Events : Over(f)}]
      /\ earlier \in [Events -> SUBSET Events]
      /\ convs \in Seq(Conversation)
      /\ account' = account /\ convs' = convs
  BY <1>1 DEF Inv, LineTypeOK, Conversation, Dispatch, Advance, LineAt
<1>4. /\ event'[e] = [event[e] EXCEPT !.pc = pc]
      /\ \A f \in Events \ {e} : event'[f] = event[f] /\ earlier'[f] = earlier[f]
  BY <1>3
<1>5. event'[e].pc = pc /\ event'[e].blind = event[e].blind
  BY <1>3, <1>4 DEF EventState
<1>6. account[e] = "none" /\ ~event[e].blind
  BY <1>3 DEF FirstsInv, Rows, LineAt
<1>7. \A i \in 1..Len(convs) : convs[i].by # ByHand => convs[i].by \in Events \ {e}
  <2> SUFFICES ASSUME NEW i \in 1..Len(convs), convs[i].by # ByHand
               PROVE  convs[i].by \in Events \ {e}
    OBVIOUS
  <2>1. convs[i] \in Conversation
    BY <1>3
  <2>2. convs[i].by \in Events
    BY <2>1 DEF Conversation
  <2>3. Begun(convs[i].by)
    BY DEF FirstsInv, MadeByBegun
  <2> QED
    BY <1>3, <2>2, <2>3 DEF Begun, LineAt
<1>8. Accounts'
  <2> SUFFICES ASSUME NEW f \in Events, NEW g \in Events, f \in earlier'[g],
                      Sender[f] = Sender[g], account[f] # "none",
                      event'[g].pc = "insertUser" \/ account[g] # "none"
               PROVE  f \in event'[g].passedOver
    BY <1>3 DEF Accounts, LineAt
  <2>1. CASE g = e
    BY <1>2, <1>5, <1>6, <2>1
  <2>2. CASE g # e
    BY <1>4, <2>2 DEF FirstsInv, Accounts, LineAt
  <2> QED
    BY <2>1, <2>2
<1>9. ASSUME NEW f \in Events PROVE Rows(f)'
  <2>1. CASE f = e
    BY <1>2, <1>3, <1>5, <1>6, <2>1 DEF Rows, LineAt, TextPcs
  <2>2. CASE f # e
    <3>1. event'[f] = event[f] /\ earlier'[f] = earlier[f] /\ Rows(f)
      BY <1>4, <2>2 DEF FirstsInv
    <3>2. Unseen(f) => Unseen(f)'
      BY <1>3, <3>1 DEF Unseen
    <3> QED
      BY <1>3, <3>1, <3>2 DEF Rows, LineAt
  <2> QED
    BY <2>1, <2>2
<1>10. MadeByBegun'
  BY <1>3, <1>4, <1>7 DEF FirstsInv, MadeByBegun, Begun, LineAt
<1>11. SecondConversationOnlyByRaceOrBlind'
  BY <1>3, <1>4, <1>7 DEF FirstsInv, SecondConversationOnlyByRaceOrBlind
<1> QED
  BY <1>8, <1>9, <1>10, <1>11 DEF FirstsInv

\* The steps of everybody else, and a crash: no event goes on, no account is
\* new, and a conversation can only be one the API makes.
LEMMA OthersFirsts ==
  ASSUME Inv, FirstsInv, earlier' = earlier,
         \A e \in Events :
           /\ event'[e].pc = event[e].pc \/ (Begun(e) /\ event'[e].pc = "lost")
           /\ event'[e].blind = event[e].blind /\ event'[e].branch = event[e].branch
           /\ event'[e].left = event[e].left /\ event'[e].passedOver = event[e].passedOver
           /\ account[e] = "none" <=> account'[e] = "none",
         convs' = convs \/ \E u : convs' = Append(convs, [user |-> u, by |-> ByHand])
  PROVE  FirstsInv'
<1>1. /\ convs \in Seq(Conversation) /\ Len(convs) \in Nat
      /\ \A i \in 1..Len(convs') :
           (i \in 1..Len(convs) /\ convs'[i] = convs[i]) \/ convs'[i].by = ByHand
  <2>1. convs \in Seq(Conversation)
    BY DEF Inv, LineTypeOK, Conversation
  <2>2. CASE convs' = convs
    BY <2>1, <2>2
  <2>3. CASE \E u : convs' = Append(convs, [user |-> u, by |-> ByHand])
    <3>1. PICK u : convs' = Append(convs, [user |-> u, by |-> ByHand])
      BY <2>3
    <3>2. [user |-> u, by |-> ByHand].by = ByHand
      OBVIOUS
    <3>3. PICK c : c = [user |-> u, by |-> ByHand]
      OBVIOUS
    <3> QED
      BY <2>1, <3>1, <3>2, <3>3
  <2> QED
    BY <2>2, <2>3
<1>2. \A i \in 1..Len(convs) : convs[i].by # ByHand => convs[i].by \in Events
  <2> SUFFICES ASSUME NEW i \in 1..Len(convs), convs[i].by # ByHand PROVE convs[i].by \in Events
    OBVIOUS
  <2>1. convs[i] \in Conversation
    BY <1>1
  <2> QED
    BY <2>1 DEF Conversation
<1>3. \A e \in Events : Begun(e) => event'[e].pc # "new"
  BY DEF Begun, LineAt
<1>4. Accounts'
  BY DEF FirstsInv, Accounts, LineAt
<1>5. ASSUME NEW e \in Events PROVE Rows(e)'
  <2>1. Rows(e)
    BY DEF FirstsInv
  <2>2. Unseen(e) => Unseen(e)'
    BY <1>1 DEF Unseen
  <2>3. event'[e].pc = event[e].pc \/ (Begun(e) /\ event'[e].pc = "lost")
    OBVIOUS
  <2> QED
    BY <2>1, <2>2, <2>3 DEF Rows, LineAt, TextPcs
<1>6. MadeByBegun'
  <2> SUFFICES ASSUME NEW i \in 1..Len(convs'), convs'[i].by # ByHand
               PROVE  event'[convs'[i].by].pc # "new"
    BY DEF MadeByBegun, Begun, LineAt
  <2>1. i \in 1..Len(convs) /\ convs'[i] = convs[i]
    BY <1>1
  <2> QED
    BY <1>2, <1>3, <2>1 DEF FirstsInv, MadeByBegun
<1>7. SecondConversationOnlyByRaceOrBlind'
  <2> SUFFICES ASSUME NEW i \in 1..Len(convs'), NEW k \in 1..Len(convs'), i < k,
                      convs'[i].user = convs'[k].user,
                      ByHand \notin {convs'[i].by, convs'[k].by}
               PROVE  convs'[i].by \notin earlier[convs'[k].by] \/ event'[convs'[k].by].blind
    BY DEF SecondConversationOnlyByRaceOrBlind
  <2>1. /\ i \in 1..Len(convs) /\ convs'[i] = convs[i]
        /\ k \in 1..Len(convs) /\ convs'[k] = convs[k]
    BY <1>1
  <2> QED
    BY <1>2, <2>1 DEF FirstsInv, SecondConversationOnlyByRaceOrBlind
<1> QED
  BY <1>4, <1>5, <1>6, <1>7 DEF FirstsInv

LEMMA AdministrationFirsts ==
  ASSUME Inv, FirstsInv,
         \/ \E e \in Events : DeactivateAccount(e) \/ ReactivateAccount(e)
         \/ \E u \in LineUsers : CreateConversation(u)
         \/ SetBranches
         \/ UNCHANGED lineVars
  PROVE  FirstsInv'
<1>1. CASE \E e \in Events : DeactivateAccount(e) \/ ReactivateAccount(e)
  <2>1. PICK e \in Events : DeactivateAccount(e) \/ ReactivateAccount(e)
    BY <1>1
  <2>2. UNCHANGED <<event, convs, earlier>>
    BY <2>1 DEF DeactivateAccount, ReactivateAccount
  <2>3. ASSUME NEW f \in Events
        PROVE  account[f] = "none" <=> account'[f] = "none"
    BY <2>1 DEF DeactivateAccount, ReactivateAccount, Inv, LineTypeOK
  <2> QED
    BY <2>2, <2>3, OthersFirsts
<1>2. CASE \E u \in LineUsers : CreateConversation(u)
  BY <1>2, OthersFirsts DEF CreateConversation
<1>3. CASE SetBranches \/ UNCHANGED lineVars
  BY <1>3, OthersFirsts DEF SetBranches, lineVars
<1> QED
  BY <1>1, <1>2, <1>3

LEMMA LineCrashFirsts ==
  ASSUME Inv, FirstsInv, LineCrash
  PROVE  FirstsInv'
<1>1. UNCHANGED <<account, convs, earlier>>
  BY DEF LineCrash
<1>2. ASSUME NEW e \in Events
      PROVE  /\ event'[e].pc = event[e].pc \/ (Begun(e) /\ event'[e].pc = "lost")
             /\ event'[e].blind = event[e].blind /\ event'[e].branch = event[e].branch
             /\ event'[e].left = event[e].left /\ event'[e].passedOver = event[e].passedOver
  <2>1. event[e] \in EventState
    BY DEF Inv, LineTypeOK
  <2>2. CASE Begun(e) /\ ~Over(e)
    <3>1. event'[e] = [event[e] EXCEPT !.pc = "lost"]
      BY <2>2 DEF LineCrash
    <3> QED
      BY <2>1, <2>2, <3>1 DEF EventState
  <2>3. CASE ~(Begun(e) /\ ~Over(e))
    <3>1. event'[e] = event[e]
      BY <2>3 DEF LineCrash
    <3> QED
      BY <3>1
  <2> QED
    BY <2>2, <2>3
<1> QED
  BY <1>1, <1>2, OthersFirsts

LEMMA NextKeepsFirsts == Inv /\ FirstsInv /\ [LineNext]_lineVars => FirstsInv'
<1> SUFFICES ASSUME Inv, FirstsInv, [LineNext]_lineVars PROVE FirstsInv'
  OBVIOUS
<1>1. CASE \E e \in Events : Dispatch(e)
  BY <1>1, DispatchFirsts
<1>2. ASSUME NEW e \in Events, LineStep(e) PROVE FirstsInv'
  <2>1. Effect(e)
    BY <1>2, StepEffect
  <2>2. \A f \in Events : Rows(f)'
    BY <2>1, RowsStep
  <2> QED
    BY <2>1, <2>2, AccountsStep, ConversationsStep DEF FirstsInv
<1>3. CASE \/ \E e \in Events : DeactivateAccount(e) \/ ReactivateAccount(e)
           \/ \E u \in LineUsers : CreateConversation(u)
           \/ SetBranches
           \/ UNCHANGED lineVars
  BY <1>3, AdministrationFirsts
<1>4. CASE LineCrash
  BY <1>4, LineCrashFirsts
<1> QED
  BY <1>1, <1>2, <1>3, <1>4 DEF LineNext

THEOREM AlwaysFirsts == LineSpec => []FirstsInv
  BY InitFirsts, AlwaysInv, NextKeepsFirsts, PTL DEF LineSpec

\* Two active accounts of a LINE user come from two events that overlap, or from one
\* that looked while the first was inactive: a failed lookup or a crash makes none
\* (GetOrCreateLiffUser, GetUserByLineID).
THEOREM AccountsOnlyByRaceOrReturn == LineSpec => []SecondAccountOnlyByRaceOrReturn
  BY AlwaysFirsts, FirstsKept, PTL

\* A LINE user has two conversations only from events that overlapped or from a
\* lookup that failed (FindOrCreateConversationByLineUser).
THEOREM ConversationsOnlyByRace == LineSpec => []SecondConversationOnlyByRaceOrBlind
<1>1. FirstsInv => SecondConversationOnlyByRaceOrBlind
  BY DEF FirstsInv
<1> QED
  BY <1>1, AlwaysFirsts, PTL

\* onLineText drops a text only with the process, by a fault of its own event, or
\* for want of both a branch and a conversation.
THEOREM TextsStay == LineSpec => []TextsAreKept
  BY AlwaysFirsts, FirstsKept, PTL

=============================================================================
