------------------------- MODULE LineConversation -------------------------
(***************************************************************************)
(* What the server does with the events LINE delivers for one tenant.  The *)
(* webhook answers at once and starts a goroutine for each event of the    *)
(* body (dispatchLineEvent); a follow, a text, an image and a login from   *)
(* the LIFF page all look for the rows of their sender and insert those    *)
(* they do not find, with no transaction and no unique key about it.       *)
(*                                                                         *)
(* A step is one SQL statement, or one call of LINE or of the storage.     *)
(* Nothing closes a conversation.                                          *)
(***************************************************************************)
EXTENDS Naturals, Sequences

CONSTANTS
  Events,       \* deliveries: an event LINE sends twice is two of them
  KindOf,       \* "follow", "text", "image" or "login", by event
  Sender,       \* the LINE user an event is from
  LineUsers,
  LineFaults,   \* the events whose statements and calls may fail
  MaxByHand     \* bound: conversations there are when the API creates one

ASSUME LineAssumption ==
  /\ KindOf \in [Events -> {"follow", "text", "image", "login"}]
  /\ Sender \in [Events -> LineUsers]
  /\ LineFaults \subseteq Events
  /\ MaxByHand \in Nat

VARIABLES
  event,     \* the goroutine of each event
  account,   \* users: the row each event has inserted for its sender
  convs,     \* conversations by created_at: whose they are, who made them
  hasBranch, \* the tenant has an active branch
  earlier    \* history: the events over before an event began

lineVars == <<event, account, convs, hasBranch, earlier>>

-----------------------------------------------------------------------------
LinePcs == {"new", "download", "user", "insertUser", "branch", "find",
            "insertConv", "author", "store", "upload", "import", "invoice",
            "enqueue", "done", "lost"}

\* What an event leaves behind; "author" is the sender_id of its message.
Traces == {"text", "author", "file", "import", "invoice", "task", "receipt"}

\* "passedOver" is history: the accounts of its sender that were inactive when the
\* event looked for one.
EventState == [pc : LinePcs, known : BOOLEAN, branch : BOOLEAN, blind : BOOLEAN,
               conv : Nat, left : SUBSET Traces, passedOver : SUBSET Events]

ByHand == "api"

LineAt(e, pc) == event[e].pc = pc

Over(e) == event[e].pc \in {"done", "lost"}

Begun(e) == ~LineAt(e, "new")

\* The open conversations of a LINE user, by their place in convs.
OpenOf(u) == {i \in 1..Len(convs) : convs[i].user = u}

\* GetUserByLineID: the active row of this LINE id.
KnownUser(u) == \E e \in Events : Sender[e] = u /\ account[e] = "active"

InactiveOf(u) == {e \in Events : Sender[e] = u /\ account[e] = "inactive"}

Advance(e, pc) == event' = [event EXCEPT ![e].pc = pc]

Leave(e, pc, trace) ==
  event' = [event EXCEPT ![e].pc = pc, ![e].left = @ \cup {trace}]

LineInit ==
  /\ event = [e \in Events |-> [pc |-> "new", known |-> FALSE, branch |-> FALSE,
                                blind |-> FALSE, conv |-> 0, left |-> {}, passedOver |-> {}]]
  /\ account = [e \in Events |-> "none"]
  /\ convs = <<>>
  /\ hasBranch \in BOOLEAN
  /\ earlier = [e \in Events |-> {}]

-----------------------------------------------------------------------------
\* lineWebhook starts the goroutine; dispatchLineEvent tells the kinds apart.
Dispatch(e) ==
  /\ LineAt(e, "new")
  /\ Advance(e, CASE KindOf[e] = "image" -> "download"
                  [] KindOf[e] = "text" -> "branch"
                  [] OTHER -> "user")
  /\ earlier' = [earlier EXCEPT ![e] = {f \in Events : Over(f)}]
  /\ UNCHANGED <<account, convs, hasBranch>>

GetContent(e) ==
  /\ LineAt(e, "download")
  /\ Advance(e, "user")
  /\ UNCHANGED <<account, convs, hasBranch, earlier>>

AfterUser(e) == IF KindOf[e] = "login" THEN "done" ELSE "branch"

\* GetOrCreateLiffUser looks first; only "not found" goes on to the insert.
FindUser(e) ==
  /\ LineAt(e, "user")
  /\ event' = IF KnownUser(Sender[e])
              THEN [event EXCEPT ![e].pc = AfterUser(e), ![e].known = TRUE]
              ELSE [event EXCEPT ![e].pc = "insertUser",
                                 ![e].passedOver = InactiveOf(Sender[e])]
  /\ UNCHANGED <<account, convs, hasBranch, earlier>>

InsertLiffUser(e) ==
  /\ LineAt(e, "insertUser")
  /\ account' = [account EXCEPT ![e] = "active"]
  /\ event' = [event EXCEPT ![e].pc = AfterUser(e), ![e].known = TRUE]
  /\ UNCHANGED <<convs, hasBranch, earlier>>

\* Variant with a bug: an error of the lookup goes on to the insert as well.
UserFailsOpen(e) ==
  /\ e \in LineFaults
  /\ LineAt(e, "user") \/ LineAt(e, "insertUser")
  /\ Advance(e, IF LineAt(e, "user") THEN "insertUser" ELSE AfterUser(e))
  /\ UNCHANGED <<account, convs, hasBranch, earlier>>

\* follow and image drop the error and go on without a user; login refuses.
UserFails(e) ==
  /\ e \in LineFaults
  /\ LineAt(e, "user") \/ LineAt(e, "insertUser")
  /\ Advance(e, AfterUser(e))
  /\ UNCHANGED <<account, convs, hasBranch, earlier>>

\* Variant with a bug: a text ends without a branch as an image does.
FirstActiveBranchOrEnd(e) ==
  /\ LineAt(e, "branch")
  /\ \E found \in {hasBranch} \cup IF e \in LineFaults THEN {FALSE} ELSE {} :
       event' = [event EXCEPT
                   ![e].branch = found,
                   ![e].pc = IF ~found THEN "done"
                             ELSE IF KindOf[e] = "image" THEN "upload" ELSE "find"]
  /\ UNCHANGED <<account, convs, hasBranch, earlier>>

\* firstActiveBranch: an error counts as none, and an image ends without one.
FirstActiveBranch(e) ==
  /\ LineAt(e, "branch")
  /\ \E found \in {hasBranch} \cup IF e \in LineFaults THEN {FALSE} ELSE {} :
       event' = [event EXCEPT
                   ![e].branch = found,
                   ![e].pc = IF KindOf[e] # "image" THEN "find"
                             ELSE IF found THEN "upload" ELSE "done"]
  /\ UNCHANGED <<account, convs, hasBranch, earlier>>

AfterConv(e) == IF KindOf[e] = "text" THEN "author" ELSE "done"

\* Variant with a bug: the oldest conversation instead of the most recent.
FindOldest(e) ==
  /\ LineAt(e, "find")
  /\ \/ OpenOf(Sender[e]) = {} /\ Advance(e, "insertConv")
     \/ \E i \in OpenOf(Sender[e]) :
          /\ \A j \in OpenOf(Sender[e]) : i <= j
          /\ event' = [event EXCEPT ![e].pc = AfterConv(e), ![e].conv = i]
  /\ UNCHANGED <<account, convs, hasBranch, earlier>>

\* Variant with a bug: only a conversation this event has made itself is found.
FindOwn(e) ==
  /\ LineAt(e, "find")
  /\ event' = [event EXCEPT ![e].pc = "insertConv"]
  /\ UNCHANGED <<account, convs, hasBranch, earlier>>

\* FindOrCreateConversationByLineUser: SELECT ... ORDER BY created_at DESC.
FindConversation(e) ==
  /\ LineAt(e, "find")
  /\ \/ OpenOf(Sender[e]) = {} /\ Advance(e, "insertConv")
     \/ \E i \in OpenOf(Sender[e]) :
          /\ \A j \in OpenOf(Sender[e]) : j <= i
          /\ event' = [event EXCEPT ![e].pc = AfterConv(e), ![e].conv = i]
  /\ UNCHANGED <<account, convs, hasBranch, earlier>>

\* Any error of the lookup, a timeout too, goes on to the insert.
FindConversationFails(e) ==
  /\ e \in LineFaults
  /\ LineAt(e, "find")
  /\ event' = [event EXCEPT ![e].pc = "insertConv", ![e].blind = TRUE]
  /\ UNCHANGED <<account, convs, hasBranch, earlier>>

\* conversations.branch_id is NOT NULL: without a branch the insert is refused.
InsertConversation(e) ==
  /\ LineAt(e, "insertConv")
  /\ event[e].branch
  /\ convs' = Append(convs, [user |-> Sender[e], by |-> e])
  /\ event' = [event EXCEPT ![e].pc = AfterConv(e), ![e].conv = Len(convs) + 1]
  /\ UNCHANGED <<account, hasBranch, earlier>>

InsertConversationFails(e) ==
  /\ LineAt(e, "insertConv")
  /\ ~event[e].branch \/ e \in LineFaults
  /\ Advance(e, "done")
  /\ UNCHANGED <<account, convs, hasBranch, earlier>>

\* The message names its author when GetUserByLineID finds one.
FindAuthor(e) ==
  /\ LineAt(e, "author")
  /\ \E found \in {KnownUser(Sender[e])} \cup IF e \in LineFaults THEN {FALSE} ELSE {} :
       event' = [event EXCEPT ![e].pc = "store", ![e].known = found]
  /\ UNCHANGED <<account, convs, hasBranch, earlier>>

\* CreateMessage: the conversation is there, since nothing deletes one.
StoreMessage(e) ==
  /\ LineAt(e, "store")
  /\ event' = [event EXCEPT ![e].pc = "done",
                 ![e].left = @ \cup IF event[e].known THEN {"text", "author"} ELSE {"text"}]
  /\ UNCHANGED <<account, convs, hasBranch, earlier>>

StoreMessageFails(e) ==
  /\ LineAt(e, "store") /\ e \in LineFaults
  /\ Advance(e, "done")
  /\ UNCHANGED <<account, convs, hasBranch, earlier>>

-----------------------------------------------------------------------------
(* The rest of an image: the file, the import, the invoice, the task.      *)

UploadImage(e) ==
  /\ LineAt(e, "upload")
  /\ Leave(e, "import", "file")
  /\ UNCHANGED <<account, convs, hasBranch, earlier>>

\* document_imports.user_id is NOT NULL.
CreateImport(e) ==
  /\ LineAt(e, "import")
  /\ event[e].known
  /\ Leave(e, "invoice", "import")
  /\ UNCHANGED <<account, convs, hasBranch, earlier>>

CreateLineInvoice(e) ==
  /\ LineAt(e, "invoice")
  /\ Leave(e, "enqueue", "invoice")
  /\ UNCHANGED <<account, convs, hasBranch, earlier>>

\* The error of the queue is dropped, and so is that of the reply.
EnqueueImage(e) ==
  /\ LineAt(e, "enqueue")
  /\ \E queued \in {TRUE} \cup IF e \in LineFaults THEN {FALSE} ELSE {} :
       event' = [event EXCEPT ![e].pc = "done",
                   ![e].left = @ \cup (IF queued THEN {"task"} ELSE {}) \cup {"receipt"}]
  /\ UNCHANGED <<account, convs, hasBranch, earlier>>

\* A download, an upload or an insert fails: the event ends where it is.
ImageFails(e) ==
  /\ \/ e \in LineFaults /\ event[e].pc \in {"download", "upload", "import", "invoice"}
     \/ LineAt(e, "import") /\ ~event[e].known
  /\ Advance(e, "done")
  /\ UNCHANGED <<account, convs, hasBranch, earlier>>

-----------------------------------------------------------------------------
(* Everybody else.                                                         *)

\* createConversation: the API takes any line_user_id.
CreateConversation(u) ==
  /\ Len(convs) < MaxByHand
  /\ convs' = Append(convs, [user |-> u, by |-> ByHand])
  /\ UNCHANGED <<event, account, hasBranch, earlier>>

\* createBranch, updateBranch.
SetBranches ==
  /\ hasBranch' = ~hasBranch
  /\ UNCHANGED <<event, account, convs, earlier>>

\* updateUser with a status.
DeactivateAccount(e) ==
  /\ account[e] = "active"
  /\ account' = [account EXCEPT ![e] = "inactive"]
  /\ UNCHANGED <<event, convs, hasBranch, earlier>>

ReactivateAccount(e) ==
  /\ account[e] = "inactive"
  /\ account' = [account EXCEPT ![e] = "active"]
  /\ UNCHANGED <<event, convs, hasBranch, earlier>>

\* The process dies: what its goroutines had not written is lost, since LINE
\* has had its 200 already.
LineCrash ==
  /\ \E e \in Events : Begun(e) /\ ~Over(e)
  /\ event' = [e \in Events |-> IF Begun(e) /\ ~Over(e)
                                THEN [event[e] EXCEPT !.pc = "lost"] ELSE event[e]]
  /\ UNCHANGED <<account, convs, hasBranch, earlier>>

-----------------------------------------------------------------------------
\* A goroutine goes on.
LineStep(e) ==
  \/ GetContent(e)
  \/ FindUser(e) \/ InsertLiffUser(e) \/ UserFails(e)
  \/ FirstActiveBranch(e)
  \/ FindConversation(e) \/ FindConversationFails(e)
  \/ InsertConversation(e) \/ InsertConversationFails(e)
  \/ FindAuthor(e) \/ StoreMessage(e) \/ StoreMessageFails(e)
  \/ UploadImage(e) \/ CreateImport(e) \/ CreateLineInvoice(e) \/ EnqueueImage(e)
  \/ ImageFails(e)

LineNext ==
  \/ \E e \in Events : Dispatch(e) \/ LineStep(e)
                       \/ DeactivateAccount(e) \/ ReactivateAccount(e)
  \/ \E u \in LineUsers : CreateConversation(u)
  \/ SetBranches
  \/ LineCrash

LineSpec == LineInit /\ [][LineNext]_lineVars

-----------------------------------------------------------------------------
(* Properties.                                                             *)

\* Rows and goroutines have the shape of the code's.
LineTypeOK ==
  /\ event \in [Events -> EventState]
  /\ account \in [Events -> {"none", "active", "inactive"}]
  /\ convs \in Seq([user : LineUsers, by : Events \cup {ByHand}])
  /\ hasBranch \in BOOLEAN
  /\ earlier \in [Events -> SUBSET Events]

\* A LINE user gets a second active account only from two events that overlap, or
\* when the first was inactive as the later event looked for one and has been
\* activated again: a lookup that fails or a crash does not make one.
SecondAccountOnlyByRaceOrReturn ==
  \A e, f \in Events :
    account[e] = "active" /\ account[f] = "active" /\ Sender[e] = Sender[f]
      => e \notin earlier[f] \/ e \in event[f].passedOver

\* A LINE user gets a second conversation only from events that overlap, or from
\* an event whose lookup failed and that could not see the first one.
SecondConversationOnlyByRaceOrBlind ==
  \A i, j \in 1..Len(convs) :
    i < j /\ convs[i].user = convs[j].user /\ ByHand \notin {convs[i].by, convs[j].by}
      => \/ convs[i].by \notin earlier[convs[j].by]
         \/ event[convs[j].by].blind

\* A text is lost only with the process, by a failing statement of its own event,
\* or because the tenant had no active branch and the sender no conversation.
TextsAreKept ==
  \A e \in Events :
    LineAt(e, "done") /\ KindOf[e] = "text" /\ "text" \notin event[e].left
      => \/ e \in LineFaults
         \/ ~event[e].branch /\ \A i \in OpenOf(Sender[e]) :
              convs[i].by # ByHand => convs[i].by \notin earlier[e]

\* However conversations are doubled, the texts of a LINE user do not jump back:
\* a text that arrives after another was stored is put into the conversation
\* of that one or into a newer one.
TextsMoveForward ==
  \A e, f \in Events :
    "text" \in event[e].left \cap event[f].left /\ Sender[e] = Sender[f] /\ f \in earlier[e]
      => event[f].conv <= event[e].conv
===========================================================================
