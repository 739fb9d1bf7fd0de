---------------------------- MODULE MessageLedger ----------------------------
(***************************************************************************)
(* The message ledger of a conversation (adapters/state_db/                *)
(* task_messages.rs) with the code that fills and empties it: ingest       *)
(* (run/ingest.rs), the dispatcher's use of the unsent messages            *)
(* (run/dispatch.rs), the requeue of finished conversations, and task      *)
(* retry (adapters/state_db/tasks.rs).                                     *)
(*                                                                         *)
(* A task is a conversation (#242): its row moves through TaskState, its   *)
(* ledger holds every message by key, and processed_at says which dispatch *)
(* handed it to an agent.  Sources deliver at least once, under any        *)
(* workflow; totsuka task cancel / retry write the state DB between any    *)
(* two steps of the engine; the engine may be killed between any two       *)
(* transactions.  Slots, panes and the details of following an agent are   *)
(* the subject of Engine and are left out here.                            *)
(***************************************************************************)
EXTENDS TaskState, Sequences, FiniteSets

CONSTANTS
    Conversations, \* tasks
    Keys,          \* message_key
    Workflows,
    NoWorkflow,    \* never dispatched
    NoConversation,\* no handler is running
    NoKey,
    MaxRuns,       \* bound: dispatches tried per conversation
    MaxVersion,    \* bound: versions up to which an agent reports
    MaxAsked,      \* bound: cancels and retries people ask for
    MaxCrashes     \* bound: kills of the engine

ASSUME NamesAssumption ==
    NoWorkflow \notin Workflows /\ NoConversation \notin Conversations
    /\ NoKey \notin Keys
ASSUME MessageBoundsAssumption ==
    MaxRuns \in Nat /\ MaxVersion \in Nat /\ MaxAsked \in Nat /\ MaxCrashes \in Nat

VARIABLES
    known,    \* conversations that have a row
    row,      \* tasks: state and state_version
    workflow, \* tasks.workflow
    body,     \* the message tasks.source_payload holds
    ledger,   \* task_messages by id; stamp 0 is processed_at IS NULL
    clock,    \* the time of the last stamp
    pc,       \* where the engine is
    act,      \* what the running handler carries
    ranUnder, \* the workflow a conversation was last dispatched under
    handed,   \* history: the messages its current run was handed
    told,     \* history: how often agents were told a message
    redo,     \* history: how often a run had to be done over
    runs, asked, crashes

dbVars   == <<known, row, workflow, body, ledger, clock>>
histVars == <<ranUnder, handed, told, redo>>
boundVars == <<runs, asked, crashes>>
vars == <<known, row, workflow, body, ledger, clock, pc, act, ranUnder,
          handed, told, redo, runs, asked, crashes>>

Message == [key : Keys, stamp : Nat]

KeysOf(c) == {ledger[c][i].key : i \in DOMAIN ledger[c]}

\* pending_task_messages
Unsent(c) == {ledger[c][i].key : i \in {j \in DOMAIN ledger[c] :
                                            ledger[c][j].stamp = 0}}

NoAct == [conv |-> NoConversation, ver |-> 0, workflow |-> NoWorkflow,
          key |-> NoKey, batch |-> {}]

Init ==
    /\ known = {}
    /\ row = [c \in Conversations |-> [state |-> "queued", version |-> 0]]
    /\ workflow \in [Conversations -> Workflows]
    /\ body = [c \in Conversations |-> NoKey]
    /\ ledger = [c \in Conversations |-> <<>>]
    /\ clock = 0
    /\ pc = "idle" /\ act = NoAct
    /\ ranUnder = [c \in Conversations |-> NoWorkflow]
    /\ handed = [c \in Conversations |-> {}]
    /\ told = [c \in Conversations |-> [k \in Keys |-> 0]]
    /\ redo = [c \in Conversations |-> 0]
    /\ runs = [c \in Conversations |-> 0]
    /\ asked = 0 /\ crashes = 0

Return == pc' = "idle" /\ act' = NoAct

\* a conversation goes back to the queue: what it was handed is history, and
\* it is done over unless its last run was answered
Requeue(c) ==
    /\ row[c].state \in TerminalStates
    /\ handed' = [handed EXCEPT ![c] = {}]
    /\ redo' = IF row[c].state = "done" THEN redo
               ELSE [redo EXCEPT ![c] = @ + 1]

-----------------------------------------------------------------------------
(* Ingest (on_task_submit).  The engine handles one submission at a time.  *)

Appended(c, k) == ledger' = [ledger EXCEPT ![c] = Append(@, [key |-> k, stamp |-> 0])]

\* insert_task_message_tx with the reopening, in one transaction
\* deviation: the message alone
AppendReopening_NoReopen(c, k) ==
    /\ IF k \in KeysOf(c) THEN UNCHANGED ledger ELSE Appended(c, k)
    /\ UNCHANGED <<row, handed, redo>>

AppendReopening(c, k) ==
    IF k \in KeysOf(c)
    THEN UNCHANGED <<ledger, row, handed, redo>>
    ELSE /\ Appended(c, k)
         /\ IF row[c].state \in TerminalStates
            THEN row' = [row EXCEPT ![c] = Applied(@, "Reopen")] /\ Requeue(c)
            ELSE UNCHANGED <<row, handed, redo>>

(***************************************************************************)
(* upsert_submitted_task: a row for a new conversation; a transaction of   *)
(* its own, before the one that appends.                                   *)
(***************************************************************************)
Upsert(c, k, w) ==
    /\ pc = "idle"
    /\ c \notin known \/ workflow[c] = w
    /\ IF c \in known THEN UNCHANGED <<known, workflow, body>>
       ELSE /\ known' = known \cup {c}
            /\ workflow' = [workflow EXCEPT ![c] = w]
            /\ body' = [body EXCEPT ![c] = k]
    /\ pc' = "append"
    /\ act' = [NoAct EXCEPT !.conv = c, !.key = k]
    /\ UNCHANGED <<row, ledger, clock, histVars, boundVars>>

AppendMessage ==
    /\ pc = "append"
    /\ AppendReopening(act.conv, act.key)
    /\ Return
    /\ UNCHANGED <<known, workflow, body, clock, ranUnder, told, boundVars>>

\* deviation: a conversation in flight is handed over too
MayHandOff_InFlight(c) == TRUE

\* only a finished conversation changes hands
MayHandOff(c) == row[c].state \in TerminalStates

\* deviation: the new payload is lost on the way
HandOff_NoPayload(c, k, w) ==
    /\ pc = "idle"
    /\ c \in known /\ workflow[c] # w
    /\ MayHandOff(c) /\ k \notin KeysOf(c)
    /\ AppendReopening(c, k)
    /\ workflow' = [workflow EXCEPT ![c] = w]
    /\ body' = [body EXCEPT ![c] = NoKey]
    /\ UNCHANGED <<known, clock, pc, act, ranUnder, told, boundVars>>

(***************************************************************************)
(* hand_off_workflow: a message under another workflow takes a finished    *)
(* conversation over, in one transaction.  While the conversation is in    *)
(* flight, or if the key is known, nothing is written.                     *)
(***************************************************************************)
HandOff(c, k, w) ==
    /\ pc = "idle"
    /\ c \in known /\ workflow[c] # w
    /\ MayHandOff(c) /\ k \notin KeysOf(c)
    /\ AppendReopening(c, k)
    /\ workflow' = [workflow EXCEPT ![c] = w]
    /\ body' = [body EXCEPT ![c] = k]
    /\ UNCHANGED <<known, clock, pc, act, ranUnder, told, boundVars>>

-----------------------------------------------------------------------------
(* Dispatch. *)

\* the engine's write to the row in hand, at the version it read
Write(event) ==
    /\ Outcome(row[act.conv], act.ver, event) = "ok"
    /\ row' = [row EXCEPT ![act.conv] = Applied(@, event)]

\* another writer moved the task: isolate_task goes on without it
Isolate(event) ==
    /\ Outcome(row[act.conv], act.ver, event) # "ok"
    /\ Return
    /\ UNCHANGED <<dbVars, histVars, boundVars>>

\* dispatch_one reads the row of a task that was found queued
Take(c) ==
    /\ pc = "idle" /\ c \in known
    /\ row[c].state = "queued"
    /\ runs[c] < MaxRuns /\ runs' = [runs EXCEPT ![c] = @ + 1]
    /\ pc' = "taken"
    /\ act' = [NoAct EXCEPT !.conv = c, !.ver = row[c].version,
                            !.workflow = workflow[c]]
    /\ UNCHANGED <<dbVars, histVars, asked, crashes>>

\* before the launch: not now, the claim is lost, or the dispatch fails
Refuse ==
    /\ pc \in {"taken", "launch", "unanswered"}
    /\ \/ pc = "taken" /\ Return /\ UNCHANGED row
       \/ pc = "taken" /\ Write("Skip") /\ Return
       \/ /\ Write("Fail")
          /\ act' = [act EXCEPT !.ver = row'[act.conv].version]
          /\ pc' = "retry"
    /\ UNCHANGED <<known, workflow, body, ledger, clock, histVars, boundVars>>

RefuseLate ==
    /\ pc \in {"taken", "launch", "unanswered"}
    /\ \E event \in {"Skip", "Fail"} : Isolate(event)

\* deviation: only the oldest unsent row gets the stamp
Stamped_Oldest(messages, now) ==
    [i \in DOMAIN messages |->
        IF messages[i].stamp = 0 /\ \A j \in 1..(i - 1) : messages[j].stamp # 0
        THEN [messages[i] EXCEPT !.stamp = now]
        ELSE messages[i]]

\* every unsent row gets the stamp
Stamped(messages, now) ==
    [i \in DOMAIN messages |->
        IF messages[i].stamp = 0 THEN [messages[i] EXCEPT !.stamp = now]
        ELSE messages[i]]

\* deviation: the messages are stamped when they are read
ReadUnsent_Stamps ==
    /\ pc = "taken"
    /\ pc' = "launch"
    /\ act' = [act EXCEPT !.batch = Unsent(act.conv)]
    /\ ledger' = [ledger EXCEPT ![act.conv] = Stamped(@, clock + 1)]
    /\ clock' = clock + 1
    /\ UNCHANGED <<known, row, workflow, body, histVars, boundVars>>

\* pending_task_messages, read once before the launch
ReadUnsent ==
    /\ pc = "taken"
    /\ pc' = "launch"
    /\ act' = [act EXCEPT !.batch = Unsent(act.conv)]
    /\ UNCHANGED <<dbVars, histVars, boundVars>>

\* with nothing to say, a session that still answers is re-attached
Reattach ==
    /\ pc = "launch" /\ act.batch = {}
    /\ ranUnder[act.conv] # NoWorkflow
    /\ \/ /\ Write("Dispatch") /\ Return
          /\ ranUnder' = [ranUnder EXCEPT ![act.conv] = act.workflow]
          /\ UNCHANGED <<known, workflow, body, ledger, clock, handed, told,
                         redo, boundVars>>
       \/ Isolate("Dispatch")

\* what the agent is told: the unsent messages, or the record's own body
Prompt == IF act.batch # {} THEN act.batch ELSE {body[act.conv]}

\* task/dispatch: the agent has its prompt, whether or not the answer comes
Launch ==
    /\ pc = "launch"
    /\ told' = [told EXCEPT ![act.conv] =
                  [k \in Keys |-> IF k \in Prompt THEN @[k] + 1 ELSE @[k]]]
    /\ pc' \in {"record", "unanswered"}
    /\ UNCHANGED <<dbVars, act, ranUnder, handed, redo, boundVars>>

Record ==
    /\ pc = "record"
    /\ \/ /\ Write("Dispatch")
          /\ act' = [act EXCEPT !.ver = row'[act.conv].version]
          /\ ranUnder' = [ranUnder EXCEPT ![act.conv] = act.workflow]
          /\ pc' = IF act.batch = {} THEN "subscribe" ELSE "mark"
          /\ UNCHANGED <<known, workflow, body, ledger, clock, handed, told,
                         redo, boundVars>>
       \/ Isolate("Dispatch")

\* mark_messages_processed: whatever is unsent now, under one stamp
Mark ==
    /\ pc = "mark"
    /\ clock' = clock + 1
    /\ ledger' = [ledger EXCEPT ![act.conv] = Stamped(@, clock')]
    /\ handed' = [handed EXCEPT ![act.conv] = Unsent(act.conv)]
    /\ pc' = "subscribe"
    /\ UNCHANGED <<known, row, workflow, body, act, ranUnder, told, redo,
                   boundVars>>

\* state/subscribe fails only as a dispatch does
Subscribe ==
    /\ pc = "subscribe"
    /\ \/ Return /\ UNCHANGED row
       \/ /\ Write("Fail")
          /\ act' = [act EXCEPT !.ver = row'[act.conv].version]
          /\ pc' = "retry"
    /\ UNCHANGED <<known, workflow, body, ledger, clock, histVars, boundVars>>

SubscribeLate == pc = "subscribe" /\ Isolate("Fail")

-----------------------------------------------------------------------------
(* Retrying. *)

\* unprocess_last_batch: the rows that bear the stamp of the newest sent row
LastBatchUnsent(messages) ==
    LET sent == {i \in DOMAIN messages : messages[i].stamp # 0}
        last == CHOOSE i \in sent : \A j \in sent : j <= i
    IN  [i \in DOMAIN messages |->
            IF sent # {} /\ messages[i].stamp = messages[last].stamp
            THEN [messages[i] EXCEPT !.stamp = 0] ELSE messages[i]]

\* deviation: the last batch comes back also when messages are unsent
RetryTx_Always(c) ==
    /\ row' = [row EXCEPT ![c] = Applied(@, "Retry")]
    /\ ledger' = [ledger EXCEPT ![c] = LastBatchUnsent(@)]
    /\ Requeue(c)

\* retry_task_tx, once the version is right
RetryTx(c) ==
    /\ row' = [row EXCEPT ![c] = Applied(@, "Retry")]
    /\ ledger' = IF Unsent(c) # {} THEN ledger
                 ELSE [ledger EXCEPT ![c] = LastBatchUnsent(@)]
    /\ Requeue(c)

\* the automatic retry of a failed dispatch, while there are any left
AutoRetry ==
    /\ pc = "retry"
    /\ \/ /\ Outcome(row[act.conv], act.ver, "Retry") = "ok"
          /\ RetryTx(act.conv)
       \/ UNCHANGED <<row, ledger, handed, redo>>
    /\ Return
    /\ UNCHANGED <<known, workflow, body, clock, ranUnder, told, boundVars>>

\* totsuka task cancel / retry, at any time
Cancel(c) ==
    /\ c \in known /\ row[c].state \notin TerminalStates
    /\ asked < MaxAsked /\ asked' = asked + 1
    /\ row' = [row EXCEPT ![c] = Applied(@, "Cancel")]
    /\ UNCHANGED <<known, workflow, body, ledger, clock, pc, act, histVars,
                   runs, crashes>>

Retry(c) ==
    /\ c \in known /\ row[c].state \in {"failed", "cancelled", "skipped"}
    /\ asked < MaxAsked /\ asked' = asked + 1
    /\ RetryTx(c)
    /\ UNCHANGED <<known, workflow, body, clock, pc, act, ranUnder, told,
                   runs, crashes>>

-----------------------------------------------------------------------------
(* The rest of a run, and the tick. *)

Reports == {"Start", "WaitInput", "ResumeInput", "BeginPublish",
            "SelfReportComplete", "ApproveVerification", "VerificationFailed",
            "Escalate", "Complete", "Fail"}

\* a dispatched agent is followed to the end of its run, see Engine
Progress(c) ==
    /\ pc = "idle" /\ c \in known
    /\ CountsTowardSlot(row[c].state)
    /\ row[c].version < MaxVersion
    /\ \E event \in Reports :
         /\ Legal(row[c].state, event)
         /\ row' = [row EXCEPT ![c] = Applied(@, event)]
    /\ UNCHANGED <<known, workflow, body, ledger, clock, pc, act, histVars,
                   boundVars>>

\* conversations_with_unsent_messages(Done)
FinishedUnsent == {c \in known : row[c].state = "done" /\ Unsent(c) # {}}

\* deviation: nobody looks at finished conversations
Cycle_NoRequeue ==
    /\ pc = "idle" /\ UNCHANGED vars

\* requeue_conversations_with_unsent_messages, on every tick
Cycle ==
    /\ pc = "idle"
    /\ row' = [c \in Conversations |->
                 IF c \in FinishedUnsent THEN Applied(row[c], "Reopen")
                 ELSE row[c]]
    /\ handed' = [c \in Conversations |->
                    IF c \in FinishedUnsent THEN {} ELSE handed[c]]
    /\ UNCHANGED <<known, workflow, body, ledger, clock, pc, act, ranUnder,
                   told, redo, boundVars>>

\* a kill; recovery follows what is in flight again and touches no message
Crash ==
    /\ crashes < MaxCrashes /\ crashes' = crashes + 1
    /\ Return
    /\ redo' = [c \in Conversations |-> redo[c] + 1]
    /\ UNCHANGED <<dbVars, ranUnder, handed, told, runs, asked>>

Submission == \E c \in Conversations, k \in Keys, w \in Workflows :
                  Upsert(c, k, w) \/ HandOff(c, k, w)

\* what the engine goes on with by itself
HandlerStep ==
    \/ AppendMessage \/ Refuse \/ RefuseLate \/ ReadUnsent \/ Reattach
    \/ Launch \/ Record \/ Mark \/ Subscribe \/ SubscribeLate \/ AutoRetry

Next ==
    \/ Submission \/ HandlerStep \/ Cycle \/ Crash
    \/ \E c \in Conversations : Take(c) \/ Progress(c) \/ Cancel(c) \/ Retry(c)

Spec == Init /\ [][Next]_vars

-----------------------------------------------------------------------------
(* Correctness. *)

PCs == {"idle", "append", "taken", "launch", "record", "unanswered",
        "mark", "subscribe", "retry"}

Acts == [conv : Conversations \cup {NoConversation}, ver : Nat,
         workflow : Workflows \cup {NoWorkflow},
         key : Keys \cup {NoKey}, batch : SUBSET Keys]

\* The type of the state.
TypeOK ==
    /\ known \subseteq Conversations
    /\ row \in [Conversations -> RowRecords]
    /\ workflow \in [Conversations -> Workflows]
    /\ body \in [Conversations -> Keys \cup {NoKey}]
    /\ \A c \in known : body[c] \in Keys
    /\ ledger \in [Conversations -> Seq(Message)]
    /\ clock \in Nat
    /\ pc \in PCs
    /\ act \in Acts
    /\ ranUnder \in [Conversations -> Workflows \cup {NoWorkflow}]
    /\ handed \in [Conversations -> SUBSET Keys]
    /\ told \in [Conversations -> [Keys -> Nat]]
    /\ redo \in [Conversations -> Nat]
    /\ runs \in [Conversations -> Nat]
    /\ asked \in Nat /\ crashes \in Nat

(***************************************************************************)
(* A message is stamped as processed only when an agent was told it.  The  *)
(* batch is read before the launch and the stamp is put on whatever is     *)
(* unsent after it, with requests to two plugins, commands and a kill in   *)
(* between; nothing may enter the ledger or come back to it meanwhile.     *)
(***************************************************************************)
StampedWasTold ==
    \A c \in Conversations : \A i \in DOMAIN ledger[c] :
        ledger[c][i].stamp # 0 => told[c][ledger[c][i].key] > 0

(***************************************************************************)
(* An instruction that was carried out is not given again.  Beyond the     *)
(* first time, agents are told a message only for a run that is done over: *)
(* after a failure, a cancel or a skip, or a kill of the engine.           *)
(***************************************************************************)
NotToldAgain ==
    \A c \in Conversations : \A k \in Keys : told[c][k] <= 1 + redo[c]

(***************************************************************************)
(* An agent works under the workflow its conversation belongs to: a        *)
(* message under another workflow never takes over a conversation whose    *)
(* agent is still at work (#565).                                          *)
(***************************************************************************)
RunsUnderItsWorkflow ==
    \A c \in known :
        CountsTowardSlot(row[c].state) => ranUnder[c] = workflow[c]

(***************************************************************************)
(* No message is stranded: one that is accepted leaves its conversation in *)
(* the queue or in flight, also when it had just ended, because it is      *)
(* written in the transaction that reopens it; its re-deliveries would be  *)
(* dropped as duplicates.                                                  *)
(***************************************************************************)
AcceptedIsNotStranded ==
    [][\A c \in Conversations :
         Len(ledger'[c]) > Len(ledger[c]) => row'[c].state \notin TerminalStates]_vars

Count(S) == Cardinality(S)

SentRows(c) == {i \in DOMAIN ledger[c] : ledger[c][i].stamp # 0}

Delivery == INSTANCE MessageDelivery WITH
    log   <- [c \in Conversations |->
                [i \in DOMAIN ledger[c] |-> ledger[c][i].key]],
    given <- [c \in Conversations |-> Count(SentRows(c))],
    undo  <- [c \in Conversations |->
                IF Unsent(c) # {} THEN Count(SentRows(c))
                ELSE Count({i \in DOMAIN ledger[c] :
                       ledger[c][i].stamp < ledger[c][Len(ledger[c])].stamp})]

(***************************************************************************)
(* The ledger implements the log with a cursor: messages are kept in order *)
(* and never dropped, what was sent is always a prefix, every dispatch     *)
(* takes all that is unsent, and a retry takes back the last batch, found  *)
(* by its stamp alone, if nothing came in since.                           *)
(***************************************************************************)
LedgerIsALog == Delivery!Spec

(***************************************************************************)
(* Liveness.  A handler that is under way goes on, and the tick comes      *)
(* again and again (deliveries pause: the loop takes an event before the   *)
(* tick).                                                                  *)
(***************************************************************************)
Fairness == WF_vars(HandlerStep) /\ SF_vars(Cycle)

FairSpec == Spec /\ Fairness

(***************************************************************************)
(* A message that arrived while the agent worked is not forgotten: a       *)
(* conversation does not stay done with something unsent.                  *)
(***************************************************************************)
DoneMeansAnswered ==
    \A c \in Conversations :
        row[c].state = "done" /\ Unsent(c) # {}
            ~> row[c].state # "done"

-----------------------------------------------------------------------------
(* Claims of the source that do not hold. *)

\* a retry, a person's or the engine's own, is the step that puts a
\* conversation back without a new message
Retried(c) ==
    /\ row[c].state \in {"failed", "cancelled", "skipped"}
    /\ row'[c].state = "queued"
    /\ Len(ledger'[c]) = Len(ledger[c])

(***************************************************************************)
(* retry_task: "A conversation that already has unsent messages gets none  *)
(* back: the run being retried never received a batch (it died before      *)
(* dispatch), so there is nothing to take back".  It does not hold: a      *)
(* message may come in while the run that fails has its batch.             *)
(***************************************************************************)
UnsentMeansNothingHanded ==
    [][\A c \in Conversations :
         Retried(c) /\ Unsent(c) # {} => handed[c] = {}]_vars
=============================================================================
