------------------------- MODULE MessageLedgerProofs -------------------------
(***************************************************************************)
(* Proofs about the message ledger, for any conversations, keys, workflows *)
(* and bounds.                                                             *)
(***************************************************************************)
EXTENDS MessageLedger, TaskStateProofs, SequenceTheorems, FiniteSetTheorems

(***************************************************************************)
(* A running handler has a conversation that has a row, and a delivery its *)
(* key; a conversation without a row was never dispatched.                 *)
(***************************************************************************)
HandlerOK ==
    /\ pc # "idle" => act.conv \in known
    /\ pc = "append" => act.key \in Keys
    /\ \A c \in Conversations \ known : row[c].state = "queued"

\* the engine does one thing at a time: nothing is handed off meanwhile
WorkflowOK ==
    pc \in {"taken", "launch", "record"} => act.workflow = workflow[act.conv]

(***************************************************************************)
(* Between the read and the stamp: what is unsent is in the batch, or was  *)
(* taken back meanwhile and had been told; after the launch the batch has  *)
(* been told too.                                                          *)
(***************************************************************************)
BatchOK ==
    /\ pc \in {"launch", "record", "mark"} =>
         \A k \in Unsent(act.conv) : k \in act.batch \/ told[act.conv][k] > 0
    /\ pc \in {"record", "mark"} =>
         \A k \in act.batch : told[act.conv][k] > 0

TypedInv == TypeOK /\ HandlerOK

-----------------------------------------------------------------------------
(***************************************************************************)
(* What the operations on a conversation's messages return.                *)
(***************************************************************************)

\* the same messages under other stamps
Restamped(p, q) ==
    /\ q \in Seq(Message) /\ Len(q) = Len(p)
    /\ \A i \in DOMAIN p : q[i].key = p[i].key

LEMMA MessageSeq ==
    ASSUME NEW q \in Seq(Message)
    PROVE  /\ Len(q) \in Nat /\ DOMAIN q = 1..Len(q)
           /\ \A i \in DOMAIN q : /\ q[i] \in Message
                                  /\ q[i].key \in Keys /\ q[i].stamp \in Nat
<1>1. Len(q) \in Nat /\ q \in [1..Len(q) -> Message] BY LenProperties
<1>2. QED BY <1>1 DEF Message

LEMMA StampedEffect ==
    ASSUME NEW q \in Seq(Message), NEW now \in Nat
    PROVE  /\ Restamped(q, Stamped(q, now))
           /\ \A i \in DOMAIN q : Stamped(q, now)[i].stamp =
                 IF q[i].stamp = 0 THEN now ELSE q[i].stamp
<1> DEFINE p == Stamped(q, now)
<1>1. Len(q) \in Nat /\ DOMAIN q = 1..Len(q)
      /\ \A i \in DOMAIN q : q[i] \in Message
  BY MessageSeq
<1>2. p = [i \in 1..Len(q) |-> IF q[i].stamp = 0
                               THEN [q[i] EXCEPT !.stamp = now] ELSE q[i]]
  BY <1>1 DEF Stamped
<1>3. \A i \in 1..Len(q) : p[i] = IF q[i].stamp = 0
                                  THEN [q[i] EXCEPT !.stamp = now] ELSE q[i]
  BY <1>2
<1>4. \A i \in 1..Len(q) :
        /\ p[i] \in Message /\ p[i].key = q[i].key
        /\ p[i].stamp = IF q[i].stamp = 0 THEN now ELSE q[i].stamp
  BY <1>1, <1>3 DEF Message
<1>5. p \in [1..Len(q) -> Message] BY <1>2, <1>3, <1>4
<1> HIDE DEF p
<1>6. p \in Seq(Message) /\ Len(p) = Len(q) BY <1>1, <1>5
<1>7. QED BY <1>1, <1>4, <1>6 DEF Restamped, p

LEMMA LastBatchEffect ==
    ASSUME NEW q \in Seq(Message)
    PROVE  /\ Restamped(q, LastBatchUnsent(q))
           /\ \A i \in DOMAIN q : LastBatchUnsent(q)[i].stamp \in {0, q[i].stamp}
<1> DEFINE sent == {i \in DOMAIN q : q[i].stamp # 0}
           last == CHOOSE i \in sent : \A j \in sent : j <= i
           p == LastBatchUnsent(q)
           back(i) == sent # {} /\ q[i].stamp = q[last].stamp
<1>1. Len(q) \in Nat /\ DOMAIN q = 1..Len(q)
      /\ \A i \in DOMAIN q : q[i] \in Message
  BY MessageSeq
<1>2. p = [i \in 1..Len(q) |-> IF back(i) THEN [q[i] EXCEPT !.stamp = 0] ELSE q[i]]
  BY <1>1 DEF LastBatchUnsent
<1> HIDE DEF back, p
<1>3. \A i \in 1..Len(q) : p[i] \in {q[i], [q[i] EXCEPT !.stamp = 0]}
  BY <1>2
<1>4. \A i \in 1..Len(q) : /\ p[i] \in Message /\ p[i].key = q[i].key
                           /\ p[i].stamp \in {0, q[i].stamp}
  BY <1>1, <1>3 DEF Message
<1>5. p \in [1..Len(q) -> Message] BY <1>2, <1>3, <1>4
<1>6. p \in Seq(Message) /\ Len(p) = Len(q) BY <1>1, <1>5
<1>7. QED BY <1>1, <1>4, <1>6 DEF Restamped, p

LEMMA AppendEffect ==
    ASSUME NEW q \in Seq(Message), NEW k \in Keys
    PROVE  LET p == Append(q, [key |-> k, stamp |-> 0])
           IN  /\ p \in Seq(Message) /\ Len(p) = Len(q) + 1
               /\ \A i \in 1..Len(q) : p[i] = q[i]
               /\ p[Len(p)] = [key |-> k, stamp |-> 0]
<1>1. [key |-> k, stamp |-> 0] \in Message BY DEF Message
<1>2. QED BY <1>1, AppendProperties

-----------------------------------------------------------------------------
(***************************************************************************)
(* Rows move along legal arrows.                                           *)
(***************************************************************************)

LEMMA MoveRow ==
    ASSUME row \in [Conversations -> RowRecords],
           NEW c \in Conversations, NEW event, Legal(row[c].state, event),
           row' = [row EXCEPT ![c] = Applied(@, event)]
    PROVE  /\ row' \in [Conversations -> RowRecords]
           /\ row'[c].state = Transition(row[c].state, event)
           /\ row'[c].version = row[c].version + 1
           /\ \A d \in Conversations \ {c} : row'[d] = row[d]
<1>1. row[c] \in RowRecords OBVIOUS
<1>2. /\ Applied(row[c], event) \in RowRecords
      /\ Applied(row[c], event).state = Transition(row[c].state, event)
      /\ Applied(row[c], event).version = row[c].version + 1
  BY <1>1, AppliedRow
<1>3. QED BY <1>2

LEMMA WriteRow ==
    ASSUME TypeOK, act.conv \in Conversations, NEW event, Write(event)
    PROVE  /\ row' \in [Conversations -> RowRecords]
           /\ Legal(row[act.conv].state, event)
           /\ row'[act.conv].state = Transition(row[act.conv].state, event)
           /\ row'[act.conv].version \in Nat
           /\ \A d \in Conversations \ {act.conv} : row'[d] = row[d]
<1>1. Legal(row[act.conv].state, event)
      /\ row' = [row EXCEPT ![act.conv] = Applied(@, event)]
  BY DEF Write, Outcome
<1>2. row \in [Conversations -> RowRecords] BY DEF TypeOK
<1>3. QED BY <1>1, <1>2, MoveRow DEF RowRecords

\* a conversation that is requeued keeps the types of the histories
LEMMA RequeueTyped ==
    ASSUME TypeOK, NEW c \in Conversations, Requeue(c)
    PROVE  /\ handed' \in [Conversations -> SUBSET Keys]
           /\ redo' \in [Conversations -> Nat]
BY DEF TypeOK, Requeue

\* a retry, whoever asks for it
LEMMA RetryEffect ==
    ASSUME TypeOK, NEW c \in Conversations, Legal(row[c].state, "Retry"), RetryTx(c)
    PROVE  /\ row' \in [Conversations -> RowRecords]
           /\ row'[c].state = "queued"
           /\ \A d \in Conversations \ {c} : row'[d] = row[d] /\ ledger'[d] = ledger[d]
           /\ ledger' \in [Conversations -> Seq(Message)]
           /\ ledger'[c] \in {ledger[c], LastBatchUnsent(ledger[c])}
           /\ handed' \in [Conversations -> SUBSET Keys]
           /\ redo' \in [Conversations -> Nat]
<1>1. row \in [Conversations -> RowRecords] /\ ledger \in [Conversations -> Seq(Message)]
  BY DEF TypeOK
<1>2. row' = [row EXCEPT ![c] = Applied(@, "Retry")] /\ Requeue(c)
  BY DEF RetryTx
<1>3. /\ row' \in [Conversations -> RowRecords]
      /\ row'[c].state = Transition(row[c].state, "Retry")
      /\ \A d \in Conversations \ {c} : row'[d] = row[d]
  BY <1>1, <1>2, MoveRow
<1>4. row'[c].state = "queued" BY <1>3, EndTargets
<1>5. LastBatchUnsent(ledger[c]) \in Seq(Message)
  BY <1>1, LastBatchEffect DEF Restamped
<1>6. /\ ledger' \in [Conversations -> Seq(Message)]
      /\ ledger'[c] \in {ledger[c], LastBatchUnsent(ledger[c])}
      /\ \A d \in Conversations \ {c} : ledger'[d] = ledger[d]
  <2>1. CASE ledger' = ledger BY <2>1, <1>1
  <2>2. CASE ledger' = [ledger EXCEPT ![c] = LastBatchUnsent(ledger[c])]
    BY <2>2, <1>1, <1>5
  <2>3. QED BY <2>1, <2>2 DEF RetryTx
<1>7. QED BY <1>2, <1>3, <1>4, <1>6, RequeueTyped

\* a message that is taken in, with or without a reopening
LEMMA AppendReopeningEffect ==
    ASSUME TypeOK, NEW c \in Conversations, NEW k \in Keys, AppendReopening(c, k)
    PROVE  /\ row' \in [Conversations -> RowRecords]
           /\ row'[c].state = row[c].state \/ row'[c].state = "queued"
           /\ \A d \in Conversations \ {c} : row'[d] = row[d] /\ ledger'[d] = ledger[d]
           /\ ledger' \in [Conversations -> Seq(Message)]
           /\ \/ k \in KeysOf(c) /\ row' = row /\ ledger' = ledger
              \/ /\ k \notin KeysOf(c)
                 /\ ledger'[c] = Append(ledger[c], [key |-> k, stamp |-> 0])
                 /\ row'[c].state \notin TerminalStates
                 /\ row[c].state \in TerminalStates => row'[c].state = "queued"
           /\ handed' \in [Conversations -> SUBSET Keys]
           /\ redo' \in [Conversations -> Nat]
<1>1. row \in [Conversations -> RowRecords] /\ ledger \in [Conversations -> Seq(Message)]
      /\ handed \in [Conversations -> SUBSET Keys] /\ redo \in [Conversations -> Nat]
  BY DEF TypeOK
<1>2. CASE k \in KeysOf(c) BY <1>1, <1>2 DEF AppendReopening
<1>3. CASE k \notin KeysOf(c)
  <2>1. ledger' = [ledger EXCEPT ![c] = Append(@, [key |-> k, stamp |-> 0])]
    BY <1>3 DEF AppendReopening, Appended
  <2>2. Append(ledger[c], [key |-> k, stamp |-> 0]) \in Seq(Message)
    BY <1>1, AppendEffect
  <2>3. /\ ledger' \in [Conversations -> Seq(Message)]
        /\ ledger'[c] = Append(ledger[c], [key |-> k, stamp |-> 0])
        /\ \A d \in Conversations \ {c} : ledger'[d] = ledger[d]
    BY <1>1, <2>1, <2>2
  <2>4. CASE row[c].state \in TerminalStates
    <3>1. row' = [row EXCEPT ![c] = Applied(@, "Reopen")] /\ Requeue(c)
      BY <1>3, <2>4 DEF AppendReopening
    <3>2. Legal(row[c].state, "Reopen") BY <2>4, AlwaysLegal
    <3>3. /\ row' \in [Conversations -> RowRecords]
          /\ row'[c].state = Transition(row[c].state, "Reopen")
          /\ \A d \in Conversations \ {c} : row'[d] = row[d]
      BY <1>1, <3>1, <3>2, MoveRow
    <3>4. row'[c].state = "queued" BY <3>2, <3>3, EndTargets
    <3>5. QED BY <1>3, <2>3, <3>1, <3>3, <3>4, RequeueTyped DEF TerminalStates
  <2>5. CASE row[c].state \notin TerminalStates
    <3>1. UNCHANGED <<row, handed, redo>> BY <1>3, <2>5 DEF AppendReopening
    <3>2. QED BY <1>1, <1>3, <2>3, <2>5, <3>1
  <2>6. QED BY <2>4, <2>5
<1>4. QED BY <1>2, <1>3

-----------------------------------------------------------------------------
(***************************************************************************)
(* Types, one lemma per group of actions.                                  *)
(***************************************************************************)

LEMMA InHand ==
    ASSUME TypedInv, pc # "idle"
    PROVE  act.conv \in known /\ act.conv \in Conversations /\ act \in Acts
BY DEF TypedInv, TypeOK, HandlerOK

LEMMA Returns ==
    ASSUME Return
    PROVE  /\ pc' = "idle" /\ pc' \in PCs
           /\ act' \in Acts
BY DEF Return, NoAct, Acts, PCs

LEMMA TypedInit == Init => TypedInv
<1> SUFFICES ASSUME Init PROVE TypedInv OBVIOUS
<1>1. row \in [Conversations -> RowRecords]
      /\ \A c \in Conversations : row[c].state = "queued"
  BY DEF Init, RowRecords, TaskStates, NonTerminalStates
<1>2. act \in Acts /\ pc = "idle" /\ pc \in PCs BY DEF Init, NoAct, Acts, PCs
<1>3. <<>> \in Seq(Message) BY EmptySeq
<1>4. QED BY <1>1, <1>2, <1>3 DEF Init, TypedInv, TypeOK, HandlerOK

LEMMA TypedIsolate ==
    ASSUME TypedInv, NEW event, Isolate(event) PROVE TypedInv'
<1>1. UNCHANGED <<known, row, workflow, body, ledger, clock, ranUnder, handed,
                  told, redo, runs, asked, crashes>>
  BY DEF Isolate, dbVars, histVars, boundVars
<1>2. pc' = "idle" /\ pc' \in PCs /\ act' \in Acts BY Returns DEF Isolate
<1>3. QED BY <1>1, <1>2 DEF TypedInv, TypeOK, HandlerOK, Unsent

LEMMA TypedSubmission ==
    ASSUME TypedInv, Submission \/ AppendMessage PROVE TypedInv'
<1>1. ASSUME NEW c \in Conversations, NEW k \in Keys, NEW w \in Workflows,
             Upsert(c, k, w)
      PROVE TypedInv'
  <2>1. act' \in Acts /\ act'.conv = c /\ act'.key = k
    BY <1>1 DEF Upsert, NoAct, Acts
  <2>2. /\ pc' = "append" /\ pc' \in PCs /\ known \subseteq known'
        /\ c \in known' /\ known' \subseteq Conversations
    BY <1>1 DEF Upsert, PCs, TypedInv, TypeOK
  <2>3. /\ workflow' \in [Conversations -> Workflows]
        /\ body' \in [Conversations -> Keys \cup {NoKey}]
        /\ \A d \in known' : body'[d] \in Keys
    <3>1. CASE c \in known
      <4>1. UNCHANGED <<known, workflow, body>> BY <1>1, <3>1 DEF Upsert
      <4>2. QED BY <4>1 DEF TypedInv, TypeOK
    <3>2. CASE c \notin known
      <4>1. /\ known' = known \cup {c}
            /\ workflow' = [workflow EXCEPT ![c] = w]
            /\ body' = [body EXCEPT ![c] = k]
        BY <1>1, <3>2 DEF Upsert
      <4>2. QED BY <4>1 DEF TypedInv, TypeOK
    <3>3. QED BY <3>1, <3>2
  <2>4. UNCHANGED <<row, ledger, clock, ranUnder, handed, told, redo, runs, asked,
                    crashes>>
    BY <1>1 DEF Upsert, histVars, boundVars
  <2>5. QED BY <2>1, <2>2, <2>3, <2>4 DEF TypedInv, TypeOK, HandlerOK
<1>2. ASSUME NEW c \in Conversations, NEW k \in Keys, NEW w \in Workflows,
             HandOff(c, k, w)
      PROVE TypedInv'
  <2>1. /\ row' \in [Conversations -> RowRecords]
        /\ \A d \in Conversations \ {c} : row'[d] = row[d]
        /\ ledger' \in [Conversations -> Seq(Message)]
        /\ handed' \in [Conversations -> SUBSET Keys]
        /\ redo' \in [Conversations -> Nat]
    BY <1>2, AppendReopeningEffect DEF HandOff, TypedInv
  <2>2. /\ UNCHANGED <<known, clock, pc, act, ranUnder, told, runs, asked, crashes>>
        /\ pc = "idle" /\ c \in known
    BY <1>2 DEF HandOff, boundVars
  <2>3. /\ workflow' \in [Conversations -> Workflows]
        /\ body' \in [Conversations -> Keys \cup {NoKey}]
        /\ \A d \in known' : body'[d] \in Keys
    BY <1>2, <2>2 DEF HandOff, TypedInv, TypeOK
  <2>4. QED BY <2>1, <2>2, <2>3 DEF TypedInv, TypeOK, HandlerOK
<1>3. CASE AppendMessage
  <2>1. pc = "append" /\ act.conv \in known /\ act.conv \in Conversations
        /\ act.key \in Keys
    BY <1>3, InHand DEF AppendMessage, TypedInv, HandlerOK
  <2>2. /\ row' \in [Conversations -> RowRecords]
        /\ \A d \in Conversations \ {act.conv} : row'[d] = row[d]
        /\ ledger' \in [Conversations -> Seq(Message)]
        /\ handed' \in [Conversations -> SUBSET Keys]
        /\ redo' \in [Conversations -> Nat]
    BY <1>3, <2>1, AppendReopeningEffect DEF AppendMessage, TypedInv
  <2>3. UNCHANGED <<known, workflow, body, clock, ranUnder, told, runs, asked, crashes>>
    BY <1>3 DEF AppendMessage, boundVars
  <2>4. pc' = "idle" /\ pc' \in PCs /\ act' \in Acts
    BY <1>3, Returns DEF AppendMessage
  <2>5. QED BY <2>1, <2>2, <2>3, <2>4 DEF TypedInv, TypeOK, HandlerOK
<1>4. QED BY <1>1, <1>2, <1>3 DEF Submission

\* the handler goes on, or returns, after a write
LEMMA TypedWrite ==
    ASSUME TypedInv, pc # "idle", NEW event, Write(event),
           UNCHANGED <<known, workflow, body, ledger, clock, handed, told, redo,
                       runs, asked, crashes>>,
           ranUnder' \in [Conversations -> Workflows \cup {NoWorkflow}],
           \/ pc' = "idle" /\ act' \in Acts
           \/ /\ pc' \in PCs \ {"append"}
              /\ act' = [act EXCEPT !.ver = row'[act.conv].version]
    PROVE  TypedInv'
<1>1. act.conv \in known /\ act.conv \in Conversations /\ act \in Acts BY InHand
<1>2. /\ row' \in [Conversations -> RowRecords]
      /\ row'[act.conv].version \in Nat
      /\ \A d \in Conversations \ {act.conv} : row'[d] = row[d]
  BY <1>1, WriteRow DEF TypedInv
<1>3. act' \in Acts /\ (pc' # "idle" => act'.conv = act.conv)
  BY <1>1, <1>2 DEF Acts
<1>4. pc' \in PCs /\ pc' # "append" BY DEF PCs
<1>5. \A d \in Conversations \ known : row'[d].state = "queued"
  BY <1>1, <1>2 DEF TypedInv, HandlerOK
<1>6. QED BY <1>1, <1>2, <1>3, <1>4, <1>5 DEF TypedInv, TypeOK, HandlerOK

LEMMA TypedDispatch ==
    ASSUME TypedInv,
           \/ \E c \in Conversations : Take(c)
           \/ Refuse \/ RefuseLate \/ ReadUnsent \/ Reattach \/ Launch
           \/ Record \/ Mark \/ Subscribe \/ SubscribeLate
    PROVE  TypedInv'
<1>1. ASSUME NEW c \in Conversations, Take(c) PROVE TypedInv'
  <2>1. /\ pc' = "taken" /\ pc' \in PCs /\ c \in known
        /\ act' \in Acts /\ act'.conv = c
    BY <1>1 DEF Take, NoAct, Acts, PCs, TypedInv, TypeOK, RowRecords
  <2>2. runs' = [runs EXCEPT ![c] = runs[c] + 1] BY <1>1 DEF Take
  <2>3. UNCHANGED <<known, row, workflow, body, ledger, clock, ranUnder, handed,
                    told, redo, asked, crashes>>
    BY <1>1 DEF Take, dbVars, histVars
  <2>4. runs' \in [Conversations -> Nat] BY <2>2 DEF TypedInv, TypeOK
  <2>5. QED BY <2>1, <2>3, <2>4 DEF TypedInv, TypeOK, HandlerOK
<1>2. CASE Refuse
  <2>1. /\ pc # "idle"
        /\ UNCHANGED <<known, workflow, body, ledger, clock, ranUnder, handed,
                       told, redo, runs, asked, crashes>>
    BY <1>2 DEF Refuse, histVars, boundVars
  <2>2. CASE Return /\ UNCHANGED row
    BY <2>1, <2>2, Returns DEF TypedInv, TypeOK, HandlerOK
  <2>3. CASE Write("Skip") /\ Return
    BY <2>1, <2>3, Returns, TypedWrite DEF TypedInv, TypeOK
  <2>4. CASE /\ Write("Fail") /\ pc' = "retry"
             /\ act' = [act EXCEPT !.ver = row'[act.conv].version]
    BY <2>1, <2>4, TypedWrite DEF TypedInv, TypeOK, PCs
  <2>5. QED BY <1>2, <2>2, <2>3, <2>4 DEF Refuse
<1>3. CASE RefuseLate BY <1>3, TypedIsolate DEF RefuseLate
<1>4. CASE ReadUnsent
  <2>1. pc # "idle" /\ pc' \in PCs /\ pc' # "append"
    BY <1>4 DEF ReadUnsent, PCs
  <2>2. act.conv \in known /\ act.conv \in Conversations /\ act \in Acts
    BY <2>1, InHand
  <2>3. \A i \in DOMAIN ledger[act.conv] : ledger[act.conv][i].key \in Keys
    BY <2>2, MessageSeq DEF TypedInv, TypeOK
  <2>4. Unsent(act.conv) \in SUBSET Keys BY <2>3 DEF Unsent
  <2>5. act' = [act EXCEPT !.batch = Unsent(act.conv)] BY <1>4 DEF ReadUnsent
  <2>6. act' \in Acts /\ act'.conv = act.conv BY <2>2, <2>4, <2>5 DEF Acts
  <2>7. UNCHANGED <<known, row, workflow, body, ledger, clock, ranUnder, handed,
                    told, redo, runs, asked, crashes>>
    BY <1>4 DEF ReadUnsent, dbVars, histVars, boundVars
  <2>8. QED BY <2>1, <2>2, <2>6, <2>7 DEF TypedInv, TypeOK, HandlerOK
<1>5. CASE Reattach
  <2>1. CASE Isolate("Dispatch") BY <2>1, TypedIsolate
  <2>2. CASE ~Isolate("Dispatch")
    <3>1. /\ pc # "idle" /\ Write("Dispatch") /\ Return
          /\ ranUnder' = [ranUnder EXCEPT ![act.conv] = act.workflow]
          /\ UNCHANGED <<known, workflow, body, ledger, clock, handed, told, redo,
                         runs, asked, crashes>>
      BY <1>5, <2>2 DEF Reattach, boundVars
    <3>2. ranUnder' \in [Conversations -> Workflows \cup {NoWorkflow}]
      BY <3>1, InHand DEF TypedInv, TypeOK, Acts
    <3>3. QED BY <3>1, <3>2, Returns, TypedWrite
  <2>3. QED BY <2>1, <2>2
<1>6. CASE Launch
  <2>1. pc # "idle" /\ pc' \in PCs /\ pc' \notin {"idle", "append"}
    BY <1>6 DEF Launch, PCs
  <2>2. act.conv \in known /\ act.conv \in Conversations BY <2>1, InHand
  <2>3. [k \in Keys |-> IF k \in Prompt THEN told[act.conv][k] + 1
                        ELSE told[act.conv][k]] \in [Keys -> Nat]
    BY <2>2 DEF TypedInv, TypeOK
  <2>4. told' \in [Conversations -> [Keys -> Nat]]
    BY <1>6, <2>2, <2>3 DEF Launch, TypedInv, TypeOK
  <2>5. UNCHANGED <<known, row, workflow, body, ledger, clock, act, ranUnder,
                    handed, redo, runs, asked, crashes>>
    BY <1>6 DEF Launch, dbVars, boundVars
  <2>6. QED BY <2>1, <2>2, <2>4, <2>5 DEF TypedInv, TypeOK, HandlerOK
<1>7. CASE Record
  <2>1. CASE Isolate("Dispatch") BY <2>1, TypedIsolate
  <2>2. CASE ~Isolate("Dispatch")
    <3>1. /\ pc # "idle" /\ Write("Dispatch")
          /\ act' = [act EXCEPT !.ver = row'[act.conv].version]
          /\ ranUnder' = [ranUnder EXCEPT ![act.conv] = act.workflow]
          /\ pc' \in PCs \ {"append"}
          /\ UNCHANGED <<known, workflow, body, ledger, clock, handed, told, redo,
                         runs, asked, crashes>>
      BY <1>7, <2>2 DEF Record, boundVars, PCs
    <3>2. ranUnder' \in [Conversations -> Workflows \cup {NoWorkflow}]
      BY <3>1, InHand DEF TypedInv, TypeOK, Acts
    <3>3. QED BY <3>1, <3>2, TypedWrite
  <2>3. QED BY <2>1, <2>2
<1>8. CASE Mark
  <2>1. pc # "idle" /\ pc' \in PCs /\ pc' \notin {"idle", "append"}
    BY <1>8 DEF Mark, PCs
  <2>2. act.conv \in known /\ act.conv \in Conversations BY <2>1, InHand
  <2>3. clock' \in Nat BY <1>8 DEF Mark, TypedInv, TypeOK
  <2>4. ledger[act.conv] \in Seq(Message) BY <2>2 DEF TypedInv, TypeOK
  <2>5. Stamped(ledger[act.conv], clock') \in Seq(Message)
    BY <2>3, <2>4, StampedEffect DEF Restamped
  <2>6. ledger' = [ledger EXCEPT ![act.conv] = Stamped(ledger[act.conv], clock')]
    BY <1>8 DEF Mark
  <2>7. ledger' \in [Conversations -> Seq(Message)]
    BY <2>5, <2>6 DEF TypedInv, TypeOK
  <2>8. Unsent(act.conv) \in SUBSET Keys BY <2>4, MessageSeq DEF Unsent
  <2>9. handed' \in [Conversations -> SUBSET Keys]
    BY <1>8, <2>8 DEF Mark, TypedInv, TypeOK
  <2>10. UNCHANGED <<known, row, workflow, body, act, ranUnder, told, redo, runs,
                     asked, crashes>>
    BY <1>8 DEF Mark, boundVars
  <2>11. QED BY <2>1, <2>2, <2>3, <2>7, <2>9, <2>10 DEF TypedInv, TypeOK, HandlerOK
<1>9. CASE Subscribe
  <2>1. /\ pc # "idle"
        /\ UNCHANGED <<known, workflow, body, ledger, clock, ranUnder, handed,
                       told, redo, runs, asked, crashes>>
    BY <1>9 DEF Subscribe, histVars, boundVars
  <2>2. CASE Return /\ UNCHANGED row
    BY <2>1, <2>2, Returns DEF TypedInv, TypeOK, HandlerOK
  <2>3. CASE /\ Write("Fail") /\ pc' = "retry"
             /\ act' = [act EXCEPT !.ver = row'[act.conv].version]
    BY <2>1, <2>3, TypedWrite DEF TypedInv, TypeOK, PCs
  <2>4. QED BY <1>9, <2>2, <2>3 DEF Subscribe
<1>10. CASE SubscribeLate BY <1>10, TypedIsolate DEF SubscribeLate
<1>11. QED BY <1>1, <1>2, <1>3, <1>4, <1>5, <1>6, <1>7, <1>8, <1>9, <1>10

LEMMA TypedRest ==
    ASSUME TypedInv,
           \/ AutoRetry \/ Cycle \/ Crash
           \/ \E c \in Conversations : Progress(c) \/ Cancel(c) \/ Retry(c)
    PROVE  TypedInv'
<1>1. CASE AutoRetry
  <2>1. pc # "idle" /\ act.conv \in known /\ act.conv \in Conversations
    BY <1>1, InHand DEF AutoRetry
  <2>2. /\ pc' = "idle" /\ pc' \in PCs /\ act' \in Acts
        /\ UNCHANGED <<known, workflow, body, clock, ranUnder, told, runs, asked,
                       crashes>>
    BY <1>1, Returns DEF AutoRetry, boundVars
  <2>3. CASE UNCHANGED <<row, ledger, handed, redo>>
    BY <2>2, <2>3 DEF TypedInv, TypeOK, HandlerOK
  <2>4. CASE Outcome(row[act.conv], act.ver, "Retry") = "ok" /\ RetryTx(act.conv)
    <3>1. Legal(row[act.conv].state, "Retry") BY <2>4 DEF Outcome
    <3>2. /\ row' \in [Conversations -> RowRecords]
          /\ \A d \in Conversations \ {act.conv} : row'[d] = row[d]
          /\ ledger' \in [Conversations -> Seq(Message)]
          /\ handed' \in [Conversations -> SUBSET Keys]
          /\ redo' \in [Conversations -> Nat]
      BY <2>1, <2>4, <3>1, RetryEffect DEF TypedInv
    <3>3. QED BY <2>1, <2>2, <3>2 DEF TypedInv, TypeOK, HandlerOK
  <2>5. QED BY <1>1, <2>3, <2>4 DEF AutoRetry
<1>2. CASE Cycle
  <2>1. \A c \in FinishedUnsent : /\ c \in known /\ c \in Conversations
                                  /\ row[c].state = "done"
    BY DEF FinishedUnsent, TypedInv, TypeOK
  <2>2. \A c \in FinishedUnsent : Applied(row[c], "Reopen") \in RowRecords
    <3>1. SUFFICES ASSUME NEW c \in FinishedUnsent
                   PROVE Applied(row[c], "Reopen") \in RowRecords
      OBVIOUS
    <3>2. row[c] \in RowRecords BY <2>1 DEF TypedInv, TypeOK
    <3>3. Legal(row[c].state, "Reopen") BY <2>1, AlwaysLegal DEF TerminalStates
    <3>4. QED BY <3>2, <3>3, AppliedRow
  <2>3. row' = [c \in Conversations |->
                  IF c \in FinishedUnsent THEN Applied(row[c], "Reopen") ELSE row[c]]
    BY <1>2 DEF Cycle
  <2>4. row' \in [Conversations -> RowRecords]
    BY <2>2, <2>3 DEF TypedInv, TypeOK
  <2>5. \A c \in Conversations \ known : row'[c] = row[c]
    BY <2>1, <2>3
  <2>6. handed' \in [Conversations -> SUBSET Keys]
    BY <1>2 DEF Cycle, TypedInv, TypeOK
  <2>7. UNCHANGED <<known, workflow, body, ledger, clock, pc, act, ranUnder,
                    told, redo, runs, asked, crashes>>
    BY <1>2 DEF Cycle, boundVars
  <2>8. QED BY <2>4, <2>5, <2>6, <2>7 DEF TypedInv, TypeOK, HandlerOK
<1>3. CASE Crash
  <2>1. pc' = "idle" /\ pc' \in PCs /\ act' \in Acts BY <1>3, Returns DEF Crash
  <2>2. redo' \in [Conversations -> Nat] /\ crashes' \in Nat
    BY <1>3 DEF Crash, TypedInv, TypeOK
  <2>3. UNCHANGED <<known, row, workflow, body, ledger, clock, ranUnder, handed,
                    told, runs, asked>>
    BY <1>3 DEF Crash, dbVars
  <2>4. QED BY <2>1, <2>2, <2>3 DEF TypedInv, TypeOK, HandlerOK
<1>4. ASSUME NEW c \in Conversations, Progress(c) PROVE TypedInv'
  <2>1. PICK event \in Reports : /\ Legal(row[c].state, event)
                                 /\ row' = [row EXCEPT ![c] = Applied(@, event)]
    BY <1>4 DEF Progress
  <2>2. /\ c \in known
        /\ UNCHANGED <<known, workflow, body, ledger, clock, pc, act, ranUnder,
                       handed, told, redo, runs, asked, crashes>>
    BY <1>4 DEF Progress, histVars, boundVars
  <2>3. /\ row' \in [Conversations -> RowRecords]
        /\ \A d \in Conversations \ {c} : row'[d] = row[d]
    BY <2>1, MoveRow DEF TypedInv, TypeOK
  <2>4. QED BY <2>2, <2>3 DEF TypedInv, TypeOK, HandlerOK
<1>5. ASSUME NEW c \in Conversations, Cancel(c) PROVE TypedInv'
  <2>1. /\ c \in known /\ row[c].state \notin TerminalStates
        /\ row' = [row EXCEPT ![c] = Applied(@, "Cancel")]
        /\ asked' = asked + 1
        /\ UNCHANGED <<known, workflow, body, ledger, clock, pc, act, ranUnder,
                       handed, told, redo, runs, crashes>>
    BY <1>5 DEF Cancel, histVars
  <2>2. Legal(row[c].state, "Cancel")
    BY <2>1, AlwaysLegal DEF TypedInv, TypeOK, RowRecords, TaskStates
  <2>3. /\ row' \in [Conversations -> RowRecords]
        /\ \A d \in Conversations \ {c} : row'[d] = row[d]
    BY <2>1, <2>2, MoveRow DEF TypedInv, TypeOK
  <2>4. QED BY <2>1, <2>3 DEF TypedInv, TypeOK, HandlerOK
<1>6. ASSUME NEW c \in Conversations, Retry(c) PROVE TypedInv'
  <2>1. /\ c \in known /\ Legal(row[c].state, "Retry") /\ RetryTx(c)
        /\ asked' = asked + 1
        /\ UNCHANGED <<known, workflow, body, clock, pc, act, ranUnder, told, runs,
                       crashes>>
    BY <1>6, AlwaysLegal DEF Retry
  <2>2. /\ row' \in [Conversations -> RowRecords]
        /\ \A d \in Conversations \ {c} : row'[d] = row[d]
        /\ ledger' \in [Conversations -> Seq(Message)]
        /\ handed' \in [Conversations -> SUBSET Keys]
        /\ redo' \in [Conversations -> Nat]
    BY <2>1, RetryEffect DEF TypedInv
  <2>3. asked' \in Nat BY <2>1 DEF TypedInv, TypeOK
  <2>4. TypeOK' BY <2>1, <2>2, <2>3 DEF TypedInv, TypeOK
  <2>5. HandlerOK' BY <2>1, <2>2 DEF TypedInv, HandlerOK
  <2>6. QED BY <2>4, <2>5 DEF TypedInv
<1>7. QED BY <1>1, <1>2, <1>3, <1>4, <1>5, <1>6

LEMMA TypedStep == TypedInv /\ [Next]_vars => TypedInv'
<1> SUFFICES ASSUME TypedInv, [Next]_vars PROVE TypedInv' OBVIOUS
<1>1. CASE Submission \/ AppendMessage BY <1>1, TypedSubmission
<1>2. CASE \/ \E c \in Conversations : Take(c)
           \/ Refuse \/ RefuseLate \/ ReadUnsent \/ Reattach \/ Launch
           \/ Record \/ Mark \/ Subscribe \/ SubscribeLate
  BY <1>2, TypedDispatch
<1>3. CASE \/ AutoRetry \/ Cycle \/ Crash
           \/ \E c \in Conversations : Progress(c) \/ Cancel(c) \/ Retry(c)
  BY <1>3, TypedRest
<1>4. CASE UNCHANGED vars
  <2>1. TypeOK' BY <1>4 DEF vars, TypedInv, TypeOK
  <2>2. HandlerOK' BY <1>4 DEF vars, TypedInv, HandlerOK
  <2>3. QED BY <2>1, <2>2 DEF TypedInv
<1>5. QED BY <1>1, <1>2, <1>3, <1>4 DEF Next, HandlerStep

(***************************************************************************)
(* The ledger and the handlers' data keep their type: a conversation in    *)
(* hand has a row and a body, stamps are times, whatever is delivered,     *)
(* asked for or killed.                                                    *)
(***************************************************************************)
THEOREM MessageTypeCorrect == Spec => []TypeOK
<1>1. TypedInv => TypeOK BY DEF TypedInv
<1>2. QED BY <1>1, TypedInit, TypedStep, PTL DEF Spec

-----------------------------------------------------------------------------
(***************************************************************************)
(* Which workflow an agent works under.                                    *)
(***************************************************************************)

\* between the read of the row and the record of the dispatch
Dispatching == pc \in {"taken", "launch", "record"}

LEMMA RunsKept ==
    ASSUME RunsUnderItsWorkflow, WorkflowOK,
           UNCHANGED <<known, workflow, ranUnder>>,
           \A c \in known : CountsTowardSlot(row'[c].state)
                              => CountsTowardSlot(row[c].state),
           Dispatching' => Dispatching /\ act'.conv = act.conv
                                       /\ act'.workflow = act.workflow
    PROVE  RunsUnderItsWorkflow' /\ WorkflowOK'
BY DEF RunsUnderItsWorkflow, WorkflowOK, Dispatching

\* an event that takes a row out of what counts, or leaves it out
LEMMA EndsRun ==
    ASSUME NEW from, NEW event \in {"Skip", "Fail", "Cancel", "Retry", "Reopen"},
           Legal(from, event)
    PROVE  ~CountsTowardSlot(Transition(from, event))
BY EndTargets DEF CountsTowardSlot

\* a handler gives a task up
LEMMA RunsIsolate ==
    ASSUME RunsUnderItsWorkflow, WorkflowOK, NEW event, Isolate(event)
    PROVE  RunsUnderItsWorkflow' /\ WorkflowOK'
<1>1. UNCHANGED <<known, workflow, ranUnder, row>> /\ pc' = "idle"
  BY DEF Isolate, Return, dbVars, histVars
<1>2. QED BY <1>1, RunsKept DEF Dispatching

LEMMA RunsWrite ==
    ASSUME TypedInv, RunsUnderItsWorkflow, WorkflowOK, pc # "idle",
           NEW event \in {"Skip", "Fail"}, Write(event),
           UNCHANGED <<known, workflow, ranUnder>>, ~Dispatching'
    PROVE  RunsUnderItsWorkflow' /\ WorkflowOK'
<1>1. act.conv \in known /\ act.conv \in Conversations BY InHand
<1>2. /\ ~CountsTowardSlot(row'[act.conv].state)
      /\ \A d \in Conversations \ {act.conv} : row'[d] = row[d]
  BY <1>1, WriteRow, EndsRun DEF TypedInv
<1>3. known \subseteq Conversations BY DEF TypedInv, TypeOK
<1>4. QED BY <1>1, <1>2, <1>3, RunsKept

\* the dispatch itself: the workflow that is recorded is the conversation's
LEMMA RunsRecord ==
    ASSUME TypedInv, RunsUnderItsWorkflow, WorkflowOK, Dispatching,
           Write("Dispatch"), UNCHANGED <<known, workflow>>, ~Dispatching',
           ranUnder' = [ranUnder EXCEPT ![act.conv] = act.workflow]
    PROVE  RunsUnderItsWorkflow' /\ WorkflowOK'
<1>1. pc # "idle" /\ act.workflow = workflow[act.conv]
  BY DEF WorkflowOK, Dispatching
<1>2. act.conv \in Conversations /\ known \subseteq Conversations
  BY <1>1, InHand DEF TypedInv, TypeOK
<1>3. \A d \in Conversations \ {act.conv} : row'[d] = row[d]
  BY <1>2, WriteRow DEF TypedInv
<1>4. /\ ranUnder'[act.conv] = workflow[act.conv]
      /\ \A d \in Conversations \ {act.conv} : ranUnder'[d] = ranUnder[d]
  BY <1>1, <1>2 DEF TypedInv, TypeOK
<1>5. RunsUnderItsWorkflow'
  BY <1>2, <1>3, <1>4 DEF RunsUnderItsWorkflow
<1>6. QED BY <1>5 DEF WorkflowOK, Dispatching

LEMMA RunsStep ==
    ASSUME TypedInv, RunsUnderItsWorkflow, WorkflowOK, [Next]_vars
    PROVE  RunsUnderItsWorkflow' /\ WorkflowOK'
<1> DEFINE Goal == RunsUnderItsWorkflow' /\ WorkflowOK'
<1>0. known \subseteq Conversations BY DEF TypedInv, TypeOK
<1>1. ASSUME NEW c \in Conversations, NEW k \in Keys, NEW w \in Workflows,
             Upsert(c, k, w)
      PROVE Goal
  <2>1. UNCHANGED <<row, ranUnder>> /\ ~Dispatching'
    BY <1>1 DEF Upsert, histVars, Dispatching
  <2>2. CASE c \in known
    BY <1>1, <2>1, <2>2, RunsKept DEF Upsert
  <2>3. CASE c \notin known
    <3>1. /\ known' = known \cup {c}
          /\ \A d \in known : workflow'[d] = workflow[d]
      BY <1>0, <1>1, <2>3 DEF Upsert, TypedInv, TypeOK
    <3>2. ~CountsTowardSlot(row[c].state)
      BY <2>3 DEF TypedInv, HandlerOK, CountsTowardSlot
    <3>3. QED BY <2>1, <3>1, <3>2 DEF RunsUnderItsWorkflow, WorkflowOK, Dispatching
  <2>4. QED BY <2>2, <2>3
<1>2. ASSUME NEW c \in Conversations, NEW k \in Keys, NEW w \in Workflows,
             HandOff(c, k, w)
      PROVE Goal
  <2>1. /\ c \in known /\ k \notin KeysOf(c) /\ row[c].state \in TerminalStates
        /\ AppendReopening(c, k) /\ pc = "idle"
        /\ UNCHANGED <<known, ranUnder, pc, act>>
        /\ workflow' = [workflow EXCEPT ![c] = w]
    BY <1>2 DEF HandOff, MayHandOff
  <2>2. /\ row'[c].state = "queued"
        /\ \A d \in Conversations \ {c} : row'[d] = row[d]
    BY <2>1, AppendReopeningEffect DEF TypedInv
  <2>3. /\ ~CountsTowardSlot(row'[c].state)
        /\ \A d \in Conversations \ {c} : workflow'[d] = workflow[d]
    BY <2>1, <2>2 DEF CountsTowardSlot, TypedInv, TypeOK
  <2>4. RunsUnderItsWorkflow'
    BY <1>0, <2>1, <2>2, <2>3 DEF RunsUnderItsWorkflow
  <2>5. QED BY <2>1, <2>4 DEF WorkflowOK
<1>3. CASE AppendMessage
  <2>1. /\ act.conv \in Conversations /\ act.key \in Keys
        /\ AppendReopening(act.conv, act.key)
        /\ UNCHANGED <<known, workflow, ranUnder>> /\ ~Dispatching'
    BY <1>3, InHand DEF AppendMessage, Return, TypedInv, HandlerOK, Dispatching
  <2>2. /\ row'[act.conv].state \in {row[act.conv].state, "queued"}
        /\ \A d \in Conversations \ {act.conv} : row'[d] = row[d]
    BY <2>1, AppendReopeningEffect DEF TypedInv
  <2>3. \A d \in known : CountsTowardSlot(row'[d].state)
                           => CountsTowardSlot(row[d].state)
    BY <1>0, <2>2 DEF CountsTowardSlot
  <2>4. QED BY <2>1, <2>3, RunsKept
<1>4. ASSUME NEW c \in Conversations, Take(c) PROVE Goal
  <2>1. /\ act'.conv = c /\ act'.workflow = workflow[c]
        /\ UNCHANGED <<known, row, workflow, ranUnder>>
    BY <1>4 DEF Take, NoAct, dbVars, histVars
  <2>2. QED BY <2>1 DEF RunsUnderItsWorkflow, WorkflowOK
<1>5. CASE Refuse
  <2>1. UNCHANGED <<known, workflow, ranUnder>> /\ pc # "idle" /\ ~Dispatching'
    BY <1>5 DEF Refuse, Return, histVars, Dispatching
  <2>2. CASE UNCHANGED row BY <2>1, <2>2, RunsKept
  <2>3. CASE \E event \in {"Skip", "Fail"} : Write(event)
    BY <2>1, <2>3, RunsWrite
  <2>4. QED BY <1>5, <2>2, <2>3 DEF Refuse
<1>6. CASE RefuseLate \/ SubscribeLate
  BY <1>6, RunsIsolate DEF RefuseLate, SubscribeLate
<1>7. CASE ReadUnsent
  <2>1. UNCHANGED <<known, row, workflow, ranUnder>> /\ Dispatching
    BY <1>7 DEF ReadUnsent, dbVars, histVars, Dispatching
  <2>2. act'.conv = act.conv /\ act'.workflow = act.workflow
    BY <1>7, <2>1, InHand DEF ReadUnsent, Acts
  <2>3. QED BY <2>1, <2>2, RunsKept
<1>8. CASE Reattach
  <2>1. CASE Isolate("Dispatch") BY <2>1, RunsIsolate
  <2>2. CASE ~Isolate("Dispatch")
    <3>1. /\ Dispatching /\ Write("Dispatch") /\ ~Dispatching'
          /\ ranUnder' = [ranUnder EXCEPT ![act.conv] = act.workflow]
          /\ UNCHANGED <<known, workflow>>
      BY <1>8, <2>2 DEF Reattach, Return, Dispatching
    <3>2. QED BY <3>1, RunsRecord
  <2>3. QED BY <2>1, <2>2
<1>9. CASE Launch
  <2>1. UNCHANGED <<known, row, workflow, ranUnder, act>> /\ Dispatching
    BY <1>9 DEF Launch, dbVars, Dispatching
  <2>2. QED BY <2>1, RunsKept
<1>10. CASE Record
  <2>1. CASE Isolate("Dispatch") BY <2>1, RunsIsolate
  <2>2. CASE ~Isolate("Dispatch")
    <3>1. /\ Dispatching /\ Write("Dispatch") /\ ~Dispatching'
          /\ ranUnder' = [ranUnder EXCEPT ![act.conv] = act.workflow]
          /\ UNCHANGED <<known, workflow>>
      BY <1>10, <2>2 DEF Record, Dispatching
    <3>2. QED BY <3>1, RunsRecord
  <2>3. QED BY <2>1, <2>2
<1>11. CASE Mark
  <2>1. UNCHANGED <<known, row, workflow, ranUnder>> /\ ~Dispatching'
    BY <1>11 DEF Mark, Dispatching
  <2>2. QED BY <2>1, RunsKept
<1>12. CASE Subscribe
  <2>1. UNCHANGED <<known, workflow, ranUnder>> /\ pc # "idle" /\ ~Dispatching'
    BY <1>12 DEF Subscribe, Return, histVars, Dispatching
  <2>2. CASE UNCHANGED row BY <2>1, <2>2, RunsKept
  <2>3. CASE Write("Fail") BY <2>1, <2>3, RunsWrite
  <2>4. QED BY <1>12, <2>2, <2>3 DEF Subscribe
<1>13. CASE AutoRetry
  <2>1. UNCHANGED <<known, workflow, ranUnder>> /\ pc # "idle" /\ ~Dispatching'
    BY <1>13 DEF AutoRetry, Return, Dispatching
  <2>2. CASE UNCHANGED row BY <2>1, <2>2, RunsKept
  <2>3. CASE Outcome(row[act.conv], act.ver, "Retry") = "ok" /\ RetryTx(act.conv)
    <3>1. /\ act.conv \in Conversations /\ Legal(row[act.conv].state, "Retry")
      BY <2>1, <2>3, InHand DEF Outcome
    <3>2. /\ row'[act.conv].state = "queued"
          /\ \A d \in Conversations \ {act.conv} : row'[d] = row[d]
      BY <2>3, <3>1, RetryEffect DEF TypedInv
    <3>3. \A d \in known : CountsTowardSlot(row'[d].state)
                             => CountsTowardSlot(row[d].state)
      BY <1>0, <3>2 DEF CountsTowardSlot
    <3>4. QED BY <2>1, <3>3, RunsKept
  <2>4. QED BY <1>13, <2>2, <2>3 DEF AutoRetry
<1>14. ASSUME NEW c \in Conversations, Cancel(c) \/ Retry(c) PROVE Goal
  <2>1. UNCHANGED <<known, workflow, ranUnder, pc, act>>
    BY <1>14 DEF Cancel, Retry, histVars
  <2>2. PICK event \in {"Cancel", "Retry"} :
          /\ Legal(row[c].state, event)
          /\ row' = [row EXCEPT ![c] = Applied(@, event)]
    BY <1>14, AlwaysLegal
       DEF Cancel, Retry, RetryTx, TypedInv, TypeOK, RowRecords, TaskStates
  <2>3. /\ row'[c].state = Transition(row[c].state, event)
        /\ \A d \in Conversations \ {c} : row'[d] = row[d]
    BY <2>2, MoveRow DEF TypedInv, TypeOK
  <2>4. ~CountsTowardSlot(row'[c].state) BY <2>2, <2>3, EndsRun
  <2>5. QED BY <1>0, <2>1, <2>3, <2>4, RunsKept DEF Dispatching
<1>15. ASSUME NEW c \in Conversations, Progress(c) PROVE Goal
  <2>1. /\ UNCHANGED <<known, workflow, ranUnder, pc, act>>
        /\ CountsTowardSlot(row[c].state)
    BY <1>15 DEF Progress, histVars
  <2>2. PICK event \in Reports : /\ Legal(row[c].state, event)
                                 /\ row' = [row EXCEPT ![c] = Applied(@, event)]
    BY <1>15 DEF Progress
  <2>3. \A d \in Conversations \ {c} : row'[d] = row[d]
    BY <2>2, MoveRow DEF TypedInv, TypeOK
  <2>4. QED BY <1>0, <2>1, <2>3, RunsKept DEF Dispatching
<1>16. CASE Cycle
  <2>1. UNCHANGED <<known, workflow, ranUnder, pc, act>> BY <1>16 DEF Cycle
  <2>2. \A c \in known : row'[c] = IF c \in FinishedUnsent
                                   THEN Applied(row[c], "Reopen") ELSE row[c]
    BY <1>0, <1>16 DEF Cycle
  <2>3. ASSUME NEW c \in FinishedUnsent
        PROVE  ~CountsTowardSlot(Applied(row[c], "Reopen").state)
    <3>1. c \in Conversations /\ Legal(row[c].state, "Reopen")
      BY <1>0, <2>3, AlwaysLegal DEF FinishedUnsent, TerminalStates
    <3>2. row[c] \in RowRecords BY <3>1 DEF TypedInv, TypeOK
    <3>3. QED BY <3>1, <3>2, AppliedRow, EndsRun
  <2>4. QED BY <2>1, <2>2, <2>3, RunsKept DEF Dispatching
<1>17. CASE Crash
  <2>1. UNCHANGED <<known, row, workflow, ranUnder>> /\ ~Dispatching'
    BY <1>17 DEF Crash, Return, dbVars, Dispatching
  <2>2. QED BY <2>1, RunsKept
<1>18. CASE UNCHANGED vars
  BY <1>18, RunsKept DEF vars, Dispatching
<1>19. QED
  BY <1>1, <1>2, <1>3, <1>4, <1>5, <1>6, <1>7, <1>8, <1>9, <1>10, <1>11, <1>12,
     <1>13, <1>14, <1>15, <1>16, <1>17, <1>18
  DEF Next, HandlerStep, Submission

(***************************************************************************)
(* An agent works under the workflow its conversation belongs to: a        *)
(* hand-off needs a finished conversation and an engine that is doing      *)
(* nothing else, so it never comes between the read of a row and the       *)
(* dispatch that is recorded for it.                                       *)
(***************************************************************************)
THEOREM MessageRunsUnderItsWorkflow == Spec => []RunsUnderItsWorkflow
<1> DEFINE Inv == TypedInv /\ RunsUnderItsWorkflow /\ WorkflowOK
<1>1. Init => Inv
  <2>1. Init => RunsUnderItsWorkflow /\ WorkflowOK
    BY DEF Init, RunsUnderItsWorkflow, WorkflowOK
  <2>2. QED BY <2>1, TypedInit
<1>2. Inv /\ [Next]_vars => Inv' BY TypedStep, RunsStep
<1>3. QED BY <1>1, <1>2, PTL DEF Spec

-----------------------------------------------------------------------------
(***************************************************************************)
(* What was stamped was told.                                              *)
(***************************************************************************)

\* from the read of the unsent messages to their stamp
Handing == pc \in {"launch", "record", "mark"}

ToldOK == StampedWasTold /\ BatchOK

\* what a conversation's messages may become without a launch or a stamp
Backed(c) == \/ ledger'[c] = ledger[c]
             \/ ledger'[c] = LastBatchUnsent(ledger[c])

LEMMA StampsKept ==
    ASSUME TypedInv, StampedWasTold, NEW c \in Conversations, Backed(c)
    PROVE  /\ \A i \in DOMAIN ledger'[c] :
                 ledger'[c][i].stamp # 0 => told[c][ledger'[c][i].key] > 0
           /\ \A k \in Unsent(c)' : k \in Unsent(c) \/ told[c][k] > 0
<1>1. ledger[c] \in Seq(Message) BY DEF TypedInv, TypeOK
<1>2. CASE ledger'[c] = ledger[c] BY <1>2 DEF StampedWasTold, Unsent
<1>3. CASE ledger'[c] = LastBatchUnsent(ledger[c])
  <2>1. /\ DOMAIN ledger'[c] = DOMAIN ledger[c]
        /\ \A i \in DOMAIN ledger[c] :
             /\ ledger'[c][i].key = ledger[c][i].key
             /\ ledger'[c][i].stamp \in {0, ledger[c][i].stamp}
    <3>1. /\ Restamped(ledger[c], ledger'[c])
          /\ \A i \in DOMAIN ledger[c] : ledger'[c][i].stamp \in {0, ledger[c][i].stamp}
      BY <1>1, <1>3, LastBatchEffect
    <3>2. QED BY <1>1, <3>1, LenProperties DEF Restamped
  <2>2. QED BY <2>1 DEF StampedWasTold, Unsent
<1>4. QED BY <1>2, <1>3 DEF Backed

LEMMA ToldKept ==
    ASSUME TypedInv, ToldOK, UNCHANGED told, \A c \in Conversations : Backed(c),
           Handing' => UNCHANGED <<pc, act>>
    PROVE  ToldOK'
<1>1. StampedWasTold' BY StampsKept DEF ToldOK, StampedWasTold
<1>2. BatchOK'
  <2>1. CASE ~Handing' BY <2>1 DEF BatchOK, Handing
  <2>2. CASE Handing'
    <3>1. UNCHANGED <<pc, act>> /\ act.conv \in Conversations
      BY <2>2, InHand DEF Handing
    <3>2. \A k \in Unsent(act.conv)' : k \in Unsent(act.conv) \/ told[act.conv][k] > 0
      BY <3>1, StampsKept DEF ToldOK
    <3>3. QED BY <2>2, <3>1, <3>2 DEF ToldOK, BatchOK, Handing, Unsent
  <2>3. QED BY <2>1, <2>2
<1>3. QED BY <1>1, <1>2 DEF ToldOK

\* a new message has no stamp, and comes when nothing is being handed over
LEMMA ToldAppended ==
    ASSUME TypedInv, ToldOK, UNCHANGED told, ~Handing',
           NEW c \in Conversations, NEW k \in Keys, AppendReopening(c, k)
    PROVE  ToldOK'
<1>1. /\ \A d \in Conversations \ {c} : ledger'[d] = ledger[d]
      /\ \/ ledger' = ledger
         \/ ledger'[c] = Append(ledger[c], [key |-> k, stamp |-> 0])
  BY AppendReopeningEffect DEF TypedInv
<1>2. CASE ledger' = ledger BY <1>2, ToldKept DEF Backed
<1>3. CASE ledger'[c] = Append(ledger[c], [key |-> k, stamp |-> 0])
  <2>1. ledger[c] \in Seq(Message) BY DEF TypedInv, TypeOK
  <2>2. /\ ledger'[c] \in Seq(Message) /\ Len(ledger'[c]) = Len(ledger[c]) + 1
        /\ \A i \in 1..Len(ledger[c]) : ledger'[c][i] = ledger[c][i]
        /\ ledger'[c][Len(ledger'[c])].stamp = 0
    BY <1>3, <2>1, AppendEffect
  <2>3. /\ DOMAIN ledger'[c] = 1..(Len(ledger[c]) + 1) /\ Len(ledger[c]) \in Nat
        /\ DOMAIN ledger[c] = 1..Len(ledger[c])
    BY <2>1, <2>2, LenProperties
  <2>4. \A i \in DOMAIN ledger'[c] :
          ledger'[c][i].stamp # 0 => told[c][ledger'[c][i].key] > 0
    BY <2>2, <2>3 DEF ToldOK, StampedWasTold
  <2>5. StampedWasTold' BY <1>1, <2>4 DEF ToldOK, StampedWasTold
  <2>6. QED BY <2>5 DEF ToldOK, BatchOK, Handing
<1>4. QED BY <1>1, <1>2, <1>3

LEMMA ToldStep ==
    ASSUME TypedInv, ToldOK, [Next]_vars
    PROVE  ToldOK'
<1>1. ASSUME NEW c \in Conversations, NEW k \in Keys, NEW w \in Workflows,
             Upsert(c, k, w) \/ HandOff(c, k, w)
      PROVE ToldOK'
  <2>1. CASE Upsert(c, k, w)
    BY <2>1, ToldKept DEF Upsert, histVars, Backed, Handing
  <2>2. CASE HandOff(c, k, w)
    BY <2>2, ToldAppended DEF HandOff, Handing
  <2>3. QED BY <1>1, <2>1, <2>2
<1>2. CASE AppendMessage
  <2>1. act.conv \in Conversations /\ act.key \in Keys /\ ~Handing'
    BY <1>2, InHand DEF AppendMessage, Return, TypedInv, HandlerOK, Handing
  <2>2. QED BY <1>2, <2>1, ToldAppended DEF AppendMessage
<1>3. ASSUME NEW c \in Conversations, Take(c) \/ Progress(c) \/ Cancel(c)
      PROVE ToldOK'
  <2>1. UNCHANGED <<ledger, told>>
    BY <1>3 DEF Take, Progress, Cancel, dbVars, histVars
  <2>2. Handing' => UNCHANGED <<pc, act>>
    BY <1>3 DEF Take, Progress, Cancel, Handing
  <2>3. QED BY <2>1, <2>2, ToldKept DEF Backed
<1>4. CASE \/ Refuse \/ RefuseLate \/ Reattach \/ Subscribe \/ SubscribeLate
           \/ Cycle \/ Crash
  <2>1. UNCHANGED <<ledger, told>>
    BY <1>4 DEF Refuse, RefuseLate, Reattach, Subscribe, SubscribeLate, Cycle,
                Crash, Isolate, dbVars, histVars
  <2>2. Handing' => UNCHANGED <<pc, act>>
    BY <1>4 DEF Refuse, RefuseLate, Reattach, Subscribe, SubscribeLate, Cycle,
                Crash, Isolate, Return, Handing
  <2>3. QED BY <2>1, <2>2, ToldKept DEF Backed
<1>5. CASE ReadUnsent
  <2>1. /\ UNCHANGED <<ledger, told>> /\ pc' = "launch"
        /\ act' = [act EXCEPT !.batch = Unsent(act.conv)] /\ pc # "idle"
    BY <1>5 DEF ReadUnsent, dbVars, histVars
  <2>2. act'.conv = act.conv /\ act'.batch = Unsent(act.conv)
    BY <2>1, InHand DEF Acts
  <2>3. BatchOK' BY <2>1, <2>2 DEF BatchOK, Unsent
  <2>4. StampedWasTold' BY <2>1 DEF ToldOK, StampedWasTold
  <2>5. QED BY <2>3, <2>4 DEF ToldOK
<1>6. CASE Launch
  <2>1. /\ UNCHANGED <<ledger, act>> /\ pc = "launch"
        /\ pc' \in {"record", "unanswered"} /\ act.conv \in Conversations
    BY <1>6, InHand DEF Launch, dbVars
  <2>2. told' = [told EXCEPT ![act.conv] =
                   [k \in Keys |-> IF k \in Prompt THEN told[act.conv][k] + 1
                                   ELSE told[act.conv][k]]]
    BY <1>6 DEF Launch
  <2>3. told \in [Conversations -> [Keys -> Nat]] BY DEF TypedInv, TypeOK
  <2>4. \A c \in Conversations : \A k \in Keys : told'[c][k] >= told[c][k]
    <3>1. SUFFICES ASSUME NEW c \in Conversations, NEW k \in Keys
                   PROVE told'[c][k] >= told[c][k]
      OBVIOUS
    <3>2. told[c][k] \in Nat BY <2>3
    <3>3. CASE c = act.conv BY <2>1, <2>2, <2>3, <3>2, <3>3
    <3>4. CASE c # act.conv BY <2>2, <2>3, <3>2, <3>4
    <3>5. QED BY <3>3, <3>4
  <2>5. \A k \in act.batch : told'[act.conv][k] > 0
    <3>1. SUFFICES ASSUME NEW k \in act.batch PROVE told'[act.conv][k] > 0
      OBVIOUS
    <3>2. k \in Prompt BY DEF Prompt
    <3>3. k \in Keys /\ told[act.conv][k] \in Nat
      BY <2>1, <2>3, InHand DEF Acts
    <3>4. QED BY <2>1, <2>2, <2>3, <3>2, <3>3
  <2>6. \A c \in Conversations : \A i \in DOMAIN ledger[c] :
          ledger[c][i].key \in Keys
    BY MessageSeq DEF TypedInv, TypeOK
  <2>7. StampedWasTold'
    <3>1. SUFFICES ASSUME NEW c \in Conversations, NEW i \in DOMAIN ledger[c],
                          ledger[c][i].stamp # 0
                   PROVE  told'[c][ledger[c][i].key] > 0
      BY <2>1 DEF StampedWasTold
    <3>2. told[c][ledger[c][i].key] > 0 BY <3>1 DEF ToldOK, StampedWasTold
    <3>3. DEFINE k == ledger[c][i].key
    <3>4. k \in Keys BY <2>6
    <3> HIDE DEF k
    <3>5. told'[c][k] >= told[c][k] /\ told[c][k] \in Nat /\ told'[c][k] \in Int
      <4>1. told'[c][k] >= told[c][k] /\ told[c][k] \in Nat BY <2>3, <2>4, <3>4
      <4>2. told' \in [Conversations -> [Keys -> Nat]]
        BY TypedStep DEF TypedInv, TypeOK
      <4>3. QED BY <4>1, <4>2, <3>4
    <3>6. QED BY <3>2, <3>5 DEF k
  <2>8. BatchOK'
    <3>1. \A k \in Unsent(act.conv) : k \in act.batch \/ told'[act.conv][k] > 0
      <4>1. SUFFICES ASSUME NEW k \in Unsent(act.conv), k \notin act.batch
                     PROVE told'[act.conv][k] > 0
        OBVIOUS
      <4>2. told[act.conv][k] > 0 BY <2>1, <4>1 DEF ToldOK, BatchOK
      <4>3. k \in Keys BY <2>1, <2>6 DEF Unsent
      <4>4. told' \in [Conversations -> [Keys -> Nat]]
        BY TypedStep DEF TypedInv, TypeOK
      <4>5. told'[act.conv][k] >= told[act.conv][k] /\ told[act.conv][k] \in Nat
            /\ told'[act.conv][k] \in Nat
        BY <2>1, <2>3, <2>4, <4>3, <4>4
      <4>6. QED BY <4>2, <4>5
    <3>2. QED BY <2>1, <2>5, <3>1 DEF BatchOK, Unsent
  <2>9. QED BY <2>7, <2>8 DEF ToldOK
<1>7. CASE Record
  <2>1. CASE Isolate("Dispatch")
    <3>1. UNCHANGED <<ledger, told>> /\ ~Handing'
      BY <2>1 DEF Isolate, Return, dbVars, histVars, Handing
    <3>2. QED BY <3>1, ToldKept DEF Backed
  <2>2. CASE ~Isolate("Dispatch")
    <3>1. /\ UNCHANGED <<ledger, told>> /\ pc = "record"
          /\ pc' \in {"mark", "subscribe"}
          /\ act' = [act EXCEPT !.ver = row'[act.conv].version]
      BY <1>7, <2>2 DEF Record
    <3>2. act'.conv = act.conv /\ act'.batch = act.batch
      BY <3>1, InHand DEF Acts
    <3>3. BatchOK' BY <3>1, <3>2 DEF ToldOK, BatchOK, Unsent
    <3>4. StampedWasTold' BY <3>1 DEF ToldOK, StampedWasTold
    <3>5. QED BY <3>3, <3>4 DEF ToldOK
  <2>3. QED BY <2>1, <2>2
<1>8. CASE Mark
  <2>1. /\ UNCHANGED told /\ ~Handing' /\ pc = "mark" /\ act.conv \in Conversations
        /\ clock' = clock + 1
        /\ ledger' = [ledger EXCEPT ![act.conv] = Stamped(ledger[act.conv], clock')]
    BY <1>8, InHand DEF Mark, Handing
  <2>2. ledger \in [Conversations -> Seq(Message)] /\ clock' \in Nat
    BY <2>1 DEF TypedInv, TypeOK
  <2>3. \A k \in Unsent(act.conv) : told[act.conv][k] > 0
    BY <2>1 DEF ToldOK, BatchOK
  <2>4. ASSUME NEW i \in DOMAIN ledger'[act.conv]
        PROVE  told[act.conv][ledger'[act.conv][i].key] > 0
    <3>1. ledger'[act.conv] = Stamped(ledger[act.conv], clock') BY <2>1, <2>2
    <3>2. /\ i \in DOMAIN ledger[act.conv]
          /\ ledger'[act.conv][i].key = ledger[act.conv][i].key
      BY <2>1, <2>2, <3>1, StampedEffect, LenProperties DEF Restamped
    <3>3. CASE ledger[act.conv][i].stamp = 0
      BY <2>3, <3>2, <3>3 DEF Unsent
    <3>4. CASE ledger[act.conv][i].stamp # 0
      BY <2>1, <3>2, <3>4 DEF ToldOK, StampedWasTold
    <3>5. QED BY <3>3, <3>4
  <2>5. \A c \in Conversations \ {act.conv} : ledger'[c] = ledger[c]
    BY <2>1, <2>2
  <2>6. StampedWasTold' BY <2>1, <2>4, <2>5 DEF ToldOK, StampedWasTold
  <2>7. QED BY <2>1, <2>6 DEF ToldOK, BatchOK, Handing
<1>9. CASE AutoRetry
  <2>1. UNCHANGED told /\ ~Handing' BY <1>9 DEF AutoRetry, Return, Handing
  <2>2. CASE UNCHANGED ledger BY <2>1, <2>2, ToldKept DEF Backed
  <2>3. CASE Outcome(row[act.conv], act.ver, "Retry") = "ok" /\ RetryTx(act.conv)
    <3>1. act.conv \in Conversations /\ Legal(row[act.conv].state, "Retry")
      BY <1>9, <2>3, InHand DEF AutoRetry, Outcome
    <3>2. \A c \in Conversations : Backed(c)
      BY <2>3, <3>1, RetryEffect DEF Backed, TypedInv
    <3>3. QED BY <2>1, <3>2, ToldKept
  <2>4. QED BY <1>9, <2>2, <2>3 DEF AutoRetry
<1>10. ASSUME NEW c \in Conversations, Retry(c) PROVE ToldOK'
  <2>1. /\ UNCHANGED <<told, pc, act>> /\ RetryTx(c)
        /\ Legal(row[c].state, "Retry")
    BY <1>10, AlwaysLegal DEF Retry
  <2>2. \A d \in Conversations : Backed(d)
    BY <2>1, RetryEffect DEF Backed, TypedInv
  <2>3. QED BY <2>1, <2>2, ToldKept
<1>11. CASE UNCHANGED vars
  BY <1>11, ToldKept DEF vars, Backed
<1>12. QED
  BY <1>1, <1>2, <1>3, <1>4, <1>5, <1>6, <1>7, <1>8, <1>9, <1>10, <1>11
  DEF Next, HandlerStep, Submission

(***************************************************************************)
(* A message is stamped only when an agent was told it: no message can     *)
(* arrive between the read and the stamp, and one that a retry takes back  *)
(* there had been told before.                                             *)
(***************************************************************************)
THEOREM MessageStampedWasTold == Spec => []StampedWasTold
<1> DEFINE Inv == TypedInv /\ ToldOK
<1>1. Init => Inv
  <2>1. Init => ToldOK
    BY DEF Init, ToldOK, StampedWasTold, BatchOK
  <2>2. QED BY <2>1, TypedInit
<1>2. Inv /\ [Next]_vars => Inv' BY TypedStep, ToldStep
<1>3. Inv => StampedWasTold BY DEF ToldOK
<1>4. QED BY <1>1, <1>2, <1>3, PTL DEF Spec

(***************************************************************************)
(* An accepted message leaves its conversation in the queue or in flight:  *)
(* the append and the reopening are one transaction.                       *)
(***************************************************************************)
THEOREM MessageAcceptedIsNotStranded == Spec => AcceptedIsNotStranded
<1> DEFINE Kept == \A c \in Conversations :
                     Len(ledger'[c]) > Len(ledger[c])
                       => row'[c].state \notin TerminalStates
<1>1. ASSUME TypedInv, NEW c \in Conversations, NEW k \in Keys,
             AppendReopening(c, k)
      PROVE Kept
  <2>1. /\ ledger \in [Conversations -> Seq(Message)]
        /\ \A d \in Conversations \ {c} : ledger'[d] = ledger[d]
        /\ \/ ledger' = ledger
           \/ row'[c].state \notin TerminalStates
    BY <1>1, AppendReopeningEffect DEF TypedInv, TypeOK
  <2>2. \A d \in Conversations : ~(Len(ledger[d]) > Len(ledger[d]))
    BY <2>1, LenProperties
  <2>3. QED BY <2>1, <2>2
<1>2. ASSUME TypedInv, \A c \in Conversations : Len(ledger'[c]) = Len(ledger[c])
      PROVE Kept
  BY <1>2, LenProperties DEF TypedInv, TypeOK
<1>3. TypedInv /\ [Next]_vars => Kept
  <2> SUFFICES ASSUME TypedInv, [Next]_vars PROVE Kept OBVIOUS
  <2>1. ASSUME NEW c \in Conversations, NEW k \in Keys, NEW w \in Workflows,
               Upsert(c, k, w) \/ HandOff(c, k, w)
        PROVE Kept
    BY <1>1, <1>2, <2>1 DEF Upsert, HandOff
  <2>2. CASE AppendMessage
    BY <1>1, <2>2, InHand DEF AppendMessage, TypedInv, HandlerOK
  <2>3. ASSUME NEW c \in Conversations, Take(c) \/ Progress(c) \/ Cancel(c)
        PROVE Kept
    BY <1>2, <2>3 DEF Take, Progress, Cancel, dbVars
  <2>4. CASE \/ Refuse \/ RefuseLate \/ ReadUnsent \/ Reattach \/ Launch \/ Record
             \/ Subscribe \/ SubscribeLate \/ Cycle \/ Crash
    BY <1>2, <2>4 DEF Refuse, RefuseLate, ReadUnsent, Reattach, Launch, Record,
                      Subscribe, SubscribeLate, Cycle, Crash, Isolate, dbVars
  <2>5. CASE Mark
    <3>1. /\ act.conv \in Conversations /\ clock' \in Nat
          /\ ledger \in [Conversations -> Seq(Message)]
          /\ ledger' = [ledger EXCEPT ![act.conv] = Stamped(ledger[act.conv], clock')]
      BY <2>5, InHand DEF Mark, TypedInv, TypeOK
    <3>2. Len(Stamped(ledger[act.conv], clock')) = Len(ledger[act.conv])
      BY <3>1, StampedEffect DEF Restamped
    <3>3. QED BY <1>2, <3>1, <3>2
  <2>6. ASSUME NEW c \in Conversations, Legal(row[c].state, "Retry"), RetryTx(c)
        PROVE Kept
    <3>1. /\ \A d \in Conversations \ {c} : ledger'[d] = ledger[d]
          /\ ledger'[c] \in {ledger[c], LastBatchUnsent(ledger[c])}
      BY <2>6, RetryEffect DEF TypedInv
    <3>2. Len(LastBatchUnsent(ledger[c])) = Len(ledger[c])
      BY LastBatchEffect DEF Restamped, TypedInv, TypeOK
    <3>3. QED BY <1>2, <3>1, <3>2
  <2>7. CASE AutoRetry
    BY <1>2, <2>6, <2>7, InHand DEF AutoRetry, Outcome
  <2>8. ASSUME NEW c \in Conversations, Retry(c) PROVE Kept
    BY <2>6, <2>8, AlwaysLegal DEF Retry
  <2>9. CASE UNCHANGED vars BY <1>2, <2>9 DEF vars
  <2>10. QED
    BY <2>1, <2>2, <2>3, <2>4, <2>5, <2>7, <2>8, <2>9
    DEF Next, HandlerStep, Submission
<1>4. QED BY <1>3, TypedInit, TypedStep, PTL DEF Spec, AcceptedIsNotStranded

-----------------------------------------------------------------------------
(***************************************************************************)
(* No instruction is given again.                                          *)
(***************************************************************************)

\* whose next run is a run done over
Over(c) == row[c].state \in {"failed", "cancelled", "skipped"}

\* how often a message may have been told once the next run has begun
Limit(c) == IF Over(c) THEN redo[c] + 1 ELSE redo[c]

\* what the next dispatch may tell: what is unsent, or what may still come in
NotSent(c, k) == k \in Unsent(c) \/ k \notin KeysOf(c)

(***************************************************************************)
(* A kill may leave a row without the message it was written for: the body *)
(* of the row is told in its stead, and the message is told when its       *)
(* source sends it again.                                                  *)
(***************************************************************************)
Orphan(c, k) ==
    /\ c \in known /\ body[c] = k /\ k \notin KeysOf(c)
    /\ ~(pc = "append" /\ act.conv = c /\ act.key = k)

Owed(c, k) == IF Orphan(c, k) THEN 1 ELSE 0

\* the row is as the handler read it, or wrote it
Fresh == act.ver = row[act.conv].version

\* told, and not stamped yet
InFlight(c, k) ==
    /\ act.conv = c /\ Fresh /\ k \in Prompt
    /\ pc \in {"record", "unanswered", "mark"}

\* NotToldAgain, and how much room there is before the next dispatch
Bound(c) ==
    \A k \in Keys :
        /\ told[c][k] + Owed(c, k) <= 1 + redo[c]
        /\ ~Over(c) /\ NotSent(c, k) /\ ~InFlight(c, k) => told[c][k] <= redo[c]
        /\ row[c].state = "queued" /\ Unsent(c) = {} /\ ~InFlight(c, k)
             => told[c][k] + Owed(c, k) <= redo[c]

BoundOK ==
    \A c \in Conversations :
        Bound(c) /\ (c \notin known => \A k \in Keys : told[c][k] = 0)

\* what a handler read, while nobody else wrote the row
FreshOK ==
    Fresh =>
        /\ pc \in {"taken", "launch", "record", "unanswered"}
             => row[act.conv].state = "queued"
        /\ pc \in {"launch", "record", "unanswered", "mark"}
             => act.batch = Unsent(act.conv)
        /\ pc = "mark" => row[act.conv].state = "dispatched"

(***************************************************************************)
(* Once another writer moved the row, the run in hand is lost: what it     *)
(* tells is paid for by the run that was or will be done over.             *)
(***************************************************************************)
StaleOK ==
    LET c == act.conv IN
    ~Fresh =>
        /\ pc \in {"taken", "launch"} => \A k \in Keys :
             /\ NotSent(c, k) => told[c][k] + 1 <= Limit(c)
             /\ Unsent(c) = {} => told[c][k] + 1 + Owed(c, k) <= Limit(c)
        /\ pc = "launch" => \A k \in Prompt :
             told[c][k] + 1 + Owed(c, k) <= Limit(c)
        /\ pc \in {"record", "unanswered"} => \A k \in Prompt :
             told[c][k] + Owed(c, k) <= Limit(c)
        /\ pc = "mark" => \A k \in Keys :
             told[c][k] + Owed(c, k) <= Limit(c)

OnceOK ==
    pc \notin {"idle", "append"} =>
        /\ act.ver <= row[act.conv].version
        /\ pc \in {"launch", "record", "unanswered", "mark"}
             => act.batch \subseteq KeysOf(act.conv)
        /\ pc = "mark" => act.batch # {}
        /\ FreshOK /\ StaleOK

OnceInv == BoundOK /\ OnceOK

\* which messages there are, and which are unsent, after each operation
LEMMA SameKeys ==
    ASSUME NEW c \in Conversations, ledger[c] \in Seq(Message),
           Restamped(ledger[c], ledger'[c])
    PROVE  KeysOf(c)' = KeysOf(c)
<1>1. DOMAIN ledger'[c] = DOMAIN ledger[c]
  BY LenProperties DEF Restamped
<1>2. \A i \in DOMAIN ledger[c] : ledger'[c][i].key = ledger[c][i].key
  BY DEF Restamped
<1>3. QED BY <1>1, <1>2 DEF KeysOf

LEMMA AppendedKeys ==
    ASSUME NEW c \in Conversations, NEW k \in Keys, ledger[c] \in Seq(Message),
           ledger'[c] = Append(ledger[c], [key |-> k, stamp |-> 0])
    PROVE  KeysOf(c)' = KeysOf(c) \cup {k} /\ Unsent(c)' = Unsent(c) \cup {k}
<1> DEFINE n == Len(ledger[c])
<1>1. /\ n \in Nat /\ DOMAIN ledger[c] = 1..n /\ DOMAIN ledger'[c] = 1..(n + 1)
      /\ \A i \in 1..n : ledger'[c][i] = ledger[c][i]
      /\ ledger'[c][n + 1] = [key |-> k, stamp |-> 0]
  BY AppendEffect, LenProperties
<1> HIDE DEF n
<1>2. /\ ledger'[c][n + 1].key = k /\ ledger'[c][n + 1].stamp = 0
      /\ \A i \in 1..(n + 1) : i \in 1..n \/ i = n + 1
      /\ \A i \in 1..n : i \in 1..(n + 1)
      /\ n + 1 \in 1..(n + 1)
  BY <1>1
<1>3. KeysOf(c)' = KeysOf(c) \cup {k} BY <1>1, <1>2 DEF KeysOf
<1>4. Unsent(c)' = Unsent(c) \cup {k}
  BY <1>1, <1>2 DEF Unsent
<1>5. QED BY <1>3, <1>4

LEMMA StampedKeys ==
    ASSUME NEW c \in Conversations, ledger[c] \in Seq(Message), NEW now \in Nat \ {0},
           ledger'[c] = Stamped(ledger[c], now)
    PROVE  KeysOf(c)' = KeysOf(c) /\ Unsent(c)' = {}
<1>1. /\ Restamped(ledger[c], ledger'[c])
      /\ \A i \in DOMAIN ledger[c] : ledger'[c][i].stamp =
           IF ledger[c][i].stamp = 0 THEN now ELSE ledger[c][i].stamp
  BY StampedEffect
<1>2. DOMAIN ledger'[c] = DOMAIN ledger[c]
  BY <1>1, LenProperties DEF Restamped
<1>3. \A i \in DOMAIN ledger'[c] : ledger'[c][i].stamp # 0
  BY <1>1, <1>2
<1>4. Unsent(c)' = {} BY <1>3 DEF Unsent
<1>5. QED BY <1>1, <1>4, SameKeys

\* the numbers are numbers
LEMMA CountedRow ==
    ASSUME TypedInv, NEW c \in Conversations
    PROVE  /\ told[c] \in [Keys -> Nat] /\ redo[c] \in Nat /\ Limit(c) \in Nat
           /\ row[c].version \in Nat
           /\ ledger[c] \in Seq(Message)
           /\ Unsent(c) \subseteq KeysOf(c) /\ KeysOf(c) \subseteq Keys
<1>1. told[c] \in [Keys -> Nat] /\ redo[c] \in Nat BY DEF TypedInv, TypeOK
<1>2. row[c] \in RowRecords /\ ledger[c] \in Seq(Message) BY DEF TypedInv, TypeOK
<1>3. Unsent(c) \subseteq KeysOf(c) BY DEF Unsent, KeysOf
<1>4. KeysOf(c) \subseteq Keys BY <1>2, MessageSeq DEF KeysOf
<1>5. QED BY <1>1, <1>2, <1>3, <1>4 DEF Limit, RowRecords

LEMMA Counted ==
    ASSUME TypedInv, NEW c \in Conversations, NEW k \in Keys
    PROVE  /\ told[c][k] \in Nat /\ redo[c] \in Nat /\ Limit(c) \in Nat
           /\ Owed(c, k) \in {0, 1}
BY CountedRow DEF Owed

(***************************************************************************)
(* What keeps a conversation within its bound: nothing more is told, and   *)
(* either its next run will be one done over, or the next dispatch has no  *)
(* more to tell than it had.                                               *)
(***************************************************************************)
LEMMA BoundKept ==
    ASSUME TypedInv, TypedInv', NEW c \in Conversations, Bound(c),
           told'[c] = told[c], redo'[c] = redo[c],
           \A k \in Keys : Orphan(c, k)' => Orphan(c, k),
           \/ Over(c)'
           \/ /\ ~Over(c)
              /\ \A k \in Keys : NotSent(c, k)' /\ ~InFlight(c, k)'
                                   => NotSent(c, k) /\ ~InFlight(c, k)
              /\ row'[c].state = "queued" /\ Unsent(c)' = {} =>
                   /\ row[c].state = "queued" /\ Unsent(c) = {}
                   /\ \A k \in Keys : InFlight(c, k) => InFlight(c, k)'
    PROVE  Bound(c)'
<1> SUFFICES ASSUME NEW k \in Keys
             PROVE
        /\ told'[c][k] + Owed(c, k)' <= 1 + redo'[c]
        /\ ~Over(c)' /\ NotSent(c, k)' /\ ~InFlight(c, k)' => told'[c][k] <= redo'[c]
        /\ row'[c].state = "queued" /\ Unsent(c)' = {} /\ ~InFlight(c, k)'
             => told'[c][k] + Owed(c, k)' <= redo'[c]
  BY DEF Bound
<1>1. told[c][k] \in Nat /\ redo[c] \in Nat /\ Owed(c, k) \in {0, 1}
  BY Counted
<1>2. Owed(c, k)' \in {0, 1} /\ Owed(c, k)' <= Owed(c, k)
  BY DEF Owed
<1>3. /\ told[c][k] + Owed(c, k) <= 1 + redo[c]
      /\ ~Over(c) /\ NotSent(c, k) /\ ~InFlight(c, k) => told[c][k] <= redo[c]
      /\ row[c].state = "queued" /\ Unsent(c) = {} /\ ~InFlight(c, k)
           => told[c][k] + Owed(c, k) <= redo[c]
  BY DEF Bound
<1>4. Over(c)' => row'[c].state # "queued" BY DEF Over
<1>5. QED BY <1>1, <1>2, <1>3, <1>4

\* a run done over makes room for itself
LEMMA BoundRedone ==
    ASSUME TypedInv, NEW c \in Conversations, Bound(c),
           told'[c] = told[c], redo'[c] = redo[c] + 1,
           \A k \in Keys : Orphan(c, k)' => Orphan(c, k)
    PROVE  Bound(c)'
<1> SUFFICES ASSUME NEW k \in Keys
             PROVE  told'[c][k] + Owed(c, k)' <= redo'[c] /\ told'[c][k] <= redo'[c]
                    /\ told'[c][k] + Owed(c, k)' <= 1 + redo'[c]
  BY DEF Bound
<1>1. told[c][k] \in Nat /\ redo[c] \in Nat /\ Owed(c, k) \in {0, 1}
  BY Counted
<1>2. Owed(c, k)' \in {0, 1} /\ Owed(c, k)' <= Owed(c, k)
  BY DEF Owed
<1>3. told[c][k] + Owed(c, k) <= 1 + redo[c] BY DEF Bound
<1>4. QED BY <1>1, <1>2, <1>3

\* a conversation the step does not concern
LEMMA BoundAside ==
    ASSUME TypedInv, TypedInv', NEW c \in Conversations, Bound(c),
           told'[c] = told[c], redo'[c] = redo[c], row'[c].state = row[c].state,
           ledger'[c] = ledger[c],
           \A k \in Keys : Orphan(c, k)' => Orphan(c, k),
           \A k \in Keys : InFlight(c, k) => InFlight(c, k)'
    PROVE  Bound(c)'
<1>1. Unsent(c)' = Unsent(c) /\ KeysOf(c)' = KeysOf(c) BY DEF Unsent, KeysOf
<1>2. Over(c)' = Over(c) BY DEF Over
<1>3. \A k \in Keys : NotSent(c, k)' = NotSent(c, k) BY <1>1 DEF NotSent
<1>4. QED BY <1>1, <1>2, <1>3, BoundKept

LEMMA OrphanKept ==
    ASSUME NEW c \in Conversations, c \in known' => c \in known,
           body'[c] = body[c], KeysOf(c) \subseteq KeysOf(c)',
           \/ pc # "append"
           \/ pc' # "append" /\ (act.conv = c => act.key \in KeysOf(c)')
           \/ UNCHANGED <<pc, act>>
    PROVE  \A k \in Keys : Orphan(c, k)' => Orphan(c, k)
BY DEF Orphan

\* a person's cancel: the run in hand will be done over
LEMMA OnceCancelled ==
    ASSUME TypedInv, OnceInv, UNCHANGED <<pc, act, told, redo, known, body, ledger>>,
           NEW c \in Conversations, ~Over(c), Over(c)',
           row'[c].version = row[c].version + 1,
           \A d \in Conversations \ {c} : row'[d] = row[d]
    PROVE  OnceOK'
<1> SUFFICES ASSUME pc \notin {"idle", "append"} PROVE OnceOK'
  BY DEF OnceOK
<1>1. act.conv \in Conversations /\ act \in Acts BY InHand
<1>2. act.ver \in Nat /\ row[act.conv].version \in Nat /\ act.ver <= row[act.conv].version
  BY <1>1, CountedRow DEF Acts, OnceInv, OnceOK
<1>3. /\ \A k \in Keys : Owed(act.conv, k)' = Owed(act.conv, k)
      /\ \A k \in Keys : NotSent(act.conv, k)' = NotSent(act.conv, k)
      /\ KeysOf(act.conv)' = KeysOf(act.conv) /\ Unsent(act.conv)' = Unsent(act.conv)
      /\ Prompt' = Prompt
  BY DEF Owed, Orphan, NotSent, KeysOf, Unsent, Prompt
<1>4. CASE act.conv # c
  <2>1. Fresh' = Fresh /\ Limit(act.conv)' = Limit(act.conv)
    BY <1>1, <1>4 DEF Fresh, Limit, Over
  <2>2. row'[act.conv] = row[act.conv] BY <1>1, <1>4
  <2>3. FreshOK' BY <1>3, <2>1, <2>2 DEF OnceInv, OnceOK, FreshOK
  <2>4. Prompt \subseteq Keys BY <1>1, InHand DEF Prompt, Acts, TypedInv, TypeOK
  <2>5. StaleOK' BY <1>3, <2>1, <2>4 DEF OnceInv, OnceOK, StaleOK
  <2>6. QED BY <1>2, <1>3, <2>2, <2>3, <2>5 DEF OnceInv, OnceOK
<1>5. CASE act.conv = c
  <2>1. ~Fresh' /\ act.ver <= row'[c].version
    BY <1>2, <1>5 DEF Fresh
  <2>2. Limit(c)' = redo[c] + 1 /\ Limit(c) = redo[c] /\ redo[c] \in Nat
    BY CountedRow DEF Limit
  <2>3. Prompt \subseteq Keys BY <1>1, InHand DEF Prompt, Acts, TypedInv, TypeOK
  <2>4. ASSUME NEW k \in Keys
        PROVE  /\ told[c][k] \in Nat /\ Owed(c, k) \in {0, 1}
               /\ told[c][k] + Owed(c, k) <= 1 + redo[c]
               /\ pc \in {"taken", "launch"} =>
                    /\ NotSent(c, k) => told[c][k] + 1 <= redo[c] + 1
                    /\ Unsent(c) = {} => told[c][k] + 1 + Owed(c, k) <= redo[c] + 1
               /\ pc = "launch" /\ k \in Prompt
                    => told[c][k] + 1 + Owed(c, k) <= redo[c] + 1
    <3>1. told[c][k] \in Nat /\ redo[c] \in Nat /\ Owed(c, k) \in {0, 1}
          /\ Unsent(c) \subseteq KeysOf(c)
      BY Counted, CountedRow
    <3>2. /\ told[c][k] + Owed(c, k) <= 1 + redo[c]
          /\ NotSent(c, k) /\ ~InFlight(c, k) => told[c][k] <= redo[c]
          /\ row[c].state = "queued" /\ Unsent(c) = {} /\ ~InFlight(c, k)
               => told[c][k] + Owed(c, k) <= redo[c]
      BY DEF OnceInv, BoundOK, Bound
    <3>3. pc \in {"taken", "launch"} => ~InFlight(c, k) BY DEF InFlight
    <3>4. CASE Fresh
      <4>1. /\ pc \in {"taken", "launch"} => row[c].state = "queued"
            /\ pc = "launch" => act.batch = Unsent(c)
        BY <1>5, <3>4 DEF OnceInv, OnceOK, FreshOK
      <4>2. pc = "launch" /\ k \in Prompt =>
              \/ k \in Unsent(c) /\ NotSent(c, k) /\ Owed(c, k) = 0
              \/ Unsent(c) = {}
        BY <3>1, <4>1 DEF Prompt, NotSent, Owed, Orphan
      <4>3. QED BY <3>1, <3>2, <3>3, <4>1, <4>2
    <3>5. CASE ~Fresh
      <4>1. /\ pc \in {"taken", "launch"} =>
                 /\ NotSent(c, k) => told[c][k] + 1 <= redo[c]
                 /\ Unsent(c) = {} => told[c][k] + 1 + Owed(c, k) <= redo[c]
            /\ pc = "launch" /\ k \in Prompt
                    => told[c][k] + 1 + Owed(c, k) <= redo[c]
        BY <1>5, <2>2, <3>5 DEF OnceInv, OnceOK, StaleOK
      <4>2. QED BY <3>1, <3>2, <4>1
    <3>6. QED BY <3>4, <3>5
  <2>5. FreshOK' BY <2>1 DEF FreshOK
  <2>6. StaleOK'
    <3>1. /\ pc \in {"taken", "launch"} => \A k \in Keys :
              /\ NotSent(c, k) => told[c][k] + 1 <= redo[c] + 1
              /\ Unsent(c) = {} => told[c][k] + 1 + Owed(c, k) <= redo[c] + 1
          /\ pc = "launch" => \A k \in Prompt :
               told[c][k] + 1 + Owed(c, k) <= redo[c] + 1
          /\ pc \in {"record", "unanswered"} => \A k \in Prompt :
               told[c][k] + Owed(c, k) <= redo[c] + 1
          /\ pc = "mark" => \A k \in Keys :
               told[c][k] + Owed(c, k) <= redo[c] + 1
      BY <2>2, <2>3, <2>4
    <3>2. QED BY <1>3, <1>5, <2>2, <2>3, <3>1 DEF StaleOK
  <2>7. QED BY <1>3, <1>5, <2>1, <2>5, <2>6 DEF OnceInv, OnceOK
<1>6. QED BY <1>4, <1>5

\* a retry, a person's or the engine's own
LEMMA RetriedMessages ==
    ASSUME TypedInv, NEW c \in Conversations, Legal(row[c].state, "Retry"), RetryTx(c)
    PROVE  /\ \A d \in Conversations : KeysOf(d)' = KeysOf(d)
           /\ Unsent(c) # {} => Unsent(c)' = Unsent(c)
           /\ \A d \in Conversations \ {c} : ledger'[d] = ledger[d] /\ row'[d] = row[d]
           /\ row'[c].state = "queued" /\ row'[c].version = row[c].version + 1
           /\ row[c].state # "done" =>
                redo'[c] = redo[c] + 1
           /\ \A d \in Conversations \ {c} : redo'[d] = redo[d]
<1>1. /\ ledger \in [Conversations -> Seq(Message)] /\ row \in [Conversations -> RowRecords]
      /\ redo \in [Conversations -> Nat]
  BY DEF TypedInv, TypeOK
<1>2. KeysOf(c)' = KeysOf(c)
  <2>1. CASE ledger'[c] = ledger[c] BY <2>1 DEF KeysOf
  <2>2. CASE ledger'[c] = LastBatchUnsent(ledger[c])
    BY <1>1, <2>2, LastBatchEffect, SameKeys
  <2>3. QED BY <2>1, <2>2, RetryEffect DEF TypedInv
<1>3. Unsent(c) # {} => Unsent(c)' = Unsent(c) BY DEF RetryTx, Unsent
<1>4. row' = [row EXCEPT ![c] = Applied(@, "Retry")] BY DEF RetryTx
<1>5. row'[c].version = row[c].version + 1 BY <1>1, <1>4, MoveRow
<1>6. /\ row[c].state # "done" => redo'[c] = redo[c] + 1
      /\ \A d \in Conversations \ {c} : redo'[d] = redo[d]
  BY <1>1 DEF RetryTx, Requeue
<1>7. \A d \in Conversations \ {c} : ledger'[d] = ledger[d] /\ row'[d] = row[d]
  BY RetryEffect DEF TypedInv
<1>8. ASSUME NEW d \in Conversations PROVE KeysOf(d)' = KeysOf(d)
  <2>1. CASE d = c BY <1>2, <2>1
  <2>2. CASE d # c BY <1>7, <2>2 DEF KeysOf
  <2>3. QED BY <2>1, <2>2
<1>9. QED BY <1>3, <1>5, <1>6, <1>7, <1>8, RetryEffect DEF TypedInv

LEMMA BoundRetried ==
    ASSUME TypedInv, TypedInv', BoundOK, NEW c \in Conversations,
           Legal(row[c].state, "Retry"), Over(c), RetryTx(c), c \in known,
           UNCHANGED <<told, known, body>>,
           \/ UNCHANGED <<pc, act>>
           \/ pc = "retry" /\ pc' # "append"
    PROVE  BoundOK'
<1>1. /\ \A d \in Conversations : KeysOf(d)' = KeysOf(d)
      /\ redo'[c] = redo[c] + 1
      /\ \A d \in Conversations \ {c} :
           ledger'[d] = ledger[d] /\ row'[d] = row[d] /\ redo'[d] = redo[d]
  BY RetriedMessages DEF Over
<1>2. \A d \in Conversations : \A k \in Keys : Orphan(d, k)' => Orphan(d, k)
  BY <1>1, OrphanKept
<1>3. Bound(c)' BY <1>1, <1>2, BoundRedone DEF BoundOK
<1>4. ASSUME NEW d \in Conversations \ {c} PROVE Bound(d)'
  <2>1. \A k \in Keys : InFlight(d, k) => InFlight(d, k)'
    BY <1>1 DEF InFlight, Fresh, Prompt
  <2>2. QED BY <1>1, <1>2, <2>1, BoundAside DEF BoundOK
<1>5. QED BY <1>3, <1>4 DEF BoundOK

\* a person's retry: what the run in hand tells was paid for
LEMMA OnceRetried ==
    ASSUME TypedInv, OnceInv, UNCHANGED <<pc, act, told, known, body>>,
           NEW c \in Conversations, Over(c), Legal(row[c].state, "Retry"), RetryTx(c)
    PROVE  OnceOK'
<1> SUFFICES ASSUME pc \notin {"idle", "append"} PROVE OnceOK'
  BY DEF OnceOK
<1>1. act.conv \in Conversations /\ act \in Acts BY InHand
<1>2. act.ver \in Nat /\ row[act.conv].version \in Nat /\ act.ver <= row[act.conv].version
  BY <1>1, CountedRow DEF Acts, OnceInv, OnceOK
<1>3. /\ \A d \in Conversations : KeysOf(d)' = KeysOf(d)
      /\ redo'[c] = redo[c] + 1
      /\ Unsent(c) # {} => Unsent(c)' = Unsent(c)
      /\ row'[c].state = "queued" /\ row'[c].version = row[c].version + 1
      /\ \A d \in Conversations \ {c} :
           ledger'[d] = ledger[d] /\ row'[d] = row[d] /\ redo'[d] = redo[d]
  BY RetriedMessages DEF Over
<1>4. Prompt' = Prompt /\ Prompt \subseteq Keys
  BY <1>1, InHand DEF Prompt, Acts, TypedInv, TypeOK
<1>5. KeysOf(act.conv)' = KeysOf(act.conv)
  <2>1. act' = act OBVIOUS
  <2>2. PICK d \in Conversations : act.conv = d BY <1>1
  <2>3. QED BY <1>3, <2>1, <2>2
<1>6. \A k \in Keys : Owed(act.conv, k)' = Owed(act.conv, k)
  BY <1>5 DEF Owed, Orphan
<1>7. CASE act.conv # c
  <2>1. row'[act.conv] = row[act.conv] /\ Unsent(act.conv)' = Unsent(act.conv)
    BY <1>1, <1>3, <1>7 DEF Unsent
  <2>2. Fresh' = Fresh /\ Limit(act.conv)' = Limit(act.conv)
    BY <1>1, <1>3, <1>7, <2>1 DEF Fresh, Limit, Over
  <2>3. \A k \in Keys : NotSent(act.conv, k)' = NotSent(act.conv, k)
    BY <1>5, <2>1 DEF NotSent
  <2>4. FreshOK' BY <2>1, <2>2 DEF OnceInv, OnceOK, FreshOK
  <2>5. StaleOK' BY <1>4, <1>6, <2>1, <2>2, <2>3 DEF OnceInv, OnceOK, StaleOK
  <2>6. QED BY <1>2, <1>5, <2>1, <2>4, <2>5 DEF OnceInv, OnceOK
<1>8. CASE act.conv = c
  <2>1. ~Fresh' /\ act.ver <= row'[c].version
    BY <1>2, <1>3, <1>8 DEF Fresh
  <2>2. Limit(c)' = Limit(c) BY <1>3 DEF Limit, Over
  <2>3. FreshOK' BY <2>1 DEF FreshOK
  <2>4. CASE Fresh
    <3>1. pc \notin {"taken", "launch", "record", "unanswered", "mark"}
      BY <1>8, <2>4 DEF OnceInv, OnceOK, FreshOK, Over
    <3>2. StaleOK' BY <3>1 DEF StaleOK
    <3>3. QED BY <1>8, <2>1, <2>3, <3>1, <3>2 DEF OnceOK
  <2>5. CASE ~Fresh
    <3>1. ASSUME NEW k \in Keys, pc \in {"taken", "launch"}
          PROVE  /\ NotSent(c, k)' => told[c][k] + 1 <= Limit(c)
                 /\ Unsent(c)' = {} => told[c][k] + 1 + Owed(c, k) <= Limit(c)
      <4>1. /\ NotSent(c, k) => told[c][k] + 1 <= Limit(c)
            /\ Unsent(c) = {} => told[c][k] + 1 + Owed(c, k) <= Limit(c)
        BY <1>8, <2>5, <3>1 DEF OnceInv, OnceOK, StaleOK
      <4>2. told[c][k] \in Nat /\ Limit(c) \in Nat /\ Owed(c, k) \in {0, 1}
        BY Counted
      <4>3. CASE Unsent(c) = {} BY <4>1, <4>2, <4>3
      <4>4. CASE Unsent(c) # {}
        <5>1. Unsent(c)' = Unsent(c) /\ NotSent(c, k)' = NotSent(c, k)
          BY <1>3, <4>4 DEF NotSent
        <5>2. QED BY <4>1, <4>4, <5>1
      <4>5. QED BY <4>3, <4>4
    <3>2. StaleOK'
      BY <1>4, <1>6, <1>8, <2>2, <2>5, <3>1 DEF OnceInv, OnceOK, StaleOK
    <3>3. QED BY <1>5, <1>8, <2>1, <2>3, <3>2 DEF OnceInv, OnceOK
  <2>6. QED BY <2>4, <2>5
<1>9. QED BY <1>7, <1>8

\* a message that is taken in, by the handler or in a hand-off
LEMMA BoundAppended ==
    ASSUME TypedInv, TypedInv', BoundOK, NEW c \in known, NEW k \in Keys,
           AppendReopening(c, k), UNCHANGED <<told, known>>, pc' = "idle",
           \/ pc = "idle" /\ k \notin KeysOf(c) /\ row[c].state \in TerminalStates
           \/ pc = "append" /\ act.conv = c /\ act.key = k,
           body' = body \/ body' = [body EXCEPT ![c] = k]
    PROVE  BoundOK'
<1>1. /\ c \in Conversations /\ ledger[c] \in Seq(Message) /\ redo[c] \in Nat
      /\ redo \in [Conversations -> Nat]
      /\ body \in [Conversations -> Keys \cup {NoKey}]
  BY DEF TypedInv, TypeOK
<1>2. /\ \A d \in Conversations \ {c} : row'[d] = row[d] /\ ledger'[d] = ledger[d]
      /\ \/ k \in KeysOf(c) /\ row' = row /\ ledger' = ledger
         \/ /\ k \notin KeysOf(c)
            /\ ledger'[c] = Append(ledger[c], [key |-> k, stamp |-> 0])
            /\ row[c].state \in TerminalStates => row'[c].state = "queued"
  BY <1>1, AppendReopeningEffect DEF TypedInv
<1>3. \A d \in Conversations \ {c} : redo'[d] = redo[d] /\ body'[d] = body[d]
  BY <1>1 DEF AppendReopening, Requeue
<1>4. \A d \in Conversations : \A j \in Keys : ~InFlight(d, j) /\ ~InFlight(d, j)'
  BY DEF InFlight
<1>5. ASSUME NEW d \in Conversations \ {c} PROVE Bound(d)'
  <2>1. KeysOf(d)' = KeysOf(d) BY <1>2 DEF KeysOf
  <2>2. \A j \in Keys : Orphan(d, j)' => Orphan(d, j)
    BY <1>3, <2>1 DEF Orphan
  <2>3. QED BY <1>2, <1>3, <1>4, <2>2, BoundAside DEF BoundOK
<1>6. /\ KeysOf(c)' = KeysOf(c) \cup {k}
      /\ k \notin KeysOf(c) => Unsent(c)' = Unsent(c) \cup {k}
  <2>1. CASE k \in KeysOf(c) BY <1>2, <2>1 DEF KeysOf
  <2>2. CASE k \notin KeysOf(c) BY <1>1, <1>2, <2>2, AppendedKeys
  <2>3. QED BY <2>1, <2>2
<1>7. \A j \in Keys : Orphan(c, j)' => Orphan(c, j)
  <2>1. SUFFICES ASSUME NEW j \in Keys, Orphan(c, j)' PROVE Orphan(c, j)
    OBVIOUS
  <2>2. j # k /\ j \notin KeysOf(c) /\ body'[c] = j BY <1>6, <2>1 DEF Orphan
  <2>3. body[c] = j BY <1>1, <2>2
  <2>4. QED BY <2>2, <2>3 DEF Orphan
<1>8. Bound(c)'
  <2>1. CASE k \in KeysOf(c)
    <3>1. UNCHANGED <<ledger, row, redo>> BY <2>1 DEF AppendReopening
    <3>2. QED BY <1>1, <1>4, <1>7, <3>1, BoundAside DEF BoundOK
  <2>2. CASE k \notin KeysOf(c) /\ Over(c)
    <3>1. redo' = [redo EXCEPT ![c] = @ + 1]
      BY <2>2 DEF AppendReopening, Requeue, Over, TerminalStates
    <3>2. QED BY <1>1, <1>7, <3>1, BoundRedone DEF BoundOK
  <2>3. CASE k \notin KeysOf(c) /\ ~Over(c)
    <3>1. redo' = redo
      BY <2>3 DEF AppendReopening, Requeue, Over, TerminalStates
    <3>2. \A j \in Keys : NotSent(c, j)' => NotSent(c, j)
      BY <1>6, <2>3 DEF NotSent
    <3>3. Unsent(c)' # {} BY <1>6, <2>3
    <3>4. QED BY <1>1, <1>4, <1>7, <2>3, <3>1, <3>2, <3>3, BoundKept DEF BoundOK
  <2>4. QED BY <2>1, <2>2, <2>3
<1>9. QED BY <1>5, <1>8 DEF BoundOK

LEMMA BoundIngest ==
    ASSUME TypedInv, OnceInv, Submission \/ AppendMessage
    PROVE  BoundOK'
<1>0. TypedInv' BY TypedStep DEF Next, HandlerStep
<1>1. ASSUME NEW c \in Conversations, NEW k \in Keys, NEW w \in Workflows,
             Upsert(c, k, w)
      PROVE  BoundOK'
  <2>1. /\ UNCHANGED <<row, ledger, told, redo>> /\ pc = "idle" /\ pc' = "append"
        /\ act'.conv = c /\ act'.key = k
    BY <1>1 DEF Upsert, histVars, NoAct
  <2>2. /\ known' = known \cup {c}
        /\ c \in known => body' = body
        /\ c \notin known => body' = [body EXCEPT ![c] = k]
    BY <1>1 DEF Upsert
  <2>3. body \in [Conversations -> Keys \cup {NoKey}] BY DEF TypedInv, TypeOK
  <2>4. \A d \in Conversations : KeysOf(d)' = KeysOf(d) BY <2>1 DEF KeysOf
  <2>5. \A d \in Conversations : \A j \in Keys : Orphan(d, j)' => Orphan(d, j)
    BY <2>1, <2>2, <2>3, <2>4 DEF Orphan
  <2>6. \A d \in Conversations : \A j \in Keys : ~InFlight(d, j)
    BY <2>1 DEF InFlight
  <2>7. \A d \in Conversations : Bound(d)'
    BY <1>0, <2>1, <2>5, <2>6, BoundAside DEF OnceInv, BoundOK
  <2>8. QED BY <2>1, <2>2, <2>7 DEF OnceInv, BoundOK
<1>2. ASSUME NEW c \in Conversations, NEW k \in Keys, NEW w \in Workflows,
             HandOff(c, k, w)
      PROVE  BoundOK'
  BY <1>0, <1>2, BoundAppended DEF HandOff, MayHandOff, OnceInv
<1>3. CASE AppendMessage
  <2>1. pc = "append" /\ act.conv \in known /\ act.key \in Keys
    BY <1>3, InHand DEF AppendMessage, TypedInv, HandlerOK
  <2>2. QED BY <1>0, <1>3, <2>1, BoundAppended DEF AppendMessage, Return, OnceInv
<1>4. QED BY <1>1, <1>2, <1>3 DEF Submission

\* a handler goes on or ends, and the ledger and the histories stay as they are
LEMMA BoundHeld ==
    ASSUME TypedInv, TypedInv', BoundOK, pc # "append" \/ UNCHANGED <<pc, act>>,
           UNCHANGED <<known, body, ledger, told, redo>>,
           \A c \in Conversations :
              \/ row'[c].state = row[c].state
              \/ Over(c)'
              \/ /\ ~Over(c) /\ row'[c].state # "queued"
              \/ ~Over(c) /\ Unsent(c) # {},
           \A c \in Conversations : \A k \in Keys :
              InFlight(c, k) => \/ InFlight(c, k)'
                                \/ Over(c)'
                                \/ /\ row'[c].state # "queued"
                                   /\ NotSent(c, k) => told[c][k] <= redo[c]
    PROVE  BoundOK'
<1> SUFFICES ASSUME NEW c \in Conversations PROVE Bound(c)'
  BY DEF BoundOK
<1>1. Unsent(c)' = Unsent(c) /\ KeysOf(c)' = KeysOf(c) BY DEF Unsent, KeysOf
<1>2. \A k \in Keys : NotSent(c, k)' = NotSent(c, k) BY <1>1 DEF NotSent
<1>3. \A k \in Keys : Orphan(c, k)' => Orphan(c, k)
  BY <1>1, OrphanKept
<1>4. Bound(c) BY DEF BoundOK
<1>5. CASE Over(c)' BY <1>3, <1>4, <1>5, BoundKept
<1>6. CASE ~Over(c)'
  <2>1. ~Over(c) BY <1>6 DEF Over
  <2>2. \A k \in Keys : Owed(c, k)' <= Owed(c, k) /\ Owed(c, k)' \in {0, 1}
    BY <1>3 DEF Owed
  <2>3. row'[c].state = "queued" /\ Unsent(c) = {} => row[c].state = "queued"
    BY <1>6
  <2>4. ASSUME NEW k \in Keys
        PROVE  /\ told[c][k] + Owed(c, k)' <= 1 + redo[c]
               /\ NotSent(c, k) /\ ~InFlight(c, k)' => told[c][k] <= redo[c]
               /\ row'[c].state = "queued" /\ Unsent(c) = {} /\ ~InFlight(c, k)'
                    => told[c][k] + Owed(c, k)' <= redo[c]
    <3>1. /\ told[c][k] + Owed(c, k) <= 1 + redo[c]
          /\ NotSent(c, k) /\ ~InFlight(c, k) => told[c][k] <= redo[c]
          /\ row[c].state = "queued" /\ Unsent(c) = {} /\ ~InFlight(c, k)
               => told[c][k] + Owed(c, k) <= redo[c]
      BY <1>4, <2>1 DEF Bound
    <3>2. told[c][k] \in Nat /\ redo[c] \in Nat /\ Owed(c, k) \in {0, 1}
      BY Counted
    <3>3. InFlight(c, k) => \/ InFlight(c, k)'
                            \/ /\ row'[c].state # "queued"
                               /\ NotSent(c, k) => told[c][k] <= redo[c]
      BY <1>6
    <3>4. Owed(c, k)' <= Owed(c, k) /\ Owed(c, k)' \in {0, 1} BY <2>2
    <3>5. CASE InFlight(c, k)' BY <3>1, <3>2, <3>4, <3>5
    <3>6. CASE ~InFlight(c, k) BY <2>3, <3>1, <3>2, <3>4, <3>6
    <3>7. CASE /\ row'[c].state # "queued"
               /\ NotSent(c, k) => told[c][k] <= redo[c]
      BY <3>1, <3>2, <3>4, <3>7
    <3>8. QED BY <3>3, <3>5, <3>6, <3>7
  <2>5. QED BY <1>1, <1>2, <1>6, <2>4 DEF Bound
<1>7. QED BY <1>5, <1>6

LEMMA QueuedLegal ==
    ASSUME NEW event \in {"Dispatch", "Skip", "Fail"}
    PROVE  Legal("queued", event)
<1>1. <<"queued", "Dispatch", "dispatched">> \in Arrows
      /\ <<"queued", "Skip", "skipped">> \in Arrows
      /\ <<"queued", "Fail", "failed">> \in Arrows
  BY DEF Arrows, NonTerminalStates
<1>2. QED BY <1>1 DEF Legal, TaskStates, TerminalStates, NonTerminalStates

LEMMA DispatchTarget == Transition("queued", "Dispatch") = "dispatched"
<1> DEFINE to == Transition("queued", "Dispatch")
<1>1. <<"queued", "Dispatch", to>> \in Arrows BY QueuedLegal, LegalArrow
<1> HIDE DEF to
<1>2. to = "dispatched" BY <1>1 DEF Arrows, TerminalStates, NonTerminalStates
<1>3. QED BY <1>2 DEF to

\* a handler that gives a task up had lost it, or had told it nothing
LEMMA BoundIsolate ==
    ASSUME TypedInv, TypedInv', OnceInv, NEW event \in {"Dispatch", "Skip", "Fail"},
           pc \in {"taken", "launch", "record", "unanswered", "subscribe"},
           Isolate(event)
    PROVE  BoundOK'
<1>1. UNCHANGED <<known, row, body, ledger, told, redo>>
  BY DEF Isolate, dbVars, histVars
<1>2. ASSUME NEW c \in Conversations, NEW k \in Keys PROVE ~InFlight(c, k)
  <2>1. SUFFICES ASSUME InFlight(c, k) PROVE FALSE OBVIOUS
  <2>2. row[act.conv].state = "queued"
    BY <2>1 DEF InFlight, OnceInv, OnceOK, FreshOK
  <2>3. Outcome(row[act.conv], act.ver, event) = "ok"
    BY <2>1, <2>2, QueuedLegal DEF InFlight, Fresh, Outcome
  <2>4. QED BY <2>3 DEF Isolate
<1>3. QED BY <1>1, <1>2, BoundHeld DEF OnceInv

\* the write that ends a run that is not to be
LEMMA BoundEnded ==
    ASSUME TypedInv, TypedInv', OnceInv, NEW event \in {"Skip", "Fail"},
           pc \notin {"idle", "append"}, Write(event),
           UNCHANGED <<known, body, ledger, told, redo>>
    PROVE  BoundOK'
<1>1. act.conv \in Conversations BY InHand
<1>2. \A c \in Conversations : c = act.conv => row'[c].state \in {"failed", "skipped"}
  BY <1>1, WriteRow, EndTargets DEF TypedInv
<1>3. \A c \in Conversations : c # act.conv => row'[c] = row[c]
  BY <1>1, WriteRow DEF TypedInv
<1>4. \A c \in Conversations : c = act.conv => Over(c)' BY <1>2 DEF Over
<1>5. \A c \in Conversations : \A k \in Keys : InFlight(c, k) => c = act.conv
  BY DEF InFlight
<1>6. QED BY <1>3, <1>4, <1>5, BoundHeld DEF OnceInv

\* the dispatch itself
LEMMA BoundDispatched ==
    ASSUME TypedInv, TypedInv', OnceInv, pc \in {"launch", "record"},
           Write("Dispatch"),
           UNCHANGED <<known, body, ledger, told, redo>>,
           pc = "record" =>
             /\ act' = [act EXCEPT !.ver = row'[act.conv].version]
             /\ pc' = IF act.batch = {} THEN "subscribe" ELSE "mark"
    PROVE  BoundOK'
<1>1. PICK d \in Conversations : act.conv = d BY InHand
<1>2. Fresh /\ row[d].state = "queued"
  <2>1. Fresh BY DEF Write, Outcome, Fresh
  <2>2. QED BY <1>1, <2>1 DEF OnceInv, OnceOK, FreshOK
<1>3. Legal("queued", "Dispatch") /\ Transition("queued", "Dispatch") = "dispatched"
  BY QueuedLegal, DispatchTarget
<1>4. /\ row'[d].state = "dispatched"
      /\ \A c \in Conversations \ {d} : row'[c] = row[c]
  BY <1>1, <1>2, <1>3, WriteRow DEF TypedInv
<1>5. ~Over(d) BY <1>2 DEF Over
<1>6. ASSUME NEW k \in Keys, InFlight(d, k)
      PROVE  InFlight(d, k)' \/ (NotSent(d, k) => told[d][k] <= redo[d])
  <2>1. pc = "record" /\ k \in Prompt BY <1>6 DEF InFlight
  <2>2. /\ act'.conv = d /\ act'.batch = act.batch /\ act'.ver = row'[d].version
    BY <1>1, <2>1, InHand DEF Acts
  <2>3. Prompt' = Prompt BY <1>1, <2>2 DEF Prompt
  <2>4. CASE act.batch # {}
    BY <1>1, <2>1, <2>2, <2>3, <2>4 DEF InFlight, Fresh
  <2>5. CASE act.batch = {}
    <3>1. k = body[d] /\ d \in known /\ Unsent(d) = {}
      BY <1>1, <1>2, <2>1, <2>5, InHand DEF Prompt, OnceInv, OnceOK, FreshOK
    <3>2. ASSUME NotSent(d, k) PROVE told[d][k] <= redo[d]
      <4>1. Orphan(d, k) BY <2>1, <3>1, <3>2 DEF NotSent, Orphan
      <4>2. told[d][k] + 1 <= 1 + redo[d]
        BY <4>1 DEF OnceInv, BoundOK, Bound, Owed
      <4>3. QED BY <4>2, Counted
    <3>3. QED BY <3>2
  <2>6. QED BY <2>4, <2>5
<1>7. \A c \in Conversations : \A k \in Keys : InFlight(c, k) => c = d
  BY <1>1 DEF InFlight
<1>8. QED BY <1>4, <1>5, <1>6, <1>7, BoundHeld DEF OnceInv

\* who is told had room for it
LEMMA RoomToTell ==
    ASSUME TypedInv, OnceInv, pc = "launch", NEW k \in Prompt
    PROVE  LET c == act.conv IN
           /\ k \in Keys
           /\ told[c][k] + 1 + Owed(c, k) <= 1 + redo[c]
           /\ ~Over(c) /\ ~Fresh => told[c][k] + 1 + Owed(c, k) <= redo[c]
<1>1. PICK c \in Conversations : act.conv = c BY InHand
<1>2. k \in Keys BY <1>1, InHand DEF Prompt, Acts, TypedInv, TypeOK
<1>3. told[c][k] \in Nat /\ redo[c] \in Nat /\ Owed(c, k) \in {0, 1} /\ Limit(c) \in Nat
  BY <1>2, Counted
<1>4. CASE Fresh
  <2>1. row[c].state = "queued" /\ act.batch = Unsent(c) /\ ~Over(c)
    BY <1>1, <1>4 DEF OnceInv, OnceOK, FreshOK, Over
  <2>2. ~InFlight(c, k) BY DEF InFlight
  <2>3. /\ NotSent(c, k) => told[c][k] <= redo[c]
        /\ Unsent(c) = {} => told[c][k] + Owed(c, k) <= redo[c]
    BY <1>2, <2>1, <2>2 DEF OnceInv, BoundOK, Bound
  <2>4. \/ NotSent(c, k) /\ Owed(c, k) = 0
        \/ Unsent(c) = {}
    BY <2>1, CountedRow DEF Prompt, NotSent, Owed, Orphan
  <2>5. QED BY <1>1, <1>2, <1>3, <1>4, <2>3, <2>4
<1>5. CASE ~Fresh
  <2>1. told[c][k] + 1 + Owed(c, k) <= Limit(c)
    BY <1>1, <1>5 DEF OnceInv, OnceOK, StaleOK
  <2>2. Limit(c) <= 1 + redo[c] /\ (~Over(c) => Limit(c) = redo[c])
    BY <1>3 DEF Limit
  <2>3. QED BY <1>1, <1>2, <1>3, <2>1, <2>2
<1>6. QED BY <1>4, <1>5

LEMMA BoundLaunch ==
    ASSUME TypedInv, TypedInv', OnceInv, Launch PROVE BoundOK'
<1>1. PICK d \in Conversations : act.conv = d /\ d \in known
  BY InHand DEF Launch
<1>2. /\ UNCHANGED <<known, row, body, ledger, act, redo>>
      /\ pc = "launch" /\ pc' \in {"record", "unanswered"}
  BY DEF Launch, dbVars
<1>3. told' = [told EXCEPT ![d] = [k \in Keys |-> IF k \in Prompt THEN told[d][k] + 1
                                                  ELSE told[d][k]]]
  BY <1>1 DEF Launch
<1>4. told \in [Conversations -> [Keys -> Nat]] BY DEF TypedInv, TypeOK
<1>5. /\ \A c \in Conversations \ {d} : told'[c] = told[c]
      /\ \A k \in Keys : told'[d][k] = IF k \in Prompt THEN told[d][k] + 1
                                       ELSE told[d][k]
  BY <1>3, <1>4
<1>6. \A c \in Conversations :
        /\ Unsent(c)' = Unsent(c) /\ KeysOf(c)' = KeysOf(c) /\ Over(c)' = Over(c)
        /\ \A k \in Keys : /\ NotSent(c, k)' = NotSent(c, k)
                           /\ Owed(c, k)' = Owed(c, k)
  BY <1>2 DEF Unsent, KeysOf, Over, NotSent, Owed, Orphan
<1>7. /\ \A c \in Conversations, k \in Keys : ~InFlight(c, k)
      /\ \A k \in Keys : InFlight(d, k)' <=> Fresh /\ k \in Prompt
  BY <1>1, <1>2 DEF InFlight, Fresh, Prompt
<1>8. ASSUME NEW c \in Conversations \ {d} PROVE Bound(c)'
  BY <1>2, <1>5, <1>6, <1>7, <1>8 DEF OnceInv, BoundOK, Bound
<1>9. ASSUME NEW k \in Keys
      PROVE  /\ told'[d][k] + Owed(d, k) <= 1 + redo[d]
             /\ ~Over(d) /\ NotSent(d, k) /\ ~(Fresh /\ k \in Prompt)
                  => told'[d][k] <= redo[d]
             /\ row[d].state = "queued" /\ Unsent(d) = {} /\ ~(Fresh /\ k \in Prompt)
                  => told'[d][k] + Owed(d, k) <= redo[d]
  <2>1. told[d][k] \in Nat /\ redo[d] \in Nat /\ Owed(d, k) \in {0, 1}
    BY Counted
  <2>2. CASE k \notin Prompt
    <3>1. /\ told[d][k] + Owed(d, k) <= 1 + redo[d]
          /\ ~Over(d) /\ NotSent(d, k) => told[d][k] <= redo[d]
          /\ row[d].state = "queued" /\ Unsent(d) = {}
               => told[d][k] + Owed(d, k) <= redo[d]
      BY <1>7 DEF OnceInv, BoundOK, Bound
    <3>2. told'[d][k] = told[d][k] BY <1>5, <2>2
    <3>3. QED BY <3>1, <3>2
  <2>3. CASE k \in Prompt
    <3>1. /\ told[d][k] + 1 + Owed(d, k) <= 1 + redo[d]
          /\ ~Over(d) /\ ~Fresh => told[d][k] + 1 + Owed(d, k) <= redo[d]
      BY <1>1, <1>2, <2>3, RoomToTell
    <3>2. told'[d][k] = told[d][k] + 1 BY <1>5, <2>3
    <3>3. row[d].state = "queued" => ~Over(d) BY DEF Over
    <3>4. QED BY <2>1, <2>3, <3>1, <3>2, <3>3
  <2>4. QED BY <2>2, <2>3
<1>10. Bound(d)' BY <1>2, <1>6, <1>7, <1>9 DEF Bound
<1>11. \A c \in Conversations \ known' : \A k \in Keys : told'[c][k] = 0
  BY <1>1, <1>2, <1>5 DEF OnceInv, BoundOK
<1>12. QED BY <1>8, <1>10, <1>11 DEF BoundOK

LEMMA BoundMark ==
    ASSUME TypedInv, TypedInv', OnceInv, Mark PROVE BoundOK'
<1>1. PICK d \in Conversations : act.conv = d BY InHand DEF Mark
<1>2. /\ UNCHANGED <<known, row, body, act, told, redo>>
      /\ pc = "mark" /\ pc' = "subscribe" /\ clock' = clock + 1
      /\ ledger' = [ledger EXCEPT ![d] = Stamped(ledger[d], clock')]
  BY <1>1 DEF Mark
<1>3. ledger \in [Conversations -> Seq(Message)] /\ clock' \in Nat \ {0}
  BY <1>2 DEF TypedInv, TypeOK
<1>4. ledger'[d] = Stamped(ledger[d], clock')
      /\ \A c \in Conversations \ {d} : ledger'[c] = ledger[c]
  BY <1>2, <1>3
<1>5. KeysOf(d)' = KeysOf(d) /\ Unsent(d)' = {}
  BY <1>3, <1>4, StampedKeys
<1>6. ASSUME NEW c \in Conversations \ {d} PROVE Bound(c)'
  <2>1. \A k \in Keys : ~InFlight(c, k) BY <1>1, <1>6 DEF InFlight
  <2>2. KeysOf(c)' = KeysOf(c) BY <1>4 DEF KeysOf
  <2>3. \A k \in Keys : Orphan(c, k)' => Orphan(c, k) BY <1>2, <2>2, OrphanKept
  <2>4. QED BY <1>2, <1>4, <2>1, <2>3, BoundAside DEF OnceInv, BoundOK
<1>7. /\ \A k \in Keys : Orphan(d, k)' => Orphan(d, k)
      /\ Over(d)' = Over(d)
  BY <1>2, <1>5, OrphanKept DEF Over
<1>8. ASSUME NEW k \in Keys
      PROVE  /\ told[d][k] + Owed(d, k)' <= 1 + redo[d]
             /\ ~Over(d) /\ NotSent(d, k)' => told[d][k] <= redo[d]
             /\ row[d].state = "queued" => told[d][k] + Owed(d, k)' <= redo[d]
  <2>1. told[d][k] \in Nat /\ redo[d] \in Nat /\ Owed(d, k) \in {0, 1}
    BY Counted
  <2>2. Owed(d, k)' \in {0, 1} /\ Owed(d, k)' <= Owed(d, k) BY <1>7 DEF Owed
  <2>3. /\ told[d][k] + Owed(d, k) <= 1 + redo[d]
        /\ ~Over(d) /\ NotSent(d, k) /\ ~InFlight(d, k) => told[d][k] <= redo[d]
    BY DEF OnceInv, BoundOK, Bound
  <2>4. act.batch \subseteq KeysOf(d) /\ act.batch # {}
    BY <1>1, <1>2 DEF OnceInv, OnceOK
  <2>5. NotSent(d, k)' => NotSent(d, k) /\ ~InFlight(d, k)
    BY <1>5, <2>4 DEF NotSent, InFlight, Prompt
  <2>6. row[d].state = "queued" => told[d][k] + Owed(d, k) <= redo[d]
    <3>1. SUFFICES ASSUME row[d].state = "queued"
                   PROVE  told[d][k] + Owed(d, k) <= redo[d]
      OBVIOUS
    <3>2. ~Fresh BY <1>1, <1>2, <3>1 DEF OnceInv, OnceOK, FreshOK
    <3>3. told[d][k] + Owed(d, k) <= Limit(d)
      BY <1>1, <1>2, <3>2 DEF OnceInv, OnceOK, StaleOK
    <3>4. QED BY <3>1, <3>3 DEF Limit, Over
  <2>7. QED BY <2>1, <2>2, <2>3, <2>5, <2>6
<1>9. Bound(d)' BY <1>2, <1>5, <1>7, <1>8 DEF Bound
<1>10. QED BY <1>2, <1>6, <1>9 DEF OnceInv, BoundOK

\* where a retry starts, and where reports never lead
LEMMA RetryStarts ==
    ASSUME NEW from, Legal(from, "Retry")
    PROVE  from \in {"failed", "cancelled", "skipped"}
<1>1. PICK to : <<from, "Retry", to>> \in Arrows BY DEF Legal
<1>2. QED BY <1>1 DEF Arrows, TerminalStates, NonTerminalStates

LEMMA ReportTargets ==
    ASSUME NEW from, NEW event \in Reports, Legal(from, event)
    PROVE  Transition(from, event) # "queued"
<1> DEFINE to == Transition(from, event)
<1>1. <<from, event, to>> \in Arrows BY LegalArrow
<1> HIDE DEF to
<1>2. to # "queued" BY <1>1 DEF Arrows, Reports, TerminalStates, NonTerminalStates
<1>3. QED BY <1>2 DEF to

\* a kill: everything is done over
LEMMA BoundCrash ==
    ASSUME TypedInv, BoundOK, Crash PROVE BoundOK'
<1>1. /\ UNCHANGED <<known, row, body, ledger, told>> /\ pc' = "idle"
      /\ redo' = [c \in Conversations |-> redo[c] + 1]
  BY DEF Crash, Return, dbVars
<1>2. SUFFICES ASSUME NEW c \in Conversations PROVE Bound(c)'
  BY <1>1 DEF BoundOK
<1>3. Unsent(c)' = Unsent(c) /\ KeysOf(c)' = KeysOf(c) BY <1>1 DEF Unsent, KeysOf
<1>4. SUFFICES ASSUME NEW k \in Keys
               PROVE  /\ told[c][k] + Owed(c, k)' <= 1 + redo[c] + 1
                      /\ told[c][k] <= redo[c] + 1
                      /\ row[c].state = "queued" /\ Unsent(c) = {}
                           => told[c][k] + Owed(c, k)' <= redo[c] + 1
  BY <1>1, <1>3, CountedRow DEF Bound
<1>5. /\ told[c][k] \in Nat /\ redo[c] \in Nat /\ Owed(c, k) \in {0, 1}
      /\ Owed(c, k)' \in {0, 1}
  BY Counted DEF Owed
<1>6. /\ told[c][k] + Owed(c, k) <= 1 + redo[c]
      /\ row[c].state = "queued" /\ Unsent(c) = {} /\ ~InFlight(c, k)
           => told[c][k] + Owed(c, k) <= redo[c]
  BY DEF BoundOK, Bound
<1>7. CASE pc = "append" BY <1>5, <1>6, <1>7 DEF InFlight
<1>8. CASE pc # "append"
  <2>1. Owed(c, k)' = Owed(c, k) BY <1>1, <1>3, <1>8 DEF Owed, Orphan
  <2>2. QED BY <1>5, <1>6, <2>1
<1>9. QED BY <1>7, <1>8

\* a person's cancel
LEMMA CancelledRow ==
    ASSUME TypedInv, NEW c \in Conversations, Cancel(c)
    PROVE  /\ ~Over(c) /\ Over(c)' /\ row'[c].version = row[c].version + 1
           /\ \A d \in Conversations \ {c} : row'[d] = row[d]
<1>1. row \in [Conversations -> RowRecords] BY DEF TypedInv, TypeOK
<1>2. row[c].state \in NonTerminalStates
  BY <1>1 DEF Cancel, RowRecords, TaskStates
<1>3. Legal(row[c].state, "Cancel") BY <1>2, AlwaysLegal
<1>4. row' = [row EXCEPT ![c] = Applied(@, "Cancel")] BY DEF Cancel
<1>5. /\ row'[c].state = "cancelled" /\ row'[c].version = row[c].version + 1
      /\ \A d \in Conversations \ {c} : row'[d] = row[d]
  BY <1>1, <1>3, <1>4, MoveRow, EndTargets
<1>6. QED BY <1>2, <1>5 DEF Over, NonTerminalStates

\* the world: reports, cancels, retries and the tick
LEMMA BoundWorld ==
    ASSUME TypedInv, TypedInv', OnceInv,
           \/ Cycle
           \/ \E c \in Conversations : Progress(c) \/ Cancel(c) \/ Retry(c)
    PROVE  BoundOK'
<1>0. row \in [Conversations -> RowRecords] BY DEF TypedInv, TypeOK
<1>1. CASE Cycle
  <2>1. UNCHANGED <<known, body, ledger, told, redo>> /\ pc = "idle"
    BY <1>1 DEF Cycle
  <2>2. \A c \in Conversations :
          row'[c] = row[c] \/ (row[c].state = "done" /\ Unsent(c) # {})
    BY <1>1 DEF Cycle, FinishedUnsent
  <2>3. \A c \in Conversations, k \in Keys : ~InFlight(c, k)
    BY <2>1 DEF InFlight
  <2>4. \A c \in Conversations : row[c].state = "done" => ~Over(c) BY DEF Over
  <2>5. QED BY <2>1, <2>2, <2>3, <2>4, BoundHeld DEF OnceInv
<1>2. ASSUME NEW c \in Conversations, Progress(c) PROVE BoundOK'
  <2>1. UNCHANGED <<known, body, ledger, told, redo>> /\ pc = "idle"
    BY <1>2 DEF Progress, histVars
  <2>2. PICK event \in Reports :
          /\ Legal(row[c].state, event)
          /\ row' = [row EXCEPT ![c] = Applied(@, event)]
    BY <1>2 DEF Progress
  <2>3. /\ row'[c].state # "queued"
        /\ \A d \in Conversations \ {c} : row'[d] = row[d]
    <3>1. /\ row'[c].state = Transition(row[c].state, event)
          /\ \A d \in Conversations \ {c} : row'[d] = row[d]
      BY <1>0, <2>2, MoveRow
    <3>2. QED BY <2>2, <3>1, ReportTargets
  <2>4. ~Over(c) BY <1>2 DEF Progress, CountsTowardSlot, Over
  <2>5. \A d \in Conversations, k \in Keys : ~InFlight(d, k)
    BY <2>1 DEF InFlight
  <2>6. QED BY <2>1, <2>3, <2>4, <2>5, BoundHeld DEF OnceInv
<1>3. ASSUME NEW c \in Conversations, Cancel(c) PROVE BoundOK'
  <2>1. UNCHANGED <<known, body, ledger, told, redo, pc, act>>
    BY <1>3 DEF Cancel, histVars
  <2>2. Over(c)' /\ \A d \in Conversations \ {c} : row'[d] = row[d]
    BY <1>3, CancelledRow
  <2>3. \A d \in Conversations \ {c} : \A k \in Keys :
          InFlight(d, k) => InFlight(d, k)'
    BY <2>1, <2>2 DEF InFlight, Fresh, Prompt
  <2>4. QED BY <2>1, <2>2, <2>3, BoundHeld DEF OnceInv
<1>4. ASSUME NEW c \in Conversations, Retry(c) PROVE BoundOK'
  <2>1. /\ UNCHANGED <<known, body, told, pc, act>> /\ RetryTx(c) /\ c \in known
        /\ Over(c) /\ Legal(row[c].state, "Retry")
    BY <1>4, AlwaysLegal DEF Retry, Over
  <2>2. QED BY <2>1, BoundRetried DEF OnceInv
<1>5. QED BY <1>1, <1>2, <1>3, <1>4

\* the handler's own steps
LEMMA BoundHandler ==
    ASSUME TypedInv, TypedInv', OnceInv,
           \/ \E c \in Conversations : Take(c)
           \/ HandlerStep
    PROVE  BoundOK'
<1>1. ASSUME NEW c \in Conversations, Take(c) PROVE BoundOK'
  <2>1. UNCHANGED <<known, row, body, ledger, told, redo>> /\ pc = "idle"
    BY <1>1 DEF Take, dbVars, histVars
  <2>2. \A d \in Conversations, k \in Keys : ~InFlight(d, k)
    BY <2>1 DEF InFlight
  <2>3. QED BY <2>1, <2>2, BoundHeld DEF OnceInv
<1>2. CASE AppendMessage BY <1>2, BoundIngest
<1>3. CASE Refuse
  <2>1. UNCHANGED <<known, body, ledger, told, redo>> /\ pc \notin {"idle", "append"}
    BY <1>3 DEF Refuse, histVars
  <2>2. CASE pc = "taken" /\ UNCHANGED row
    <3>1. \A d \in Conversations, k \in Keys : ~InFlight(d, k)
      BY <2>2 DEF InFlight
    <3>2. QED BY <2>1, <2>2, <3>1, BoundHeld DEF OnceInv
  <2>3. CASE Write("Skip") \/ Write("Fail") BY <2>1, <2>3, BoundEnded
  <2>4. QED BY <1>3, <2>2, <2>3 DEF Refuse
<1>4. CASE RefuseLate BY <1>4, BoundIsolate DEF RefuseLate
<1>5. CASE ReadUnsent
  <2>1. UNCHANGED <<known, row, body, ledger, told, redo>> /\ pc = "taken"
    BY <1>5 DEF ReadUnsent, dbVars, histVars
  <2>2. \A d \in Conversations, k \in Keys : ~InFlight(d, k)
    BY <2>1 DEF InFlight
  <2>3. QED BY <2>1, <2>2, BoundHeld DEF OnceInv
<1>6. CASE Reattach
  <2>1. CASE Isolate("Dispatch") BY <1>6, <2>1, BoundIsolate DEF Reattach
  <2>2. CASE ~Isolate("Dispatch")
    BY <1>6, <2>2, BoundDispatched DEF Reattach
  <2>3. QED BY <2>1, <2>2
<1>7. CASE Launch BY <1>7, BoundLaunch
<1>8. CASE Record
  <2>1. CASE Isolate("Dispatch") BY <1>8, <2>1, BoundIsolate DEF Record
  <2>2. CASE ~Isolate("Dispatch")
    BY <1>8, <2>2, BoundDispatched DEF Record
  <2>3. QED BY <2>1, <2>2
<1>9. CASE Mark BY <1>9, BoundMark
<1>10. CASE Subscribe
  <2>1. UNCHANGED <<known, body, ledger, told, redo>> /\ pc = "subscribe"
    BY <1>10 DEF Subscribe, histVars
  <2>2. CASE UNCHANGED row
    <3>1. \A d \in Conversations, k \in Keys : ~InFlight(d, k)
      BY <2>1 DEF InFlight
    <3>2. QED BY <2>1, <2>2, <3>1, BoundHeld DEF OnceInv
  <2>3. CASE Write("Fail") BY <2>1, <2>3, BoundEnded
  <2>4. QED BY <1>10, <2>2, <2>3 DEF Subscribe
<1>11. CASE SubscribeLate BY <1>11, BoundIsolate DEF SubscribeLate
<1>12. CASE AutoRetry
  <2>1. UNCHANGED <<known, body, told>> /\ pc = "retry" /\ pc' = "idle"
    BY <1>12 DEF AutoRetry, Return
  <2>2. CASE UNCHANGED <<row, ledger, redo>>
    <3>1. \A d \in Conversations, k \in Keys : ~InFlight(d, k)
      BY <2>1 DEF InFlight
    <3>2. QED BY <2>1, <2>2, <3>1, BoundHeld DEF OnceInv
  <2>3. CASE Outcome(row[act.conv], act.ver, "Retry") = "ok" /\ RetryTx(act.conv)
    <3>1. PICK c \in Conversations : act.conv = c /\ c \in known
      BY <2>1, InHand
    <3>2. Legal(row[c].state, "Retry") /\ RetryTx(c)
      BY <2>3, <3>1 DEF Outcome
    <3>3. Over(c) BY <3>2, RetryStarts DEF Over
    <3>4. QED BY <2>1, <3>1, <3>2, <3>3, BoundRetried DEF OnceInv
  <2>4. QED BY <1>12, <2>2, <2>3 DEF AutoRetry
<1>13. QED
  BY <1>1, <1>2, <1>3, <1>4, <1>5, <1>6, <1>7, <1>8, <1>9, <1>10, <1>11, <1>12
  DEF HandlerStep

LEMMA BoundStep ==
    ASSUME TypedInv, OnceInv, [Next]_vars PROVE BoundOK'
<1>1. TypedInv' BY TypedStep
<1>2. CASE Submission BY <1>2, BoundIngest
<1>3. CASE HandlerStep \/ \E c \in Conversations : Take(c)
  BY <1>1, <1>3, BoundHandler
<1>4. CASE Cycle \/ \E c \in Conversations : Progress(c) \/ Cancel(c) \/ Retry(c)
  BY <1>1, <1>4, BoundWorld
<1>5. CASE Crash BY <1>5, BoundCrash DEF OnceInv
<1>6. CASE UNCHANGED vars
  <2>1. UNCHANGED <<known, row, body, ledger, told, redo, pc, act>>
    BY <1>6 DEF vars
  <2>2. \A c \in Conversations, k \in Keys : InFlight(c, k)' = InFlight(c, k)
    BY <2>1 DEF InFlight, Fresh, Prompt
  <2>3. QED BY <1>1, <2>1, <2>2, BoundHeld DEF OnceInv
<1>7. QED BY <1>2, <1>3, <1>4, <1>5, <1>6 DEF Next

LEMMA OnceTake ==
    ASSUME TypedInv, NEW c \in Conversations, Take(c) PROVE OnceOK'
<1>1. /\ UNCHANGED <<row, ledger>> /\ pc' = "taken" /\ row[c].state = "queued"
      /\ act'.conv = c /\ act'.ver = row[c].version
  BY DEF Take, NoAct, dbVars
<1>2. row[c].version \in Nat BY CountedRow
<1>3. Fresh' BY <1>1 DEF Fresh
<1>4. QED BY <1>1, <1>2, <1>3 DEF OnceOK, FreshOK, StaleOK

\* the handler has the row it wrote, and nothing more to tell
LEMMA OnceWrote ==
    ASSUME TypedInv', pc' \in {"subscribe", "retry"},
           act'.ver <= row'[act'.conv].version
    PROVE  OnceOK'
BY DEF OnceOK, FreshOK, StaleOK

LEMMA OnceFailed ==
    ASSUME TypedInv, TypedInv', pc \notin {"idle", "append"}, Write("Fail"),
           act' = [act EXCEPT !.ver = row'[act.conv].version], pc' = "retry"
    PROVE  OnceOK'
<1>1. act \in Acts /\ act.conv \in Conversations BY InHand
<1>2. act'.conv = act.conv /\ act'.ver = row'[act.conv].version BY <1>1 DEF Acts
<1>3. row'[act.conv].version \in Nat BY <1>1, WriteRow DEF TypedInv
<1>4. QED BY <1>2, <1>3, OnceWrote

LEMMA OnceRead ==
    ASSUME TypedInv, TypedInv', OnceInv, ReadUnsent PROVE OnceOK'
<1>1. PICK c \in Conversations : act.conv = c BY InHand DEF ReadUnsent
<1>2. /\ UNCHANGED <<known, row, body, ledger, told, redo>>
      /\ pc = "taken" /\ pc' = "launch"
      /\ act'.conv = c /\ act'.ver = act.ver /\ act'.batch = Unsent(c)
  BY <1>1, InHand DEF ReadUnsent, dbVars, histVars, boundVars, Acts
<1>3. /\ Unsent(c)' = Unsent(c) /\ KeysOf(c)' = KeysOf(c) /\ Limit(c)' = Limit(c)
      /\ Fresh' = Fresh
      /\ \A k \in Keys : NotSent(c, k)' = NotSent(c, k) /\ Owed(c, k)' = Owed(c, k)
  BY <1>1, <1>2 DEF Unsent, KeysOf, Limit, Over, Fresh, NotSent, Owed, Orphan
<1>4. Unsent(c) \subseteq KeysOf(c) BY CountedRow
<1>5. act.ver <= row[c].version BY <1>1, <1>2 DEF OnceInv, OnceOK
<1>6. FreshOK' BY <1>1, <1>2, <1>3 DEF OnceInv, OnceOK, FreshOK
<1>7. ASSUME NEW k \in Keys, ~Fresh
      PROVE  /\ NotSent(c, k) => told[c][k] + 1 <= Limit(c)
             /\ Unsent(c) = {} => told[c][k] + 1 + Owed(c, k) <= Limit(c)
  BY <1>1, <1>2, <1>7 DEF OnceInv, OnceOK, StaleOK
<1>8. ASSUME NEW k \in Prompt', ~Fresh
      PROVE  told[c][k] + 1 + Owed(c, k) <= Limit(c) /\ k \in Keys
  <2>1. k \in Keys
    BY <1>1, <1>2, InHand, CountedRow DEF Prompt, TypedInv, TypeOK
  <2>2. k \in Unsent(c) \/ Unsent(c) = {} BY <1>2 DEF Prompt
  <2>3. CASE k \in Unsent(c)
    <3>1. NotSent(c, k) /\ Owed(c, k) = 0
      BY <1>4, <2>3 DEF NotSent, Owed, Orphan
    <3>2. told[c][k] \in Nat BY <2>1, Counted
    <3>3. QED BY <1>7, <1>8, <2>1, <3>1, <3>2
  <2>4. CASE Unsent(c) = {} BY <1>7, <1>8, <2>1, <2>4
  <2>5. QED BY <2>1, <2>2, <2>3, <2>4
<1>9. StaleOK'
  <2>1. SUFFICES ASSUME ~Fresh PROVE StaleOK' BY <1>3 DEF StaleOK
  <2>2. /\ \A k \in Keys :
             /\ NotSent(c, k)' => told'[c][k] + 1 <= Limit(c)'
             /\ Unsent(c)' = {} => told'[c][k] + 1 + Owed(c, k)' <= Limit(c)'
        /\ \A k \in Prompt' : told'[c][k] + 1 + Owed(c, k)' <= Limit(c)'
    BY <1>2, <1>3, <1>7, <1>8, <2>1
  <2>3. QED BY <1>2, <2>2 DEF StaleOK
<1>10. QED BY <1>2, <1>3, <1>4, <1>5, <1>6, <1>9 DEF OnceOK

LEMMA OnceLaunch ==
    ASSUME TypedInv, TypedInv', OnceInv, Launch PROVE OnceOK'
<1>1. PICK c \in Conversations : act.conv = c BY InHand DEF Launch
<1>2. /\ UNCHANGED <<known, row, body, ledger, act, redo>>
      /\ pc = "launch" /\ pc' \in {"record", "unanswered"}
  BY DEF Launch, dbVars
<1>3. \A k \in Keys : k \in Prompt => told'[c][k] = told[c][k] + 1
  BY <1>1 DEF Launch, TypedInv, TypeOK
<1>4. /\ Unsent(c)' = Unsent(c) /\ KeysOf(c)' = KeysOf(c) /\ Limit(c)' = Limit(c)
      /\ Fresh' = Fresh /\ Prompt' = Prompt
      /\ \A k \in Keys : Owed(c, k)' = Owed(c, k)
  BY <1>1, <1>2 DEF Unsent, KeysOf, Limit, Over, Fresh, Owed, Orphan, Prompt
<1>5. act.batch \subseteq KeysOf(c) /\ act.ver <= row[c].version
  BY <1>1, <1>2 DEF OnceInv, OnceOK
<1>6. FreshOK' BY <1>1, <1>2, <1>4 DEF OnceInv, OnceOK, FreshOK
<1>7. Prompt \subseteq Keys BY <1>1, <1>2, InHand DEF Prompt, Acts, TypedInv, TypeOK
<1>8. ~Fresh => \A k \in Prompt : told[c][k] + 1 + Owed(c, k) <= Limit(c)
  BY <1>1, <1>2 DEF OnceInv, OnceOK, StaleOK
<1>9. ~Fresh' => \A k \in Prompt' : told'[c][k] + Owed(c, k)' <= Limit(c)'
  BY <1>3, <1>4, <1>7, <1>8
<1>10. StaleOK' BY <1>1, <1>2, <1>9 DEF StaleOK
<1>11. QED BY <1>1, <1>2, <1>4, <1>5, <1>6, <1>10 DEF OnceOK

LEMMA OnceRecord ==
    ASSUME TypedInv, TypedInv', OnceInv, Record PROVE OnceOK'
<1>1. CASE Isolate("Dispatch") BY <1>1 DEF Isolate, Return, OnceOK
<1>2. CASE ~Isolate("Dispatch")
  <2>1. /\ UNCHANGED <<ledger, body>> /\ pc = "record" /\ Write("Dispatch")
        /\ act' = [act EXCEPT !.ver = row'[act.conv].version]
        /\ pc' = IF act.batch = {} THEN "subscribe" ELSE "mark"
    BY <1>2 DEF Record
  <2>2. PICK c \in Conversations : act.conv = c BY <2>1, InHand
  <2>3. act'.conv = c /\ act'.batch = act.batch /\ act'.ver = row'[c].version
    BY <2>1, <2>2, InHand DEF Acts
  <2>4. Fresh /\ row[c].state = "queued" /\ act.batch = Unsent(c)
    <3>1. Fresh BY <2>1 DEF Write, Outcome, Fresh
    <3>2. QED BY <2>1, <2>2, <3>1 DEF OnceInv, OnceOK, FreshOK
  <2>5. row'[c].state = "dispatched" /\ row'[c].version \in Nat
    BY <2>1, <2>2, <2>4, WriteRow, DispatchTarget DEF TypedInv
  <2>6. Unsent(c)' = Unsent(c) /\ KeysOf(c)' = KeysOf(c)
    BY <2>1 DEF Unsent, KeysOf
  <2>7. act.batch \subseteq KeysOf(c) BY <2>1, <2>2 DEF OnceInv, OnceOK
  <2>8. Fresh' BY <2>3 DEF Fresh
  <2>9. FreshOK' BY <2>1, <2>3, <2>4, <2>5, <2>6 DEF FreshOK
  <2>10. StaleOK' BY <2>8 DEF StaleOK
  <2>11. QED
    BY <2>1, <2>3, <2>5, <2>6, <2>7, <2>9, <2>10 DEF OnceOK
<1>3. QED BY <1>1, <1>2

LEMMA OnceStep ==
    ASSUME TypedInv, OnceInv, [Next]_vars PROVE OnceOK'
<1>0. TypedInv' BY TypedStep
<1>1. CASE pc' \in {"idle", "append"} BY <1>1 DEF OnceOK
<1>2. CASE Submission BY <1>1, <1>2 DEF Submission, Upsert, HandOff
<1>3. ASSUME NEW c \in Conversations, Take(c) \/ Progress(c) \/ Cancel(c) \/ Retry(c)
      PROVE  OnceOK'
  <2>1. CASE Take(c) BY <2>1, OnceTake
  <2>2. CASE Progress(c) BY <1>1, <2>2 DEF Progress
  <2>3. CASE Cancel(c)
    <3>1. UNCHANGED <<pc, act, told, redo, known, body, ledger>>
      BY <2>3 DEF Cancel, histVars
    <3>2. QED BY <2>3, <3>1, CancelledRow, OnceCancelled
  <2>4. CASE Retry(c)
    BY <2>4, AlwaysLegal, OnceRetried DEF Retry, Over
  <2>5. QED BY <1>3, <2>1, <2>2, <2>3, <2>4
<1>4. CASE Refuse \/ Subscribe
  <2>1. pc \notin {"idle", "append"} BY <1>4 DEF Refuse, Subscribe
  <2>2. CASE Return BY <1>1, <2>2 DEF Return
  <2>3. CASE ~Return
    BY <1>0, <1>4, <2>1, <2>3, OnceFailed DEF Refuse, Subscribe
  <2>4. QED BY <2>2, <2>3
<1>5. CASE ReadUnsent BY <1>0, <1>5, OnceRead
<1>6. CASE Launch BY <1>0, <1>6, OnceLaunch
<1>7. CASE Record BY <1>0, <1>7, OnceRecord
<1>8. CASE Mark
  <2>1. /\ pc = "mark" /\ pc' = "subscribe" /\ UNCHANGED <<row, act>>
    BY <1>8 DEF Mark
  <2>2. act.ver <= row[act.conv].version BY <2>1 DEF OnceInv, OnceOK
  <2>3. QED BY <1>0, <2>1, <2>2, OnceWrote
<1>9. CASE AppendMessage \/ RefuseLate \/ Reattach \/ SubscribeLate \/ AutoRetry
           \/ Crash
  BY <1>1, <1>9 DEF AppendMessage, RefuseLate, Reattach, SubscribeLate, AutoRetry,
                    Crash, Isolate, Return
<1>10. CASE Cycle BY <1>1, <1>10 DEF Cycle
<1>11. CASE UNCHANGED vars
  <2>1. UNCHANGED <<known, row, body, ledger, told, redo, pc, act>>
    BY <1>11 DEF vars
  <2>2. /\ Fresh' = Fresh /\ Prompt' = Prompt
        /\ Unsent(act.conv)' = Unsent(act.conv) /\ KeysOf(act.conv)' = KeysOf(act.conv)
        /\ Limit(act.conv)' = Limit(act.conv)
    BY <2>1 DEF Fresh, Limit, Over, Prompt, KeysOf, Unsent
  <2>3. \A k : /\ NotSent(act.conv, k)' = NotSent(act.conv, k)
               /\ Owed(act.conv, k)' = Owed(act.conv, k)
    BY <2>1, <2>2 DEF NotSent, Owed, Orphan
  <2>4. CASE pc \in {"idle", "append"} BY <2>1, <2>4 DEF OnceOK
  <2>5. CASE pc \notin {"idle", "append"}
    <3>1. StaleOK BY <2>5 DEF OnceInv, OnceOK
    <3>2. StaleOK' BY <2>1, <2>2, <2>3, <3>1 DEF StaleOK
    <3>3. FreshOK' BY <2>1, <2>2, <2>5 DEF OnceInv, OnceOK, FreshOK
    <3>4. QED BY <2>1, <2>2, <2>5, <3>2, <3>3 DEF OnceInv, OnceOK
  <2>6. QED BY <2>4, <2>5
<1>12. QED
  BY <1>2, <1>3, <1>4, <1>5, <1>6, <1>7, <1>8, <1>9, <1>10, <1>11
  DEF Next, HandlerStep

(***************************************************************************)
(* Beyond the first time, a message is told only for a run done over: what *)
(* the next dispatch may tell was told once less than runs were done over, *)
(* and a run another writer took from the handler is paid for by the retry *)
(* that will follow, or followed.                                          *)
(***************************************************************************)
THEOREM MessageNotToldAgain == Spec => []NotToldAgain
<1> DEFINE Inv == TypedInv /\ OnceInv
<1>1. Init => Inv
  <2>1. SUFFICES ASSUME Init PROVE OnceInv BY TypedInit
  <2>2. /\ \A c \in Conversations, k \in Keys :
             told[c][k] = 0 /\ redo[c] = 0 /\ Owed(c, k) = 0
      /\ \A c \in Conversations : c \notin known
    BY <2>1 DEF Init, Owed, Orphan
  <2>3. BoundOK BY <2>2 DEF BoundOK, Bound
  <2>4. OnceOK BY <2>1 DEF Init, OnceOK
  <2>5. QED BY <2>3, <2>4 DEF OnceInv
<1>2. Inv /\ [Next]_vars => Inv' BY TypedStep, BoundStep, OnceStep DEF OnceInv
<1>3. Inv => NotToldAgain
  <2>1. SUFFICES ASSUME Inv, NEW c \in Conversations, NEW k \in Keys
                 PROVE  told[c][k] <= 1 + redo[c]
    BY DEF NotToldAgain
  <2>2. told[c][k] + Owed(c, k) <= 1 + redo[c] BY <2>1 DEF OnceInv, BoundOK, Bound
  <2>3. QED BY <2>1, <2>2, Counted
<1>4. QED BY <1>1, <1>2, <1>3, PTL DEF Spec

-----------------------------------------------------------------------------
(***************************************************************************)
(* The message ledger implements the log with a cursor (MessageDelivery).  *)
(***************************************************************************)

(***************************************************************************)
(* What is sent is a prefix of the ledger, and stamps do not decrease      *)
(* along it: so the rows that bear the last stamp are the end of it.       *)
(***************************************************************************)
Ordered(q) ==
    \A i, j \in DOMAIN q :
        i <= j /\ q[j].stamp # 0 => q[i].stamp # 0 /\ q[i].stamp <= q[j].stamp

Distinct(q) == \A i, j \in DOMAIN q : q[i].key = q[j].key => i = j

Stamps(q, now) == \A i \in DOMAIN q : q[i].stamp <= now

OrderOK == \A c \in Conversations :
    Ordered(ledger[c]) /\ Distinct(ledger[c]) /\ Stamps(ledger[c], clock)

-----------------------------------------------------------------------------
(***************************************************************************)
(* The four things a step can do to the ledger.                            *)
(***************************************************************************)
Takes(c, k) == k \notin KeysOf(c) /\ Appended(c, k) /\ UNCHANGED clock

Gives(c) == /\ clock' = clock + 1
            /\ ledger' = [ledger EXCEPT ![c] = Stamped(@, clock + 1)]

TakesBack(c) == /\ Unsent(c) = {} /\ UNCHANGED clock
                /\ ledger' = [ledger EXCEPT ![c] = LastBatchUnsent(@)]

LedgerMove ==
    \/ UNCHANGED <<ledger, clock>>
    \/ \E c \in Conversations : Gives(c) \/ TakesBack(c)
    \/ \E c \in Conversations, k \in Keys : Takes(c, k)

LEMMA AppendMove ==
    ASSUME NEW c \in Conversations, NEW k \in Keys, AppendReopening(c, k),
           UNCHANGED clock
    PROVE  LedgerMove
BY DEF AppendReopening, LedgerMove, Takes

LEMMA RetryMove ==
    ASSUME NEW c \in Conversations, RetryTx(c), UNCHANGED clock
    PROVE  LedgerMove
BY DEF RetryTx, LedgerMove, TakesBack

LEMMA StepMove == TypedInv /\ [Next]_vars => LedgerMove
<1> SUFFICES ASSUME TypedInv, [Next]_vars PROVE LedgerMove
  OBVIOUS
<1>1. CASE Submission
  <2>1. PICK c \in Conversations, k \in Keys, w \in Workflows :
            Upsert(c, k, w) \/ HandOff(c, k, w)
    BY <1>1 DEF Submission
  <2>2. CASE Upsert(c, k, w) BY <2>2 DEF Upsert, LedgerMove
  <2>3. CASE HandOff(c, k, w) BY <2>3, AppendMove DEF HandOff
  <2>4. QED BY <2>1, <2>2, <2>3
<1>2. CASE AppendMessage
  <2>1. act.conv \in Conversations /\ act.key \in Keys
    BY <1>2 DEF AppendMessage, TypedInv, HandlerOK, TypeOK
  <2>2. QED BY <1>2, <2>1, AppendMove DEF AppendMessage
<1>3. CASE Mark
  <2>1. act.conv \in Conversations
    BY <1>3, InHand DEF Mark
  <2>2. Gives(act.conv) BY <1>3 DEF Mark, Gives
  <2>3. QED BY <2>1, <2>2 DEF LedgerMove
<1>4. CASE AutoRetry
  <2>1. act.conv \in Conversations BY <1>4, InHand DEF AutoRetry
  <2>2. CASE RetryTx(act.conv) BY <1>4, <2>1, <2>2, RetryMove DEF AutoRetry
  <2>3. CASE UNCHANGED <<row, ledger, handed, redo>>
    BY <1>4, <2>3 DEF AutoRetry, LedgerMove
  <2>4. QED BY <1>4, <2>2, <2>3 DEF AutoRetry
<1>5. CASE \/ Refuse \/ RefuseLate \/ ReadUnsent \/ Reattach
           \/ Launch \/ Record \/ Subscribe \/ SubscribeLate
  BY <1>5 DEF Refuse, RefuseLate, ReadUnsent, Reattach, Launch, Record,
       Subscribe, SubscribeLate, Isolate, LedgerMove, dbVars
<1>6. CASE Cycle \/ Crash \/ UNCHANGED vars
  BY <1>6 DEF Cycle, Crash, vars, dbVars, LedgerMove
<1>7. ASSUME NEW c \in Conversations,
             Take(c) \/ Progress(c) \/ Cancel(c) \/ Retry(c)
      PROVE  LedgerMove
  <2>1. CASE Take(c) \/ Progress(c) \/ Cancel(c)
    BY <2>1 DEF Take, Progress, Cancel, LedgerMove, dbVars
  <2>2. CASE Retry(c) BY <2>2, RetryMove DEF Retry
  <2>3. QED BY <1>7, <2>1, <2>2
<1>8. QED BY <1>1, <1>2, <1>3, <1>4, <1>5, <1>6, <1>7 DEF Next, HandlerStep

-----------------------------------------------------------------------------
(***************************************************************************)
(* A conversation's messages stay ordered.                                 *)
(***************************************************************************)
AllSent(q) == \A i \in DOMAIN q : q[i].stamp # 0

LEMMA AllSentUnsent ==
    ASSUME NEW c, Unsent(c) = {}
    PROVE  AllSent(ledger[c])
BY DEF AllSent, Unsent

\* the newest sent row is the last one, and its batch goes back
LEMMA TakenBack ==
    ASSUME NEW q \in Seq(Message), AllSent(q), Len(q) > 0
    PROVE  \A i \in DOMAIN q : LastBatchUnsent(q)[i].stamp =
              IF q[i].stamp = q[Len(q)].stamp THEN 0 ELSE q[i].stamp
<1> DEFINE sent == {i \in DOMAIN q : q[i].stamp # 0}
           last == CHOOSE i \in sent : \A j \in sent : j <= i
<1>1. /\ Len(q) \in Nat /\ DOMAIN q = 1..Len(q)
      /\ \A i \in DOMAIN q : q[i] \in Message
  BY MessageSeq
<1>2. sent = 1..Len(q) BY <1>1 DEF AllSent
<1>3. last = Len(q)
  <2>1. Len(q) \in sent /\ \A j \in sent : j <= Len(q) BY <1>1, <1>2
  <2>2. last \in sent /\ \A j \in sent : j <= last BY <2>1
  <2>3. QED BY <1>1, <1>2, <2>1, <2>2
<1>4. sent # {} BY <1>1, <1>2
<1> DEFINE p == LastBatchUnsent(q)
<1>5. \A i \in DOMAIN q : p[i] = IF sent # {} /\ q[i].stamp = q[last].stamp
                                 THEN [q[i] EXCEPT !.stamp = 0] ELSE q[i]
  BY DEF LastBatchUnsent
<1> HIDE DEF sent, last, p
<1>6. \A i \in DOMAIN q : p[i].stamp =
         IF q[i].stamp = q[last].stamp THEN 0 ELSE q[i].stamp
  BY <1>1, <1>4, <1>5 DEF Message
<1>7. QED BY <1>3, <1>6 DEF p

LEMMA OrderAppended ==
    ASSUME NEW q \in Seq(Message), NEW k \in Keys, NEW now \in Nat,
           Ordered(q), Distinct(q), Stamps(q, now),
           \A i \in DOMAIN q : q[i].key # k
    PROVE  LET p == Append(q, [key |-> k, stamp |-> 0])
           IN  Ordered(p) /\ Distinct(p) /\ Stamps(p, now)
<1> DEFINE p == Append(q, [key |-> k, stamp |-> 0])
<1>1. /\ p \in Seq(Message) /\ Len(p) = Len(q) + 1
      /\ \A i \in 1..Len(q) : p[i] = q[i]
      /\ p[Len(p)] = [key |-> k, stamp |-> 0]
  BY AppendEffect
<1> HIDE DEF p
<1>2. /\ Len(q) \in Nat /\ DOMAIN q = 1..Len(q) /\ DOMAIN p = 1..(Len(q) + 1)
      /\ \A i \in DOMAIN p : p[i].stamp \in Nat
      /\ p[Len(q) + 1].stamp = 0 /\ p[Len(q) + 1].key = k
  BY <1>1, MessageSeq
<1>3. \A i \in DOMAIN p : i \in DOMAIN q \/ i = Len(q) + 1 BY <1>2
<1>4. Ordered(p) BY <1>1, <1>2, <1>3 DEF Ordered
<1>5. Distinct(p) BY <1>1, <1>2, <1>3 DEF Distinct
<1>6. Stamps(p, now) BY <1>1, <1>2, <1>3 DEF Stamps
<1>7. QED BY <1>4, <1>5, <1>6 DEF p

LEMMA OrderStamped ==
    ASSUME NEW q \in Seq(Message), NEW now \in Nat,
           Ordered(q), Distinct(q), Stamps(q, now)
    PROVE  LET p == Stamped(q, now + 1)
           IN  Ordered(p) /\ Distinct(p) /\ Stamps(p, now + 1)
<1> DEFINE p == Stamped(q, now + 1)
<1>1. /\ Restamped(q, p)
      /\ \A i \in DOMAIN q : p[i].stamp =
            IF q[i].stamp = 0 THEN now + 1 ELSE q[i].stamp
  BY StampedEffect
<1> HIDE DEF p
<1>2. /\ DOMAIN q = 1..Len(q) /\ DOMAIN p = DOMAIN q
      /\ \A i \in DOMAIN q : q[i].stamp \in Nat /\ q[i].stamp <= now
      /\ \A i \in DOMAIN q : p[i].key = q[i].key
  BY <1>1, MessageSeq DEF Restamped, Stamps
<1>3. Ordered(p) BY <1>1, <1>2 DEF Ordered
<1>4. Distinct(p) BY <1>2 DEF Distinct
<1>5. Stamps(p, now + 1) BY <1>1, <1>2 DEF Stamps
<1>6. QED BY <1>3, <1>4, <1>5 DEF p

LEMMA OrderTakenBack ==
    ASSUME NEW q \in Seq(Message), NEW now \in Nat, AllSent(q),
           Ordered(q), Distinct(q), Stamps(q, now)
    PROVE  LET p == LastBatchUnsent(q)
           IN  Ordered(p) /\ Distinct(p) /\ Stamps(p, now)
<1> DEFINE p == LastBatchUnsent(q)
<1>1. /\ Restamped(q, p)
      /\ \A i \in DOMAIN q : p[i].stamp \in {0, q[i].stamp}
  BY LastBatchEffect
<1>2. Len(q) > 0 => \A i \in DOMAIN q : p[i].stamp =
              IF q[i].stamp = q[Len(q)].stamp THEN 0 ELSE q[i].stamp
  BY TakenBack
<1> HIDE DEF p
<1>3. /\ Len(q) \in Nat /\ DOMAIN q = 1..Len(q) /\ DOMAIN p = DOMAIN q
      /\ \A i \in DOMAIN q : q[i].stamp \in Nat /\ q[i].stamp <= now
      /\ \A i \in DOMAIN q : p[i].key = q[i].key
  BY <1>1, MessageSeq DEF Restamped, Stamps
<1>4. Ordered(p)
  <2> SUFFICES ASSUME NEW i \in DOMAIN q, NEW j \in DOMAIN q,
                      i <= j, p[j].stamp # 0
               PROVE  p[i].stamp # 0 /\ p[i].stamp <= p[j].stamp
    BY <1>3 DEF Ordered
  <2>1. Len(q) > 0 /\ Len(q) \in DOMAIN q /\ j <= Len(q) BY <1>3
  <2>2. /\ p[j].stamp = q[j].stamp /\ q[j].stamp # q[Len(q)].stamp
        /\ q[j].stamp # 0
    BY <1>2, <2>1
  <2>3. /\ q[j].stamp <= q[Len(q)].stamp
        /\ q[i].stamp <= q[j].stamp /\ q[i].stamp # 0
    BY <2>1, <2>2 DEF Ordered, AllSent
  <2>4. q[i].stamp # q[Len(q)].stamp BY <1>3, <2>1, <2>2, <2>3
  <2>5. QED BY <1>2, <2>1, <2>2, <2>3, <2>4
<1>5. Distinct(p) BY <1>3 DEF Distinct
<1>6. Stamps(p, now) BY <1>1, <1>3 DEF Stamps
<1>7. QED BY <1>4, <1>5, <1>6 DEF p

LEMMA OrderStep ==
    ASSUME TypedInv, OrderOK, LedgerMove
    PROVE  OrderOK'
<1>1. /\ ledger \in [Conversations -> Seq(Message)] /\ clock \in Nat
      /\ \A c \in Conversations :
            Ordered(ledger[c]) /\ Distinct(ledger[c]) /\ Stamps(ledger[c], clock)
  BY DEF TypedInv, TypeOK, OrderOK
<1>2. CASE UNCHANGED <<ledger, clock>>
  BY <1>1, <1>2 DEF OrderOK
<1>3. ASSUME NEW c \in Conversations, Gives(c)
      PROVE  OrderOK'
  <2>1. /\ ledger'[c] = Stamped(ledger[c], clock + 1) /\ clock' = clock + 1
        /\ \A d \in Conversations \ {c} : ledger'[d] = ledger[d]
    BY <1>1, <1>3 DEF Gives
  <2>2. Ordered(ledger'[c]) /\ Distinct(ledger'[c]) /\ Stamps(ledger'[c], clock')
    BY <1>1, <2>1, OrderStamped
  <2>3. \A d \in Conversations \ {c} :
           Ordered(ledger'[d]) /\ Distinct(ledger'[d]) /\ Stamps(ledger'[d], clock')
    <3>1. SUFFICES ASSUME NEW d \in Conversations \ {c}
                   PROVE  Stamps(ledger[d], clock + 1)
      BY <1>1, <2>1
    <3>2. \A i \in DOMAIN ledger[d] : ledger[d][i].stamp \in Nat BY <1>1, MessageSeq
    <3>3. QED BY <1>1, <3>2 DEF Stamps
  <2>4. QED BY <2>2, <2>3 DEF OrderOK
<1>4. ASSUME NEW c \in Conversations, TakesBack(c)
      PROVE  OrderOK'
  <2>1. /\ ledger'[c] = LastBatchUnsent(ledger[c]) /\ clock' = clock
        /\ \A d \in Conversations \ {c} : ledger'[d] = ledger[d]
        /\ AllSent(ledger[c])
    BY <1>1, <1>4, AllSentUnsent DEF TakesBack
  <2>2. Ordered(ledger'[c]) /\ Distinct(ledger'[c]) /\ Stamps(ledger'[c], clock')
    BY <1>1, <2>1, OrderTakenBack
  <2>3. QED BY <1>1, <2>1, <2>2 DEF OrderOK
<1>5. ASSUME NEW c \in Conversations, NEW k \in Keys, Takes(c, k)
      PROVE  OrderOK'
  <2>1. /\ ledger'[c] = Append(ledger[c], [key |-> k, stamp |-> 0]) /\ clock' = clock
        /\ \A d \in Conversations \ {c} : ledger'[d] = ledger[d]
        /\ \A i \in DOMAIN ledger[c] : ledger[c][i].key # k
    BY <1>1, <1>5 DEF Takes, Appended, KeysOf
  <2>2. Ordered(ledger'[c]) /\ Distinct(ledger'[c]) /\ Stamps(ledger'[c], clock')
    BY <1>1, <2>1, OrderAppended
  <2>3. QED BY <1>1, <2>1, <2>2 DEF OrderOK
<1>6. QED BY <1>2, <1>3, <1>4, <1>5 DEF LedgerMove

-----------------------------------------------------------------------------
(***************************************************************************)
(* A conversation seen as a log with a cursor.                             *)
(***************************************************************************)
Log(q) == [i \in DOMAIN q |-> q[i].key]

Sent(q) == {i \in DOMAIN q : q[i].stamp # 0}

Earlier(q) == {i \in DOMAIN q : q[i].stamp < q[Len(q)].stamp}

Given(q) == Cardinality(Sent(q))

Undo(q) == IF AllSent(q) THEN Cardinality(Earlier(q)) ELSE Given(q)

LEMMA GivenBounds ==
    ASSUME NEW q \in Seq(Message)
    PROVE  /\ Given(q) \in Nat
           /\ AllSent(q) => Given(q) = Len(q)
           /\ ~AllSent(q) => Given(q) < Len(q)
<1>1. Len(q) \in Nat /\ DOMAIN q = 1..Len(q) BY MessageSeq
<1>2. IsFiniteSet(1..Len(q)) /\ Cardinality(1..Len(q)) = Len(q)
  BY <1>1, FS_Interval
<1>3. Sent(q) \in SUBSET (1..Len(q)) BY <1>1 DEF Sent
<1>4. /\ IsFiniteSet(Sent(q)) /\ Given(q) <= Len(q)
      /\ Given(q) = Len(q) => Sent(q) = 1..Len(q)
  BY <1>2, <1>3, FS_Subset DEF Given
<1>5. Given(q) \in Nat BY <1>4, FS_CardinalityType DEF Given
<1>6. AllSent(q) <=> Sent(q) = 1..Len(q) BY <1>1 DEF AllSent, Sent
<1>7. QED BY <1>1, <1>2, <1>4, <1>5, <1>6 DEF Given

LEMMA LogAppended ==
    ASSUME NEW q \in Seq(Message), NEW k \in Keys
    PROVE  LET p == Append(q, [key |-> k, stamp |-> 0])
           IN  Log(p) = Append(Log(q), k) /\ Given(p) = Given(q) /\ Undo(p) = Given(q)
<1> DEFINE p == Append(q, [key |-> k, stamp |-> 0])
<1>1. /\ p \in Seq(Message) /\ Len(p) = Len(q) + 1
      /\ \A i \in 1..Len(q) : p[i] = q[i]
      /\ p[Len(p)] = [key |-> k, stamp |-> 0]
  BY AppendEffect
<1> HIDE DEF p
<1>2. /\ Len(q) \in Nat /\ DOMAIN q = 1..Len(q) /\ DOMAIN p = 1..(Len(q) + 1)
      /\ p[Len(q) + 1].stamp = 0 /\ p[Len(q) + 1].key = k
  BY <1>1, MessageSeq
<1>3. \A i \in DOMAIN p : i \in DOMAIN q \/ i = Len(q) + 1 BY <1>2
<1>4. Log(p) = Append(Log(q), k)
  <2>1. /\ Log(q) \in Seq(Keys) /\ Len(Log(q)) = Len(q)
        /\ Log(p) \in Seq(Keys) /\ Len(Log(p)) = Len(q) + 1
    BY <1>1, <1>2, MessageSeq DEF Log
  <2>2. /\ Append(Log(q), k) \in Seq(Keys)
        /\ Len(Append(Log(q), k)) = Len(q) + 1
        /\ \A i \in 1..Len(q) : Append(Log(q), k)[i] = Log(q)[i]
        /\ Append(Log(q), k)[Len(q) + 1] = k
    BY <2>1, AppendProperties
  <2>3. \A i \in 1..(Len(q) + 1) : Log(p)[i] = Append(Log(q), k)[i]
    BY <1>1, <1>2, <1>3, <2>2 DEF Log
  <2>4. QED BY <2>1, <2>2, <2>3, SeqEqual
<1>5. Sent(p) = Sent(q) BY <1>1, <1>2, <1>3 DEF Sent
<1>6. ~AllSent(p) BY <1>2 DEF AllSent
<1>7. QED BY <1>4, <1>5, <1>6 DEF Given, Undo, p

LEMMA LogRestamped ==
    ASSUME NEW q \in Seq(Message), NEW p, Restamped(q, p)
    PROVE  Log(p) = Log(q)
<1>1. DOMAIN p = DOMAIN q BY MessageSeq DEF Restamped
<1>2. QED BY <1>1 DEF Log, Restamped

LEMMA LogStamped ==
    ASSUME NEW q \in Seq(Message), NEW now \in Nat, Ordered(q), Stamps(q, now)
    PROVE  LET p == Stamped(q, now + 1)
           IN  /\ Log(p) = Log(q)
               /\ AllSent(q) => p = q
               /\ ~AllSent(q) => Given(p) = Len(q) /\ Undo(p) = Given(q)
<1> DEFINE p == Stamped(q, now + 1)
<1>1. /\ Restamped(q, p)
      /\ \A i \in DOMAIN q : p[i].stamp =
            IF q[i].stamp = 0 THEN now + 1 ELSE q[i].stamp
  BY StampedEffect
<1>2. AllSent(q) => p = q
  <2>1. q \in [1..Len(q) -> Message] /\ DOMAIN q = 1..Len(q)
    BY MessageSeq, LenProperties
  <2>2. QED BY <2>1 DEF AllSent, Stamped
<1> HIDE DEF p
<1>3. /\ Len(q) \in Nat /\ DOMAIN q = 1..Len(q) /\ DOMAIN p = DOMAIN q
      /\ p \in Seq(Message) /\ Len(p) = Len(q)
      /\ \A i \in DOMAIN q : q[i].stamp \in Nat /\ q[i].stamp <= now
  BY <1>1, MessageSeq DEF Restamped, Stamps
<1>4. Log(p) = Log(q) BY <1>1, LogRestamped
<1>5. AllSent(p) BY <1>1, <1>3 DEF AllSent
<1>6. Given(p) = Len(q) BY <1>3, <1>5, GivenBounds
<1>7. ASSUME ~AllSent(q) PROVE Earlier(p) = Sent(q)
  <2>1. PICK i \in DOMAIN q : q[i].stamp = 0 BY <1>7 DEF AllSent
  <2>2. Len(q) \in DOMAIN q /\ i <= Len(q) BY <1>3, <2>1
  <2>3. q[Len(q)].stamp = 0 BY <2>1, <2>2 DEF Ordered
  <2>4. p[Len(p)].stamp = now + 1 BY <1>1, <1>3, <2>2, <2>3
  <2>5. \A j \in DOMAIN q : p[j].stamp < now + 1 <=> q[j].stamp # 0
    BY <1>1, <1>3
  <2>6. QED BY <1>3, <2>4, <2>5 DEF Earlier, Sent
<1>8. QED BY <1>2, <1>4, <1>5, <1>6, <1>7 DEF Undo, Given, p

LEMMA LogTakenBack ==
    ASSUME NEW q \in Seq(Message), AllSent(q), Ordered(q)
    PROVE  LET p == LastBatchUnsent(q)
           IN  Log(p) = Log(q) /\ Given(p) = Undo(q) /\ Undo(p) = Undo(q)
<1> DEFINE p == LastBatchUnsent(q)
<1>1. Restamped(q, p) BY LastBatchEffect
<1>2. Len(q) > 0 => \A i \in DOMAIN q : p[i].stamp =
              IF q[i].stamp = q[Len(q)].stamp THEN 0 ELSE q[i].stamp
  BY TakenBack
<1> HIDE DEF p
<1>3. /\ Len(q) \in Nat /\ DOMAIN q = 1..Len(q) /\ DOMAIN p = DOMAIN q
      /\ p \in Seq(Message) /\ Len(p) = Len(q)
      /\ \A i \in DOMAIN q : q[i].stamp \in Nat
  BY <1>1, MessageSeq DEF Restamped
<1>4. Log(p) = Log(q) BY <1>1, LogRestamped
<1>5. CASE Len(q) = 0
  <2>1. /\ Sent(p) = {} /\ Earlier(q) = {} /\ Earlier(p) = {} /\ AllSent(p)
    BY <1>3, <1>5 DEF Sent, Earlier, AllSent
  <2>2. QED BY <1>4, <2>1 DEF Given, Undo, p
<1>6. CASE Len(q) > 0
  <2>1. Len(q) \in DOMAIN q BY <1>3, <1>6
  <2>2. ~AllSent(p) BY <1>2, <1>3, <1>6, <2>1 DEF AllSent
  <2>3. \A i \in DOMAIN q : q[i].stamp <= q[Len(q)].stamp /\ q[i].stamp # 0
    BY <1>3, <2>1 DEF Ordered, AllSent
  <2>4. Sent(p) = Earlier(q) BY <1>2, <1>3, <1>6, <2>1, <2>3 DEF Sent, Earlier
  <2>5. QED BY <1>4, <2>2, <2>4 DEF Given, Undo, p
<1>7. QED BY <1>3, <1>5, <1>6

-----------------------------------------------------------------------------
(***************************************************************************)
(* The steps of the ledger are steps of the log.                           *)
(***************************************************************************)
Logs   == [c \in Conversations |-> Log(ledger[c])]
Givens == [c \in Conversations |-> Given(ledger[c])]
Undos  == [c \in Conversations |-> Undo(ledger[c])]

\* the state functions of the refinement mapping, before and after a step
LEMMA Mapping ==
    /\ Delivery!vars = <<Logs, Givens, Undos>>
    /\ Delivery!vars' = <<Logs', Givens', Undos'>>
<1>1. \A c \in Conversations : AllSent(ledger[c]) <=> Unsent(c) = {}
  BY DEF AllSent, Unsent
<1>2. \A c \in Conversations : AllSent(ledger'[c]) <=> Unsent(c)' = {}
  BY DEF AllSent, Unsent
<1>3. Delivery!vars = <<Logs, Givens, Undos>>
  BY <1>1 DEF Delivery!vars, Logs, Log, Givens, Given, Undos, Undo, Sent,
              Earlier, SentRows, Count
<1>4. Delivery!vars' = <<Logs', Givens', Undos'>>
  BY <1>2 DEF Delivery!vars, Logs, Log, Givens, Given, Undos, Undo, Sent,
              Earlier, SentRows, Count
<1>5. QED BY <1>3, <1>4

LEMMA AcceptMapped ==
    ASSUME NEW c \in Conversations, NEW k \in Keys,
           \A i \in DOMAIN Logs[c] : Logs[c][i] # k,
           Logs' = [Logs EXCEPT ![c] = Append(@, k)],
           Undos' = [Undos EXCEPT ![c] = Givens[c]], UNCHANGED Givens
    PROVE  Delivery!Accept(c, k)
BY Mapping DEF Delivery!vars, Delivery!Accept

LEMMA GiveMapped ==
    ASSUME NEW c \in Conversations, Givens[c] < Len(Logs[c]),
           Givens' = [Givens EXCEPT ![c] = Len(Logs[c])],
           Undos' = [Undos EXCEPT ![c] = Givens[c]], UNCHANGED Logs
    PROVE  Delivery!Give(c)
BY Mapping DEF Delivery!vars, Delivery!Give

LEMMA TakeBackMapped ==
    ASSUME NEW c \in Conversations, Givens[c] = Len(Logs[c]),
           Givens' = [Givens EXCEPT ![c] = Undos[c]],
           UNCHANGED <<Logs, Undos>>
    PROVE  Delivery!TakeBack(c)
BY Mapping DEF Delivery!vars, Delivery!TakeBack

LEMMA LogLength ==
    ASSUME NEW q \in Seq(Message)
    PROVE  Len(Log(q)) = Len(q)
BY MessageSeq DEF Log

LEMMA MovesMap ==
    ASSUME TypedInv, OrderOK, LedgerMove
    PROVE  [Delivery!Next]_(Delivery!vars)
<1>1. /\ ledger \in [Conversations -> Seq(Message)] /\ clock \in Nat
      /\ \A c \in Conversations :
            Ordered(ledger[c]) /\ Distinct(ledger[c]) /\ Stamps(ledger[c], clock)
  BY DEF TypedInv, TypeOK, OrderOK
<1>2. CASE UNCHANGED ledger
  <2>1. UNCHANGED <<Logs, Givens, Undos>> BY <1>2 DEF Logs, Givens, Undos
  <2>2. QED BY <2>1, Mapping
\* a step that is about one conversation only
<1>3. ASSUME NEW c \in Conversations,
             \A d \in Conversations \ {c} : ledger'[d] = ledger[d]
      PROVE  /\ Logs' = [Logs EXCEPT ![c] = Log(ledger'[c])]
             /\ Givens' = [Givens EXCEPT ![c] = Given(ledger'[c])]
             /\ Undos' = [Undos EXCEPT ![c] = Undo(ledger'[c])]
  BY <1>3 DEF Logs, Givens, Undos
<1>4. \A c \in Conversations : /\ Logs[c] = Log(ledger[c])
                               /\ Givens[c] = Given(ledger[c])
                               /\ Undos[c] = Undo(ledger[c])
  BY DEF Logs, Givens, Undos
<1>5. \A c \in Conversations :
         /\ Logs = [Logs EXCEPT ![c] = Logs[c]]
         /\ Givens = [Givens EXCEPT ![c] = Givens[c]]
         /\ Undos = [Undos EXCEPT ![c] = Undos[c]]
  BY DEF Logs, Givens, Undos
<1>6. ASSUME NEW c \in Conversations, NEW k \in Keys, Takes(c, k)
      PROVE  Delivery!Next
  <2>1. /\ ledger'[c] = Append(ledger[c], [key |-> k, stamp |-> 0])
        /\ \A d \in Conversations \ {c} : ledger'[d] = ledger[d]
        /\ \A i \in DOMAIN ledger[c] : ledger[c][i].key # k
    BY <1>1, <1>6 DEF Takes, Appended, KeysOf
  <2>2. /\ Log(ledger'[c]) = Append(Logs[c], k)
        /\ Given(ledger'[c]) = Givens[c] /\ Undo(ledger'[c]) = Givens[c]
    BY <1>1, <1>4, <2>1, LogAppended
  <2>3. /\ Logs' = [Logs EXCEPT ![c] = Append(@, k)]
        /\ Undos' = [Undos EXCEPT ![c] = Givens[c]] /\ UNCHANGED Givens
    <3>1. /\ Logs' = [Logs EXCEPT ![c] = Log(ledger'[c])]
          /\ Givens' = [Givens EXCEPT ![c] = Given(ledger'[c])]
          /\ Undos' = [Undos EXCEPT ![c] = Undo(ledger'[c])]
      BY <1>3, <2>1
    <3>2. Logs' = [Logs EXCEPT ![c] = Append(@, k)] BY <2>2, <3>1
    <3>3. Undos' = [Undos EXCEPT ![c] = Givens[c]] BY <2>2, <3>1
    <3>4. Givens' = [Givens EXCEPT ![c] = Givens[c]] BY <2>2, <3>1
    <3>5. QED BY <1>5, <3>2, <3>3, <3>4
  <2>4. \A i \in DOMAIN Logs[c] : Logs[c][i] # k
    <3>1. Logs[c] = [i \in DOMAIN ledger[c] |-> ledger[c][i].key]
      BY <1>4 DEF Log
    <3>2. QED BY <2>1, <3>1
  <2>5. QED BY <2>3, <2>4, AcceptMapped DEF Delivery!Next
<1>7. ASSUME NEW c \in Conversations, Gives(c)
      PROVE  UNCHANGED ledger \/ Delivery!Next
  <2>1. /\ ledger'[c] = Stamped(ledger[c], clock + 1)
        /\ \A d \in Conversations \ {c} : ledger'[d] = ledger[d]
        /\ ledger' = [ledger EXCEPT ![c] = Stamped(ledger[c], clock + 1)]
    BY <1>1, <1>7 DEF Gives
  <2>2. CASE AllSent(ledger[c])
    <3>1. ledger'[c] = ledger[c] BY <1>1, <2>1, <2>2, LogStamped
    <3>2. QED BY <1>1, <2>1, <3>1
  <2>3. CASE ~AllSent(ledger[c])
    <3>1. /\ Log(ledger'[c]) = Logs[c] /\ Undo(ledger'[c]) = Givens[c]
          /\ Given(ledger'[c]) = Len(ledger[c])
      BY <1>1, <1>4, <2>1, <2>3, LogStamped
    <3>2. Len(ledger[c]) = Len(Logs[c]) /\ Givens[c] < Len(Logs[c])
      BY <1>1, <1>4, <2>3, GivenBounds, LogLength
    <3>3. /\ Givens' = [Givens EXCEPT ![c] = Len(Logs[c])]
          /\ Undos' = [Undos EXCEPT ![c] = Givens[c]] /\ UNCHANGED Logs
      BY <1>3, <1>5, <2>1, <3>1, <3>2
    <3>4. QED BY <3>2, <3>3, GiveMapped DEF Delivery!Next
  <2>4. QED BY <2>2, <2>3
<1>8. ASSUME NEW c \in Conversations, TakesBack(c)
      PROVE  Delivery!Next
  <2>1. /\ ledger'[c] = LastBatchUnsent(ledger[c])
        /\ \A d \in Conversations \ {c} : ledger'[d] = ledger[d]
        /\ AllSent(ledger[c])
    BY <1>1, <1>8, AllSentUnsent DEF TakesBack
  <2>2. /\ Log(ledger'[c]) = Logs[c] /\ Undo(ledger'[c]) = Undos[c]
        /\ Given(ledger'[c]) = Undos[c]
    BY <1>1, <1>4, <2>1, LogTakenBack
  <2>3. Givens[c] = Len(Logs[c])
    BY <1>1, <1>4, <2>1, GivenBounds, LogLength
  <2>4. /\ Givens' = [Givens EXCEPT ![c] = Undos[c]]
        /\ UNCHANGED <<Logs, Undos>>
    BY <1>3, <1>5, <2>1, <2>2
  <2>5. QED BY <2>3, <2>4, TakeBackMapped DEF Delivery!Next
<1>9. QED BY <1>2, <1>6, <1>7, <1>8 DEF LedgerMove

LEMMA OrderInit == Init => OrderOK /\ Delivery!Init
<1> SUFFICES ASSUME Init PROVE OrderOK /\ Delivery!Init OBVIOUS
<1>1. \A c \in Conversations : ledger[c] = <<>> /\ DOMAIN ledger[c] = {}
  BY DEF Init
<1>2. OrderOK BY <1>1 DEF OrderOK, Ordered, Distinct, Stamps
<1>3. \A c \in Conversations :
         /\ Log(ledger[c]) = <<>> /\ Given(ledger[c]) = 0 /\ Undo(ledger[c]) = 0
  <2> SUFFICES ASSUME NEW c \in Conversations
               PROVE  /\ Log(ledger[c]) = <<>>
                      /\ Given(ledger[c]) = 0 /\ Undo(ledger[c]) = 0
    OBVIOUS
  <2>1. Log(ledger[c]) = <<>> BY <1>1 DEF Log
  <2>2. Sent(ledger[c]) = {} /\ Earlier(ledger[c]) = {}
    BY <1>1 DEF Sent, Earlier
  <2>3. QED BY <2>1, <2>2, FS_EmptySet DEF Given, Undo
<1>4. Delivery!Init BY <1>3, Mapping DEF Delivery!vars, Delivery!Init, Logs, Givens, Undos
<1>5. QED BY <1>2, <1>4

(***************************************************************************)
(* The ledger implements the log with a cursor: whatever is delivered,     *)
(* killed or asked for and however the two interleave, messages are kept   *)
(* in order and never dropped, a dispatch hands over all that is unsent,   *)
(* and a retry takes back the last batch and only if nothing came since.   *)
(***************************************************************************)
THEOREM MessageLedgerIsALog == Spec => LedgerIsALog
<1> DEFINE Inv == TypedInv /\ OrderOK
<1>1. Init => Inv BY TypedInit, OrderInit
<1>2. Inv /\ [Next]_vars => Inv' BY TypedStep, StepMove, OrderStep
<1>3. Inv /\ [Next]_vars => [Delivery!Next]_(Delivery!vars)
  BY StepMove, MovesMap
<1>4. Init => Delivery!Init BY OrderInit
<1>5. QED BY <1>1, <1>2, <1>3, <1>4, PTL DEF Spec, LedgerIsALog, Delivery!Spec
=============================================================================
