------------------------- MODULE AgentServicesProofs -------------------------
(***************************************************************************)
(* Proofs about AgentServices, for any calls, models, tasks and chains of  *)
(* tools: whoever is told of failure is told so late enough.               *)
(***************************************************************************)
EXTENDS AgentServices, FiniteSetTheorems, FunctionTheorems, WellFoundedInduction, TLAPS

\* The call has left its i-th model behind, for a reason.
LeftBehind(c, i) ==
  \E g \in gaveUpOn[c] : g.model = ModelsOf[c][i] /\ g.after \in {0, MaxRetries}

\* A call gives up on its models in their order.
RetryInv ==
  \A c \in Calls :
     /\ \A i \in 1..(call[c].model - 1) : LeftBehind(c, i)
     /\ call[c].pc = "pausing" => call[c].attempt < MaxRetries
     /\ call[c].pc = "raised" =>
          call[c].model = Len(ModelsOf[c]) /\ LeftBehind(c, call[c].model)

\* The entry is of an attempt that its call has behind it.
Before(e) ==
  \E i \in 1..call[e.call].model :
     /\ e.model = ModelsOf[e.call][i]
     /\ i = call[e.call].model =>
          \/ e.attempt < call[e.call].attempt
          \/ e.attempt = call[e.call].attempt /\ call[e.call].pc \in {"pausing", "raised"}

Current(e) ==
  /\ call[e.call].pc = "returned" /\ e.model = Model(e.call)
  /\ e.attempt = call[e.call].attempt

Entries == ToSet(log)

LogInv ==
  /\ \A e \in Entries : IF e.success THEN Current(e) ELSE Before(e)
  /\ LoggedInOrder

RouterInv == RouterTypeOK /\ RetryInv /\ LogInv

AnswerInv ==
  \A c \in AgentCalls :
     /\ call[c].pc \in {"idle", "waiting", "pausing"} => answer[c] = "none"
     /\ answer[c] = "RuntimeError" => call[c].pc = "raised" /\ method[c] \notin WithFallback
     /\ call[c].pc = "raised" =>
          /\ answer[c] \notin {"none", "model", "AttributeError"}
          /\ call[c].attempt = MaxRetries

NamesDiffer(chain) == \A i, j \in DOMAIN chain : chain[i] = chain[j] => i = j

\* The tools and names up to the n-th are accounted for.
Covered(w, n) == \A i \in 1..n : w.chain[i] \in w.tried \cup w.skipped

WalkOK(w) ==
  /\ w.pc \in {"idle", "assessing", "rejected"} => w.tried = {}
  /\ w.pc \in {"idle", "assessing"} => w.at = 0
  /\ w.pc = "calling" => NamesDiffer(w.chain) /\ Covered(w, w.at - 1)
  /\ w.pc = "failed" => ToSet(w.chain) \subseteq w.tried \cup w.skipped

WalkInv == \A t \in Tasks : WalkOK(work[t])

WorkerInv == WorkerTypeOK /\ WalkInv

AgentInv == AgentTypeOK /\ AnswerInv

IInv == RouterInv /\ AgentInv /\ WorkerInv
-----------------------------------------------------------------------------
(* The router *)

LEMMA ModelRange ==
  ASSUME NEW c \in Calls, call[c].model \in DOMAIN ModelsOf[c]
  PROVE  /\ DOMAIN ModelsOf[c] = 1..Len(ModelsOf[c]) /\ Len(ModelsOf[c]) \in Nat \ {0}
         /\ call[c].model \in 1..Len(ModelsOf[c])
         /\ \A i \in 1..Len(ModelsOf[c]) : ModelsOf[c][i] \in Models
BY RouterAssumption

LEMMA EntryTypes ==
  ASSUME RouterTypeOK
  PROVE  /\ Entries \subseteq LogEntry
         /\ Entries = {log[i] : i \in DOMAIN log}
         /\ \A e \in Entries : e.call \in Calls /\ e.attempt \in Nat
<1>1. /\ log \in Seq(LogEntry) /\ Entries = {log[i] : i \in DOMAIN log}
      /\ Entries \subseteq LogEntry
  BY DEF RouterTypeOK, Entries, ToSet
<1>2. \A e \in LogEntry : e.call \in Calls /\ e.attempt \in Nat
  BY RouterAssumption DEF LogEntry
<1>3. QED
  BY <1>1, <1>2

\* What the rest of a state may do to the calls without disturbing the invariant.
LEMMA RouterStutters ==
  ASSUME RouterInv, UNCHANGED routerVars
  PROVE  RouterInv'
BY DEF RouterInv, RouterTypeOK, RetryInv, LogInv, LeftBehind, Current, Before, Model, routerVars,
       Entries, LoggedInOrder

\* A step by which a call comes to wait for the next attempt at its model.
LEMMA CallWaits ==
  ASSUME RouterInv, NEW c \in Calls, NEW attempt \in 1..MaxRetries,
         \/ call[c].pc = "idle" /\ attempt = call[c].attempt
         \/ call[c].pc = "pausing" /\ attempt = call[c].attempt + 1,
         call' = [call EXCEPT ![c] = [pc |-> "waiting", model |-> call[c].model,
                                      attempt |-> attempt]],
         UNCHANGED <<log, gaveUpOn>>
  PROVE  RouterInv'
<1>1. /\ call'[c] = [pc |-> "waiting", model |-> call[c].model, attempt |-> attempt]
      /\ \A d \in Calls : d # c => call'[d] = call[d]
      /\ call[c].attempt \in 1..MaxRetries /\ call[c].model \in Nat
  BY DEF RouterInv, RouterTypeOK
<1>2. /\ call'[c].pc = "waiting" /\ call'[c].attempt = attempt
      /\ \A d \in Calls : call'[d].model = call[d].model
  BY <1>1
<1>3. RouterTypeOK'
  BY <1>1, <1>2 DEF RouterInv, RouterTypeOK
<1>4. RetryInv'
  BY <1>1, <1>2 DEF RouterInv, RetryInv, LeftBehind
<1>5. LogInv'
  <2> SUFFICES ASSUME NEW e \in Entries
               PROVE  IF e.success THEN Current(e)' ELSE Before(e)'
    BY DEF RouterInv, LogInv, Entries, LoggedInOrder
  <2>1. e.call \in Calls /\ e.attempt \in Nat
    BY EntryTypes DEF RouterInv
  <2>2. CASE e.call # c
    BY <1>1, <2>1, <2>2 DEF RouterInv, LogInv, Current, Before, Model
  <2>3. CASE e.call = c
    <3>1. ~e.success /\ Before(e)
      BY <2>3 DEF RouterInv, LogInv, Current
    <3>2. PICK i \in 1..call[c].model :
             /\ e.model = ModelsOf[c][i]
             /\ i = call[c].model =>
                  \/ e.attempt < call[c].attempt
                  \/ e.attempt = call[c].attempt /\ call[c].pc \in {"pausing", "raised"}
      BY <2>3, <3>1 DEF Before
    <3>3. i = call[c].model => e.attempt < attempt
      BY <1>1, <2>1, <3>2, RouterAssumption
    <3>4. Before(e)'
      BY <1>2, <2>3, <3>2, <3>3 DEF Before
    <3>5. QED
      BY <3>1, <3>4
  <2>4. QED
    BY <2>2, <2>3
<1>6. QED
  BY <1>3, <1>4, <1>5 DEF RouterInv

LEMMA CallModelKeeps ==
  ASSUME RouterInv, NEW c \in Calls, CallModel(c)
  PROVE  RouterInv'
<1>1. /\ call[c] = [pc |-> call[c].pc, model |-> call[c].model, attempt |-> call[c].attempt]
      /\ call[c].attempt \in 1..MaxRetries
  BY DEF RouterInv, RouterTypeOK
<1>2. [call[c] EXCEPT !.pc = "waiting"]
         = [pc |-> "waiting", model |-> call[c].model, attempt |-> call[c].attempt]
  BY <1>1
<1>3. call' = [call EXCEPT ![c] = [pc |-> "waiting", model |-> call[c].model,
                                   attempt |-> call[c].attempt]]
  BY <1>2 DEF CallModel
<1>4. QED
  BY <1>1, <1>3, CallWaits DEF CallModel

LEMMA RetryKeeps ==
  ASSUME RouterInv, NEW c \in Calls, Retry(c)
  PROVE  RouterInv'
<1>1. call[c].attempt + 1 \in 1..MaxRetries
  BY RouterAssumption DEF RouterInv, RouterTypeOK, RetryInv, Retry
<1>2. QED
  BY <1>1, CallWaits DEF Retry

\* An entry that is Before stays so as long as its call does not turn back.
LEMMA BeforeStays ==
  ASSUME RouterTypeOK, NEW e \in Entries, Before(e),
         call'[e.call].model = call[e.call].model,
         call'[e.call].attempt = call[e.call].attempt,
         call'[e.call].pc = call[e.call].pc \/ call[e.call].pc \notin {"pausing", "raised"}
           \/ call'[e.call].pc \in {"pausing", "raised"}
  PROVE  Before(e)'
<1>1. e.call \in Calls /\ e.attempt \in Nat
  BY EntryTypes
<1>2. PICK i \in 1..call[e.call].model :
         /\ e.model = ModelsOf[e.call][i]
         /\ i = call[e.call].model =>
              \/ e.attempt < call[e.call].attempt
              \/ e.attempt = call[e.call].attempt /\ call[e.call].pc \in {"pausing", "raised"}
  BY DEF Before
<1>3. i \in 1..call'[e.call].model
  OBVIOUS
<1>4. QED
  BY <1>2, <1>3 DEF Before

\* One more attempt of a waiting call in the log: what the call has behind it are
\* other models or earlier attempts.
LEMMA LogGrows ==
  ASSUME RouterInv, NEW c \in Calls, call[c].pc = "waiting",
         NEW success \in BOOLEAN, Logged(c, success)
  PROVE  /\ log' \in Seq(LogEntry)
         /\ Entries' \subseteq Entries \cup {Entry(c, success)}
         /\ LoggedInOrder'
<1> DEFINE entry == Entry(c, success)
<1>1. /\ log \in Seq(LogEntry) /\ LoggedInOrder /\ Len(log) \in Nat
      /\ Entries = {log[i] : i \in DOMAIN log}
  BY EntryTypes DEF RouterInv, RouterTypeOK, LogInv
<1>2. CASE c \notin Routed
  <2>1. log' = log
    BY <1>2 DEF Logged
  <2>2. QED
    BY <1>1, <2>1 DEF Entries, LoggedInOrder
<1>3. CASE c \in Routed
  <2>1. log' = Append(log, entry)
    BY <1>3 DEF Logged
  <2>2. entry \in LogEntry
    BY <1>3, ModelRange DEF RouterInv, RouterTypeOK, Model, Entry, LogEntry
  <2>3. entry.call = c /\ entry.model = ModelsOf[c][call[c].model] /\ entry.attempt = call[c].attempt
    BY DEF Entry, Model
  <2> HIDE DEF entry
  <2>4. /\ log' \in Seq(LogEntry) /\ DOMAIN log = 1..Len(log)
        /\ DOMAIN log' = 1..(Len(log) + 1)
        /\ \A i \in DOMAIN log : log'[i] = log[i]
        /\ log'[Len(log) + 1] = entry
    BY <1>1, <2>1, <2>2
  <2>5. Entries' \subseteq Entries \cup {entry}
    <3>1. Entries' = {log'[i] : i \in 1..(Len(log) + 1)}
      BY <2>4 DEF Entries, ToSet
    <3>2. \A i \in 1..(Len(log) + 1) : i \in DOMAIN log \/ i = Len(log) + 1
      BY <1>1, <2>4
    <3>3. QED
      BY <1>1, <2>4, <3>1, <3>2
  <2>6. ASSUME NEW e \in Entries, e.call = c
        PROVE  e.model # entry.model \/ e.attempt < entry.attempt
    <3>1. Before(e)
      BY <2>6 DEF RouterInv, LogInv, Current
    <3>2. PICK i \in 1..call[c].model :
             /\ e.model = ModelsOf[c][i]
             /\ i = call[c].model =>
                  \/ e.attempt < call[c].attempt
                  \/ e.attempt = call[c].attempt /\ call[c].pc \in {"pausing", "raised"}
      BY <2>6, <3>1 DEF Before
    <3>3. CASE i = call[c].model
      BY <2>3, <3>2, <3>3
    <3>4. CASE i # call[c].model
      <4>1. i \in DOMAIN ModelsOf[c] /\ call[c].model \in DOMAIN ModelsOf[c]
        BY <3>2, ModelRange DEF RouterInv, RouterTypeOK
      <4>2. ModelsOf[c][i] # ModelsOf[c][call[c].model]
        BY <3>4, <4>1, RouterAssumption
      <4>3. QED
        BY <2>3, <3>2, <4>2
    <3>5. QED
      BY <3>3, <3>4
  <2>7. ASSUME NEW i \in DOMAIN log', NEW j \in DOMAIN log', i < j, log'[i].call = log'[j].call
        PROVE  log'[i].model # log'[j].model \/ log'[i].attempt < log'[j].attempt
    <3>1. i \in DOMAIN log /\ log'[i] = log[i] /\ log[i] \in Entries
      BY <1>1, <2>4, <2>7
    <3>2. CASE j \in DOMAIN log
      BY <1>1, <2>4, <2>7, <3>1, <3>2 DEF LoggedInOrder
    <3>3. CASE j = Len(log) + 1
      BY <2>3, <2>4, <2>6, <2>7, <3>1, <3>3
    <3>4. QED
      BY <1>1, <2>4, <3>2, <3>3
  <2>8. QED
    BY <2>4, <2>5, <2>7 DEF LoggedInOrder, entry
<1>4. QED
  BY <1>2, <1>3

LEMMA AnswersKeeps ==
  ASSUME RouterInv, NEW c \in Calls, Answers(c)
  PROVE  RouterInv'
<1> DEFINE entry == Entry(c, TRUE)
<1>1. /\ call[c].pc = "waiting"
      /\ call'[c].pc = "returned" /\ call'[c].model = call[c].model
      /\ call'[c].attempt = call[c].attempt
      /\ \A d \in Calls : d # c => call'[d] = call[d]
      /\ \A d \in Calls : call'[d].model = call[d].model
      /\ call' \in [Calls -> [pc : {"idle", "waiting", "pausing", "returned", "raised"},
                         model : Nat, attempt : 1..MaxRetries]]
      /\ gaveUpOn' = gaveUpOn
  BY DEF Answers, RouterInv, RouterTypeOK
<1>2. /\ log' \in Seq(LogEntry) /\ LoggedInOrder'
      /\ Entries' \subseteq Entries \cup {entry}
  BY <1>1, LogGrows DEF Answers
<1>3. RouterTypeOK'
  BY <1>1, <1>2 DEF RouterInv, RouterTypeOK
<1>4. RetryInv'
  BY <1>1 DEF RouterInv, RetryInv, LeftBehind
<1>5. ASSUME NEW e \in Entries
      PROVE  IF e.success THEN Current(e)' ELSE Before(e)'
  <2>1. e.call \in Calls
    BY EntryTypes DEF RouterInv
  <2>2. CASE e.success
    <3>1. Current(e) /\ e.call # c
      BY <1>1, <2>2 DEF RouterInv, LogInv, Current
    <3>2. QED
      BY <1>1, <2>1, <2>2, <3>1 DEF Current, Model
  <2>3. CASE ~e.success
    <3>1. Before(e)
      BY <2>3 DEF RouterInv, LogInv
    <3>2. Before(e)'
      BY <1>1, <2>1, <3>1, BeforeStays DEF RouterInv
    <3>3. QED
      BY <2>3, <3>2
  <2>4. QED
    BY <2>2, <2>3
<1>6. ASSUME NEW e, e = entry
      PROVE  e.success /\ Current(e)'
  <2>1. e.call = c /\ e.model = ModelsOf[c][call[c].model] /\ e.attempt = call[c].attempt
        /\ e.success
    BY <1>6 DEF Model, Entry
  <2>2. QED
    BY <1>1, <2>1 DEF Current, Model
<1>7. LogInv'
  <2> HIDE DEF entry
  <2> SUFFICES ASSUME NEW e \in Entries'
               PROVE  IF e.success THEN Current(e)' ELSE Before(e)'
    BY <1>2 DEF LogInv
  <2>1. CASE e \in Entries
    BY <1>5, <2>1
  <2>2. CASE e = entry
    BY <1>6, <2>2
  <2>3. QED
    BY <1>2, <2>1, <2>2
<1>8. QED
  BY <1>3, <1>4, <1>7 DEF RouterInv

\* Once a call is past an attempt the entry about its failure may be in the log.
LEMMA FailureIsLogged ==
  ASSUME RouterInv, NEW c \in Calls, call[c].pc = "waiting", Logged(c, FALSE),
         \A d \in Calls : d # c => call'[d] = call[d],
         \/ call'[c].model \in Nat /\ call'[c].model > call[c].model
         \/ /\ call'[c].model = call[c].model /\ call'[c].attempt = call[c].attempt
            /\ call'[c].pc \in {"pausing", "raised"}
  PROVE  LogInv' /\ log' \in Seq(LogEntry)
<1> DEFINE entry == Entry(c, FALSE)
<1>1. /\ log' \in Seq(LogEntry) /\ LoggedInOrder'
      /\ Entries' \subseteq Entries \cup {entry}
  BY LogGrows
<1>2. /\ Model(c) \in Models /\ call[c].attempt \in 1..MaxRetries
      /\ call[c].model \in Nat \ {0} /\ call'[c].model \in Nat
  BY ModelRange DEF RouterInv, RouterTypeOK, Model
<1>3. ASSUME NEW e \in Entries
      PROVE  IF e.success THEN Current(e)' ELSE Before(e)'
  <2>1. e.call \in Calls /\ e.attempt \in Nat
    BY EntryTypes DEF RouterInv
  <2>2. CASE e.success
    <3>1. Current(e) /\ e.call # c
      BY <2>2 DEF RouterInv, LogInv, Current
    <3>2. QED
      BY <2>1, <2>2, <3>1 DEF Current, Model
  <2>3. CASE ~e.success
    <3>1. Before(e)
      BY <2>3 DEF RouterInv, LogInv
    <3>2. CASE e.call # c \/ call'[c].model = call[c].model
      <4>1. Before(e)'
        BY <2>1, <3>1, <3>2, BeforeStays DEF RouterInv
      <4>2. QED
        BY <2>3, <4>1
    <3>3. CASE e.call = c /\ call'[c].model > call[c].model
      <4>1. PICK i \in 1..call[c].model : e.model = ModelsOf[c][i]
        BY <3>1, <3>3 DEF Before
      <4>2. i \in 1..call'[c].model /\ i # call'[c].model
        BY <1>2, <3>3
      <4>3. Before(e)'
        BY <3>3, <4>1, <4>2 DEF Before
      <4>4. QED
        BY <2>3, <4>3
    <3>4. QED
      BY <3>2, <3>3
  <2>4. QED
    BY <2>2, <2>3
<1>4. ASSUME NEW e, e = entry
      PROVE  ~e.success /\ Before(e)'
  <2>1. e.call = c /\ e.model = ModelsOf[c][call[c].model] /\ e.attempt = call[c].attempt
        /\ ~e.success
    BY <1>4 DEF Model, Entry
  <2>2. call[c].model \in 1..call'[c].model
    BY <1>2
  <2>3. call[c].model = call'[c].model =>
          e.attempt = call'[c].attempt /\ call'[c].pc \in {"pausing", "raised"}
    BY <1>2, <2>1
  <2>4. Before(e)'
    BY <2>1, <2>2, <2>3 DEF Before
  <2>5. QED
    BY <2>1, <2>4
<1> HIDE DEF entry
<1>5. ASSUME NEW e \in Entries'
      PROVE  IF e.success THEN Current(e)' ELSE Before(e)'
  <2>1. CASE e \in Entries
    BY <1>3, <2>1
  <2>2. CASE e = entry
    BY <1>4, <2>2
  <2>3. QED
    BY <1>1, <2>1, <2>2
<1>6. QED
  BY <1>1, <1>5 DEF LogInv

LEMMA AnswerFailsKeeps ==
  ASSUME RouterInv, NEW c \in Calls, NEW retryable \in BOOLEAN, AnswerFails(c, retryable)
  PROVE  RouterInv'
<1> DEFINE reason == [model |-> Model(c),
                      after |-> IF Fatal(c, retryable) THEN 0 ELSE call[c].attempt]
           left == Fatal(c, retryable) \/ call[c].attempt = MaxRetries
<1>1. /\ call[c].pc = "waiting" /\ Logged(c, FALSE)
      /\ call[c] \in [pc : {"idle", "waiting", "pausing", "returned", "raised"},
                      model : Nat, attempt : 1..MaxRetries]
      /\ call[c].attempt \in 1..MaxRetries /\ call[c].model \in 1..Len(ModelsOf[c])
      /\ Len(ModelsOf[c]) \in Nat /\ DOMAIN ModelsOf[c] = 1..Len(ModelsOf[c])
      /\ Model(c) \in Models
  BY ModelRange DEF AnswerFails, RouterInv, RouterTypeOK, Model
<1>2. CASE ~left
  <2>1. call' = [call EXCEPT ![c].pc = "pausing"] /\ gaveUpOn' = gaveUpOn
    BY <1>2 DEF AnswerFails
  <2>2. /\ call' \in [Calls -> [pc : {"idle", "waiting", "pausing", "returned", "raised"},
                                model : Nat, attempt : 1..MaxRetries]]
        /\ \A d \in Calls : d # c => call'[d] = call[d]
        /\ call'[c].model = call[c].model /\ call'[c].attempt = call[c].attempt
        /\ call'[c].pc = "pausing"
    BY <1>1, <2>1 DEF RouterInv, RouterTypeOK
  <2>3. LogInv' /\ log' \in Seq(LogEntry)
    BY <1>1, <2>2, FailureIsLogged
  <2>4. RouterTypeOK'
    BY <2>1, <2>2, <2>3 DEF RouterInv, RouterTypeOK
  <2>5. call'[c].attempt < MaxRetries
    BY <1>1, <1>2, <2>2, RouterAssumption
  <2>6. RetryInv'
    BY <2>1, <2>2, <2>5 DEF RouterInv, RetryInv, LeftBehind
  <2>7. QED
    BY <2>3, <2>4, <2>6 DEF RouterInv
<1>3. CASE left
  <2>1. /\ call' = [call EXCEPT ![c] = NextModel(c)]
        /\ gaveUpOn' = [gaveUpOn EXCEPT ![c] = @ \cup {reason}]
    BY <1>3 DEF AnswerFails
  <2>2. reason.model = Model(c) /\ reason.after \in {0, MaxRetries}
        /\ reason \in [model : Models, after : 0..MaxRetries]
    BY <1>1, <1>3, RouterAssumption
  <2> HIDE DEF reason
  <2>3. /\ gaveUpOn' \in [Calls -> SUBSET [model : Models, after : 0..MaxRetries]]
        /\ gaveUpOn'[c] = gaveUpOn[c] \cup {reason}
        /\ \A d \in Calls : d # c => gaveUpOn'[d] = gaveUpOn[d]
    BY <2>1, <2>2 DEF RouterInv, RouterTypeOK
  <2>4. /\ NextModel(c) \in [pc : {"idle", "waiting", "pausing", "returned", "raised"},
                             model : Nat, attempt : 1..MaxRetries]
        /\ NextModel(c).model \in 1..Len(ModelsOf[c])
        /\ \/ /\ NextModel(c).pc = "waiting" /\ NextModel(c).model = call[c].model + 1
           \/ /\ NextModel(c).pc = "raised" /\ call[c].model = Len(ModelsOf[c])
              /\ NextModel(c).model = call[c].model /\ NextModel(c).attempt = call[c].attempt
    BY <1>1, RouterAssumption DEF NextModel
  <2>5. /\ call' \in [Calls -> [pc : {"idle", "waiting", "pausing", "returned", "raised"},
                                model : Nat, attempt : 1..MaxRetries]]
        /\ \A d \in Calls : d # c => call'[d] = call[d]
        /\ call'[c] = NextModel(c)
    BY <2>1, <2>4 DEF RouterInv, RouterTypeOK
  <2>6. LogInv' /\ log' \in Seq(LogEntry)
    <3>1. \/ call'[c].model \in Nat /\ call'[c].model > call[c].model
          \/ /\ call'[c].model = call[c].model /\ call'[c].attempt = call[c].attempt
             /\ call'[c].pc \in {"pausing", "raised"}
      BY <1>1, <2>4, <2>5
    <3>2. QED
      BY <1>1, <2>5, <3>1, FailureIsLogged
  <2>7. RouterTypeOK'
    BY <1>1, <2>3, <2>4, <2>5, <2>6 DEF RouterInv, RouterTypeOK
  <2>8. ASSUME NEW i \in 1..call[c].model
        PROVE  LeftBehind(c, i)'
    <3>1. CASE i = call[c].model
      BY <2>2, <2>3, <3>1 DEF LeftBehind, Model
    <3>2. CASE i # call[c].model
      <4>1. LeftBehind(c, i)
        BY <1>1, <3>2 DEF RouterInv, RetryInv
      <4>2. QED
        BY <2>3, <4>1 DEF LeftBehind
    <3>3. QED
      BY <3>1, <3>2
  <2>9. ASSUME NEW d \in Calls
        PROVE  /\ \A i \in 1..(call'[d].model - 1) : LeftBehind(d, i)'
               /\ call'[d].pc = "pausing" => call'[d].attempt < MaxRetries
               /\ call'[d].pc = "raised" =>
                    /\ call'[d].model = Len(ModelsOf[d])
                    /\ \A i \in 1..call'[d].model : i = call'[d].model => LeftBehind(d, i)'
    <3>1. CASE d = c
      BY <1>1, <2>4, <2>5, <2>8, <3>1
    <3>2. CASE d # c
      BY <2>3, <2>5, <3>2 DEF RouterInv, RetryInv, LeftBehind
    <3>3. QED
      BY <3>1, <3>2
  <2>10. RetryInv'
    BY <2>7, <2>9, ModelRange DEF RetryInv, RouterTypeOK
  <2>11. QED
    BY <2>6, <2>7, <2>10 DEF RouterInv
<1>4. QED
  BY <1>2, <1>3

LEMMA ResetKeeps ==
  ASSUME RouterInv, ResetUsage
  PROVE  RouterInv'
<1>1. /\ log' = <<>> /\ log' \in Seq(LogEntry) /\ DOMAIN log' = {} /\ Entries' = {}
      /\ UNCHANGED <<call, gaveUpOn>>
  BY DEF ResetUsage, Entries, ToSet
<1>2. LogInv'
  BY <1>1 DEF LogInv, LoggedInOrder
<1>3. RouterTypeOK' /\ RetryInv'
  BY <1>1 DEF RouterInv, RouterTypeOK, RetryInv, LeftBehind
<1>4. QED
  BY <1>2, <1>3 DEF RouterInv

LEMMA RouterInitially ==
  ASSUME RouterInit
  PROVE  RouterInv
<1>1. \A c \in Calls : 1 \in DOMAIN ModelsOf[c]
  BY RouterAssumption
<1>2. 1 \in 1..MaxRetries
  BY RouterAssumption
<1>3. RouterTypeOK
  BY <1>1, <1>2 DEF RouterInit, RouterTypeOK
<1>4. RetryInv /\ LogInv
  <2>1. DOMAIN log = {} /\ Entries = {}
    BY DEF RouterInit, Entries, ToSet
  <2>2. QED
    BY <2>1 DEF RouterInit, RetryInv, LogInv, LoggedInOrder
<1>5. QED
  BY <1>3, <1>4 DEF RouterInv

LEMMA ModelStepKeeps ==
  ASSUME RouterInv, NEW c \in Calls, ModelStep(c)
  PROVE  RouterInv'
<1>1. CASE Answers(c)
  BY <1>1, AnswersKeeps
<1>2. CASE \E retryable \in BOOLEAN : AnswerFails(c, retryable)
  BY <1>2, AnswerFailsKeeps
<1>3. CASE Retry(c)
  BY <1>3, RetryKeeps
<1>4. QED
  BY <1>1, <1>2, <1>3 DEF ModelStep

\* A call leaves no more than one success in the log, so that the successes of the
\* report map into the calls that have returned.
LEMMA ReportCountsOnce ==
  ASSUME RouterInv
  PROVE  UsageReport.successful <= Cardinality({c \in Routed : call[c].pc = "returned"})
<1> DEFINE ok == {i \in DOMAIN log : log[i].success}
           answered == {c \in Routed : call[c].pc = "returned"}
           callOf == [i \in ok |-> log[i].call]
<1>1. IsFiniteSet(answered)
  <2>1. answered \in SUBSET Calls
    BY RouterAssumption
  <2>2. QED
    BY <2>1, RouterAssumption, FS_Subset
<1>2. \A i \in ok : log[i] \in Entries /\ log[i] \in LogEntry /\ Current(log[i])
  BY EntryTypes DEF RouterInv, LogInv
<1>3. callOf \in [ok -> answered]
  BY <1>2 DEF Current, LogEntry
<1>4. ASSUME NEW i \in ok, NEW j \in ok, log[i].call = log[j].call
      PROVE  i = j
  <2>1. /\ log[i].model = log[j].model /\ log[i].attempt = log[j].attempt
        /\ log[i].attempt \in Nat
    BY <1>2, <1>4, RouterAssumption DEF Current, LogEntry
  <2>2. ~(i < j) /\ ~(j < i)
    BY <1>4, <2>1 DEF RouterInv, LogInv, LoggedInOrder
  <2>3. i \in Nat /\ j \in Nat
    BY DEF RouterInv, RouterTypeOK
  <2>4. QED
    BY <2>2, <2>3
<1>5. callOf \in Injection(ok, answered)
  BY <1>3, <1>4 DEF Injection, IsInjective
<1>6. Cardinality(ok) <= Cardinality(answered)
  BY <1>1, <1>5, FS_Injection
<1>7. QED
  BY <1>6 DEF UsageReport

LEMMA RouterTellsTheTruth ==
  ASSUME RouterInv
  PROVE  RaisedMeansExhausted /\ LogIsTruthful
<1>1. RaisedMeansExhausted
  <2> SUFFICES ASSUME NEW c \in Calls, call[c].pc = "raised", NEW i \in DOMAIN ModelsOf[c]
               PROVE  LeftBehind(c, i)
    BY DEF RaisedMeansExhausted, LeftBehind
  <2>1. i \in 1..Len(ModelsOf[c]) /\ Len(ModelsOf[c]) \in Nat
    BY RouterAssumption
  <2>2. i = call[c].model \/ i \in 1..(call[c].model - 1)
    BY <2>1 DEF RouterInv, RetryInv
  <2>3. QED
    BY <2>2 DEF RouterInv, RetryInv
<1>2. ASSUME NEW e \in Entries
      PROVE  e.success <=> /\ call[e.call].pc = "returned"
                           /\ e.model = Model(e.call) /\ e.attempt = call[e.call].attempt
  <2>1. CASE e.success
    BY <2>1 DEF RouterInv, LogInv, Current
  <2>2. CASE ~e.success
    <3>1. PICK i \in 1..call[e.call].model :
             /\ e.model = ModelsOf[e.call][i]
             /\ i = call[e.call].model =>
                  \/ e.attempt < call[e.call].attempt
                  \/ e.attempt = call[e.call].attempt /\ call[e.call].pc \in {"pausing", "raised"}
      BY <2>2 DEF RouterInv, LogInv, Before
    <3>2. e.call \in Calls /\ e.attempt \in Nat
      BY EntryTypes DEF RouterInv
    <3>3. CASE i = call[e.call].model
      BY <2>2, <3>1, <3>2, <3>3 DEF RouterInv, RouterTypeOK
    <3>4. CASE i # call[e.call].model
      <4>1. i \in DOMAIN ModelsOf[e.call] /\ call[e.call].model \in DOMAIN ModelsOf[e.call]
        BY <3>1, <3>2, ModelRange DEF RouterInv, RouterTypeOK
      <4>2. ModelsOf[e.call][i] # ModelsOf[e.call][call[e.call].model]
        BY <3>2, <3>4, <4>1, RouterAssumption
      <4>3. QED
        BY <2>2, <3>1, <4>2 DEF Model
    <3>5. QED
      BY <3>3, <3>4
  <2>3. QED
    BY <2>1, <2>2
<1>3. \A i \in DOMAIN log : log[i] \in Entries
  BY EntryTypes DEF RouterInv
<1>4. QED
  BY <1>1, <1>2, <1>3, ReportCountsOnce DEF LogIsTruthful, RouterInv, LogInv
-----------------------------------------------------------------------------
(* The agents *)

Answer == Phases \cup {"none", "model", "default", "AttributeError", "RuntimeError"}

LEMMA PhasesAreAnswers ==
  ASSUME NEW s
  PROVE  RuleBasedPhase(s) \in Phases
BY DEF RuleBasedPhase, Phases

\* What a method makes of a payload, and of the RuntimeError.
LEMMA MethodsAnswer ==
  ASSUME NEW m \in Methods, NEW s
  PROVE  /\ \A p \in Payloads : AnswerOf(m, p, s) \in Answer \ {"none", "RuntimeError"}
         /\ AnswerOf(m, "no_answer", s) \in Answer \ {"none", "model", "AttributeError"}
         /\ AnswerOf(m, "no_answer", s) = "RuntimeError" => m \notin WithFallback
<1> DEFINE phase == RuleBasedPhase(s)
<1>1. phase \in Phases
  BY PhasesAreAnswers
<1>2. /\ phase \in Answer
      /\ phase \notin {"none", "model", "default", "AttributeError", "RuntimeError"}
  BY <1>1 DEF Phases, Answer
<1> HIDE DEF phase
<1>3. CASE m = "decide_next_phase"
  <2>1. \A p : AnswerOf(m, p, s) = CASE p = "fields" -> "model"
                                      [] p = "not_an_object" -> "AttributeError"
                                      [] OTHER -> phase
    BY <1>3 DEF AnswerOf, DecideNextPhase, phase
  <2>2. QED
    BY <1>2, <1>3, <2>1 DEF Answer, WithFallback, Payloads
<1>4. CASE m \in {"interpret_goal", "generate_summary"}
  BY <1>4 DEF AnswerOf, InterpretGoal, GenerateSummary, Answer, WithFallback, Payloads
<1>5. CASE m = "create_plan"
  BY <1>5 DEF AnswerOf, CreatePlan, Answer, WithFallback, Payloads
<1>6. CASE m = "replan"
  BY <1>6 DEF AnswerOf, Replan, Answer, WithFallback, Payloads
<1>7. CASE m = "evaluate"
  BY <1>7 DEF AnswerOf, Evaluate, Answer, WithFallback, Payloads
<1>8. QED
  BY <1>3, <1>4, <1>5, <1>6, <1>7 DEF Methods

LEMMA AgentStutters ==
  ASSUME AgentInv, UNCHANGED agentVars, \A c \in AgentCalls : call'[c] = call[c]
  PROVE  AgentInv'
BY DEF AgentInv, AgentTypeOK, AnswerInv, agentVars

LEMMA AskKeeps ==
  ASSUME RouterTypeOK, AgentInv, NEW c \in AgentCalls, NEW m \in Methods, Ask(c, m)
  PROVE  AgentInv'
<1>1. /\ call[c].pc = "idle" /\ call'[c].pc = "waiting"
      /\ \A d \in AgentCalls : d # c => call'[d] = call[d]
  BY DEF Ask, CallModel, RouterTypeOK, AgentCalls
<1>2. /\ method' = [method EXCEPT ![c] = m] /\ answer' = answer
  BY DEF Ask
<1>3. QED
  BY <1>1, <1>2 DEF AgentInv, AgentTypeOK, AnswerInv

LEMMA AgentAnswersKeeps ==
  ASSUME RouterTypeOK, AgentInv, NEW c \in AgentCalls, NEW p \in Payloads, NEW s,
         AgentAnswers(c, p, s)
  PROVE  AgentInv'
<1> DEFINE given == AnswerOf(method[c], p, s)
<1>1. /\ call'[c].pc = "returned"
      /\ \A d \in AgentCalls : d # c => call'[d] = call[d]
  BY DEF AgentAnswers, Answers, RouterTypeOK, AgentCalls
<1>2. given \in Answer \ {"none", "RuntimeError"}
  BY MethodsAnswer DEF AgentInv, AgentTypeOK
<1>3. answer' = [answer EXCEPT ![c] = given] /\ method' = method
  BY DEF AgentAnswers
<1> HIDE DEF given
<1>4. AgentTypeOK'
  BY <1>2, <1>3 DEF AgentInv, AgentTypeOK, Answer
<1>5. AnswerInv'
  BY <1>1, <1>2, <1>3 DEF AgentInv, AgentTypeOK, AnswerInv
<1>6. QED
  BY <1>4, <1>5 DEF AgentInv

LEMMA AgentAttemptFailsKeeps ==
  ASSUME RouterTypeOK, AgentInv, NEW c \in AgentCalls, NEW s, AgentAttemptFails(c, s)
  PROVE  AgentInv'
<1> DEFINE given == AnswerOf(method[c], "no_answer", s)
<1>1. c \in Calls /\ ~Fatal(c, TRUE)
  BY DEF Fatal, AgentCalls
<1>2. /\ call[c].pc = "waiting" /\ answer[c] = "none"
      /\ call[c] \in [pc : {"idle", "waiting", "pausing", "returned", "raised"},
                      model : Nat, attempt : 1..MaxRetries]
  BY <1>1 DEF AgentAttemptFails, AnswerFails, AgentInv, AnswerInv, RouterTypeOK
<1>3. \A d \in AgentCalls : d # c => call'[d] = call[d]
  BY DEF AgentAttemptFails, AnswerFails, RouterTypeOK, AgentCalls
<1>4. \/ call'[c].pc \in {"waiting", "pausing"}
      \/ call'[c].pc = "raised" /\ call'[c].attempt = MaxRetries
  <2>1. CASE call[c].attempt = MaxRetries
    <3>1. call'[c] = NextModel(c)
      BY <1>1, <2>1 DEF AgentAttemptFails, AnswerFails, RouterTypeOK
    <3>2. QED
      BY <1>2, <2>1, <3>1 DEF NextModel
  <2>2. CASE call[c].attempt # MaxRetries
    <3>1. call' = [call EXCEPT ![c].pc = "pausing"]
      BY <1>1, <2>2 DEF AgentAttemptFails, AnswerFails
    <3>2. QED
      BY <1>1, <1>2, <3>1 DEF RouterTypeOK
  <2>3. QED
    BY <2>1, <2>2
<1>5. /\ given \in Answer \ {"none", "model", "AttributeError"}
      /\ given = "RuntimeError" => method[c] \notin WithFallback
  BY MethodsAnswer DEF AgentInv, AgentTypeOK
<1>6. /\ answer' = IF call'[c].pc = "raised" THEN [answer EXCEPT ![c] = given] ELSE answer
      /\ method' = method
  BY DEF AgentAttemptFails
<1> HIDE DEF given
<1>7. AgentTypeOK'
  BY <1>5, <1>6 DEF AgentInv, AgentTypeOK, Answer
<1>8. AnswerInv'
  BY <1>2, <1>3, <1>4, <1>5, <1>6 DEF AgentInv, AgentTypeOK, AnswerInv
<1>9. QED
  BY <1>7, <1>8 DEF AgentInv

LEMMA AgentStepKeeps ==
  ASSUME RouterInv, AgentInv, NEW c \in AgentCalls, AgentStep(c)
  PROVE  RouterInv' /\ AgentInv'
<1>1. c \in Calls /\ RouterTypeOK
  BY DEF AgentCalls, RouterInv
<1>2. CASE \E s \in Situations, payload \in Payloads : AgentAnswers(c, payload, s)
  BY <1>1, <1>2, AnswersKeeps, AgentAnswersKeeps DEF AgentAnswers
<1>3. CASE \E s \in Situations : AgentAttemptFails(c, s)
  BY <1>1, <1>3, AnswerFailsKeeps, AgentAttemptFailsKeeps DEF AgentAttemptFails
<1>4. CASE Retry(c) /\ UNCHANGED agentVars
  <2>1. call'[c].pc = "waiting" /\ call[c].pc = "pausing"
        /\ \A d \in AgentCalls : d # c => call'[d] = call[d]
    BY <1>1, <1>4 DEF Retry, RouterTypeOK, AgentCalls
  <2>2. AgentInv'
    BY <1>4, <2>1 DEF AgentInv, AgentTypeOK, AnswerInv, agentVars
  <2>3. QED
    BY <1>1, <1>4, <2>2, RetryKeeps
<1>5. QED
  BY <1>2, <1>3, <1>4 DEF AgentStep
-----------------------------------------------------------------------------
(* The worker *)

LEMMA LeastNumber ==
  ASSUME NEW S, S \subseteq Nat, S # {}
  PROVE  Min(S) \in S /\ \A y \in S : Min(S) <= y
<1>1. PICK x \in S : \A y \in S : ~(<<y, x>> \in OpToRel(<, Nat))
  BY NatLessThanWellFounded, WFMin
<1>2. \A y \in S : ~(y < x)
  BY <1>1, Zenon DEF OpToRel
<1>3. \A y \in S : x <= y
  BY <1>2
<1>4. QED
  BY <1>3, Zenon DEF Min

WalkState == [pc : {"idle", "assessing", "calling", "succeeded", "failed", "rejected"},
              chain : Seq(WorkerTools), at : Nat,
              tried : SUBSET WorkerTools, skipped : SUBSET WorkerTools]

\* Wherever the walk stops, what lies before is accounted for.
LEMMA WalkedCovers ==
  ASSUME NEW w \in WalkState, NamesDiffer(w.chain), w.at < Len(w.chain), Covered(w, w.at)
  PROVE  /\ Walked(w) \in WalkState /\ Walked(w).chain = w.chain
         /\ \/ /\ Walked(w).pc = "calling" /\ Walked(w).at \in DOMAIN w.chain
               /\ Covered(Walked(w), Walked(w).at - 1)
            \/ /\ Walked(w).pc = "failed" /\ Covered(Walked(w), Len(w.chain))
<1> DEFINE later == (w.at + 1)..Len(w.chain)
           fails(i) == w.chain[i] \in registered \ Handlers
           callable == {j \in later :
                          /\ w.chain[j] \in registered \cap Handlers
                          /\ \A i \in later : (i < j /\ fails(i)) => w.chain[i] # Last(w.chain)}
           next == IF callable = {} THEN Len(w.chain) + 1 ELSE Min(callable)
           failing == {w.chain[i] : i \in {j \in later : j < next /\ fails(j)}}
           missing == {w.chain[i] : i \in {j \in later : j < next /\ w.chain[j] \notin registered}}
           r == [pc |-> IF callable = {} THEN "failed" ELSE "calling", chain |-> w.chain,
                 at |-> next, tried |-> w.tried \cup failing, skipped |-> w.skipped \cup missing]
<1>1. Walked(w) = r
  BY DEF Walked
<1>2. /\ w.chain \in Seq(WorkerTools) /\ w.at \in Nat /\ Len(w.chain) \in Nat
      /\ DOMAIN w.chain = 1..Len(w.chain)
      /\ \A i \in 1..Len(w.chain) : w.chain[i] \in WorkerTools
      /\ w.tried \subseteq WorkerTools /\ w.skipped \subseteq WorkerTools
  BY DEF WalkState
<1>3. /\ later \subseteq 1..Len(w.chain) /\ later \subseteq Nat
      /\ callable \subseteq later
  BY <1>2
<1>4. /\ callable # {} => next \in callable /\ \A j \in callable : next <= j
      /\ callable = {} => next = Len(w.chain) + 1
      /\ next \in 1..(Len(w.chain) + 1) /\ next \in Nat
  <2> HIDE DEF callable, later
  <2>1. CASE callable = {}
    BY <1>2, <2>1
  <2>2. CASE callable # {}
    <3>1. Min(callable) \in callable /\ \A j \in callable : Min(callable) <= j
      BY <1>3, <2>2, LeastNumber
    <3>2. next = Min(callable)
      BY <2>2
    <3> HIDE DEF next
    <3>3. next \in callable /\ \A j \in callable : next <= j
      BY <3>1, <3>2
    <3>4. next \in 1..Len(w.chain)
      BY <1>3, <3>3
    <3>5. QED
      BY <1>2, <2>2, <3>3, <3>4
  <2>3. QED
    BY <2>1, <2>2
<1>5. ASSUME NEW j \in later, w.chain[j] \in registered \cap Handlers
      PROVE  j \in callable
  <2>1. ASSUME NEW i \in later, i < j
        PROVE  w.chain[i] # Last(w.chain)
    BY <1>2, <2>1 DEF NamesDiffer, Last
  <2>2. QED
    BY <1>5, <2>1
<1>6. ASSUME NEW i \in later, i < next
      PROVE  w.chain[i] \in failing \cup missing
  <2>1. i \notin callable
    <3> HIDE DEF callable, next
    <3>1. i \in Nat
      BY <1>3
    <3>2. QED
      BY <1>4, <1>6, <3>1
  <2>2. fails(i) \/ w.chain[i] \notin registered
    BY <1>5, <2>1
  <2>3. QED
    BY <1>6, <2>2
<1>7. failing \subseteq WorkerTools /\ missing \subseteq WorkerTools
  BY <1>2, <1>3
<1> HIDE DEF failing, missing, callable, next, later
<1>8. /\ r.chain = w.chain /\ r.at = next /\ r \in WalkState
      /\ r.tried = w.tried \cup failing /\ r.skipped = w.skipped \cup missing
      /\ r.pc = IF callable = {} THEN "failed" ELSE "calling"
  BY <1>2, <1>4, <1>7 DEF WalkState
<1> HIDE DEF r
<1>9. ASSUME NEW i \in 1..Len(w.chain), i < next
      PROVE  r.chain[i] \in r.tried \cup r.skipped
  <2>1. CASE i <= w.at
    BY <1>2, <1>8, <2>1 DEF Covered
  <2>2. CASE ~(i <= w.at)
    <3>1. i \in later
      BY <1>2, <2>2 DEF later
    <3>2. QED
      BY <1>6, <1>8, <1>9, <3>1
  <2>3. QED
    BY <2>1, <2>2
<1>10. CASE callable = {}
  <2>1. Covered(r, Len(w.chain))
    BY <1>2, <1>4, <1>9, <1>10 DEF Covered
  <2>2. QED
    BY <1>1, <1>8, <1>10, <2>1
<1>11. CASE callable # {}
  <2>1. next \in DOMAIN w.chain
    BY <1>2, <1>3, <1>4, <1>11
  <2>2. Covered(r, next - 1)
    BY <1>2, <1>4, <1>9, <2>1 DEF Covered
  <2>3. QED
    BY <1>1, <1>8, <1>11, <2>1, <2>2
<1>12. QED
  BY <1>10, <1>11
LEMMA ChainsNameOnce ==
  ASSUME NEW tool \in WorkerTools
  PROVE  /\ ResolveFallbackChain(tool) \in Seq(WorkerTools)
         /\ ResolveFallbackChain(tool) # <<>> /\ NamesDiffer(ResolveFallbackChain(tool))
<1> DEFINE rest == WorkerChain[tool]
<1>1. /\ rest \in Seq(WorkerTools \ {tool}) /\ rest \in Seq(WorkerTools) /\ Len(rest) \in Nat
      /\ DOMAIN rest = 1..Len(rest) /\ \A i \in 1..Len(rest) : rest[i] # tool
      /\ NamesDiffer(rest)
  <2>1. /\ rest \in Seq(WorkerTools \ {tool})
        /\ \A i, j \in DOMAIN rest : rest[i] = rest[j] => i = j
    BY WorkerAssumption
  <2> HIDE DEF rest
  <2>2. /\ Len(rest) \in Nat /\ DOMAIN rest = 1..Len(rest)
        /\ \A i \in 1..Len(rest) : rest[i] \in WorkerTools /\ rest[i] # tool
    BY <2>1
  <2>3. rest \in Seq(WorkerTools)
    BY <2>1, <2>2
  <2>4. QED
    BY <2>1, <2>2, <2>3 DEF NamesDiffer
<1> HIDE DEF rest
<1>2. CASE tool \in registered
  <2>1. ResolveFallbackChain(tool) = <<tool>> \o rest
    BY <1>2 DEF ResolveFallbackChain, rest
  <2>2. /\ <<tool>> \o rest \in Seq(WorkerTools) /\ Len(<<tool>> \o rest) = Len(rest) + 1
        /\ DOMAIN (<<tool>> \o rest) = 1..(Len(rest) + 1)
        /\ (<<tool>> \o rest)[1] = tool
        /\ \A i \in 2..(Len(rest) + 1) : (<<tool>> \o rest)[i] = rest[i - 1]
    BY <1>1
  <2>3. \A i \in 2..(Len(rest) + 1) : i - 1 \in DOMAIN rest /\ rest[i - 1] # tool
    BY <1>1
  <2>4. NamesDiffer(<<tool>> \o rest)
    <3> SUFFICES ASSUME NEW i \in 1..(Len(rest) + 1), NEW j \in 1..(Len(rest) + 1),
                        (<<tool>> \o rest)[i] = (<<tool>> \o rest)[j]
                 PROVE  i = j
      BY <2>2 DEF NamesDiffer
    <3>1. CASE i = 1 \/ j = 1
      BY <1>1, <2>2, <2>3, <3>1
    <3>2. CASE i # 1 /\ j # 1
      <4>1. i \in 2..(Len(rest) + 1) /\ j \in 2..(Len(rest) + 1)
        BY <1>1, <3>2
      <4>2. rest[i - 1] = rest[j - 1] /\ i - 1 \in DOMAIN rest /\ j - 1 \in DOMAIN rest
        BY <2>2, <2>3, <4>1
      <4>3. i - 1 = j - 1
        BY <1>1, <4>2 DEF NamesDiffer
      <4>4. QED
        BY <4>1, <4>3
    <3>3. QED
      BY <3>1, <3>2
  <2>5. QED
    BY <1>1, <2>1, <2>2, <2>4
<1>3. CASE tool \notin registered
  BY <1>3 DEF ResolveFallbackChain, NamesDiffer
<1>4. QED
  BY <1>2, <1>3

LEMMA CoveredMeansAll ==
  ASSUME NEW w \in WalkState, Covered(w, Len(w.chain))
  PROVE  ToSet(w.chain) \subseteq w.tried \cup w.skipped
BY DEF WalkState, Covered, ToSet

\* One task moves on.
LEMMA TaskMoves ==
  ASSUME WorkerInv, NEW t \in Tasks, NEW w \in WalkState,
         WalkOK(w), w.pc = "calling" => w.at \in DOMAIN w.chain,
         work' = [work EXCEPT ![t] = w], registered' = registered
  PROVE  WorkerInv'
<1>1. work' \in [Tasks -> WalkState] /\ work'[t] = w /\ \A u \in Tasks : u # t => work'[u] = work[u]
  BY DEF WorkerInv, WorkerTypeOK, WalkState
<1>2. WorkerTypeOK'
  BY <1>1 DEF WorkerInv, WorkerTypeOK, WalkState
<1>3. \A u \in Tasks : WalkOK(work'[u])
  BY <1>1 DEF WorkerInv, WalkInv
<1>4. WalkInv'
  BY <1>3 DEF WalkInv
<1>5. QED
  BY <1>2, <1>4 DEF WorkerInv

LEMMA ExecutingIsSafe ==
  ASSUME WorkerInv, NEW t \in Tasks, work[t].pc \in {"idle", "assessing"}
  PROVE  /\ Executing(t) \in WalkState /\ WalkOK(Executing(t))
         /\ Executing(t).pc = "calling" => Executing(t).at \in DOMAIN Executing(t).chain
<1> DEFINE chain == ResolveFallbackChain(ToolOf[t])
           w == [work[t] EXCEPT !.chain = chain]
<1>1. ToolOf[t] \in WorkerTools
  BY WorkerAssumption
<1>2. chain \in Seq(WorkerTools) /\ chain # <<>> /\ NamesDiffer(chain)
  BY <1>1, ChainsNameOnce
<1> HIDE DEF chain
<1>3. work[t] \in WalkState /\ work[t].at = 0
  BY DEF WorkerInv, WorkerTypeOK, WalkState, WalkInv, WalkOK
<1>4. w \in WalkState /\ w.chain = chain /\ w.at = 0
  BY <1>2, <1>3 DEF WalkState
<1>5. Len(chain) \in Nat /\ Len(chain) > 0
  BY <1>2
<1> HIDE DEF w
<1>6. Covered(w, w.at)
  BY <1>4 DEF Covered
<1>7. Executing(t) = Walked(w)
  BY DEF Executing, w, chain
<1>8. /\ Walked(w) \in WalkState /\ Walked(w).chain = w.chain
      /\ \/ /\ Walked(w).pc = "calling" /\ Walked(w).at \in DOMAIN w.chain
            /\ Covered(Walked(w), Walked(w).at - 1)
         \/ /\ Walked(w).pc = "failed" /\ Covered(Walked(w), Len(w.chain))
  BY <1>2, <1>4, <1>5, <1>6, WalkedCovers
<1>9. QED
  BY <1>2, <1>4, <1>7, <1>8, CoveredMeansAll DEF WalkOK
\* A coroutine that ends without having touched a tool.
LEMMA RejectedIsSafe ==
  ASSUME WorkerInv, NEW t \in Tasks, work[t].pc \in {"idle", "assessing"},
         NEW pc \in {"rejected", "assessing"}
  PROVE  /\ [work[t] EXCEPT !.pc = pc] \in WalkState /\ WalkOK([work[t] EXCEPT !.pc = pc])
         /\ [work[t] EXCEPT !.pc = pc].pc = pc
<1> DEFINE w == [work[t] EXCEPT !.pc = pc]
<1>1. /\ work[t] \in WalkState /\ work[t].at = 0 /\ work[t].tried = {}
  BY DEF WorkerInv, WorkerTypeOK, WalkState, WalkInv, WalkOK
<1>2. w \in WalkState /\ w.pc = pc /\ w.at = 0 /\ w.tried = {}
  BY <1>1 DEF WalkState
<1> HIDE DEF w
<1>3. WalkOK(w)
  BY <1>2 DEF WalkOK
<1>4. QED
  BY <1>2, <1>3 DEF w

LEMMA StartTaskKeeps ==
  ASSUME WorkerInv, NEW t \in Tasks, StartTask(t)
  PROVE  WorkerInv'
<1>1. work[t].pc \in {"idle", "assessing"} /\ registered' = registered
  BY DEF StartTask
<1>2. CASE ToolOf[t] \in registered
  <2>1. work' = [work EXCEPT ![t] = Executing(t)]
    BY <1>2 DEF StartTask
  <2>2. QED
    BY <1>1, <2>1, ExecutingIsSafe, TaskMoves
<1>3. CASE ToolOf[t] \notin registered
  <2>1. work' = [work EXCEPT ![t] = [work[t] EXCEPT !.pc = "rejected"]]
    BY <1>3 DEF StartTask
  <2>2. QED
    BY <1>1, <2>1, RejectedIsSafe, TaskMoves
<1>4. QED
  BY <1>2, <1>3

LEMMA StartAssessmentKeeps ==
  ASSUME WorkerInv, NEW t \in Tasks, StartAssessment(t)
  PROVE  WorkerInv'
<1>1. /\ work[t].pc \in {"idle", "assessing"} /\ registered' = registered
      /\ work' = [work EXCEPT ![t] = [work[t] EXCEPT !.pc = "assessing"]]
  BY DEF StartAssessment
<1>2. QED
  BY <1>1, RejectedIsSafe, TaskMoves

LEMMA AssessedKeeps ==
  ASSUME WorkerInv, NEW t \in Tasks, NEW level, Assessed(t, level)
  PROVE  WorkerInv'
<1>1. work[t].pc \in {"idle", "assessing"} /\ registered' = registered
  BY DEF Assessed
<1>2. CASE level = "CRITICAL"
  <2>1. work' = [work EXCEPT ![t] = [work[t] EXCEPT !.pc = "rejected"]]
    BY <1>2 DEF Assessed
  <2>2. QED
    BY <1>1, <2>1, RejectedIsSafe, TaskMoves
<1>3. CASE level # "CRITICAL"
  <2>1. work' = [work EXCEPT ![t] = Executing(t)]
    BY <1>3 DEF Assessed
  <2>2. QED
    BY <1>1, <2>1, ExecutingIsSafe, TaskMoves
<1>4. QED
  BY <1>2, <1>3

LEMMA ToolSettlesKeeps ==
  ASSUME WorkerInv, NEW t \in Tasks, NEW success \in BOOLEAN, ToolSettles(t, success)
  PROVE  WorkerInv'
<1> DEFINE old == work[t]
           w == [old EXCEPT !.tried = @ \cup {old.chain[old.at]}]
           ended(pc) == [w EXCEPT !.pc = pc]
<1>1. /\ old \in WalkState /\ old.pc = "calling" /\ NamesDiffer(old.chain)
      /\ Covered(old, old.at - 1) /\ old.at \in DOMAIN old.chain
  BY DEF ToolSettles, WorkerInv, WorkerTypeOK, WalkState, WalkInv, WalkOK
<1>2. /\ work' = [work EXCEPT ![t] = IF success THEN ended("succeeded")
                                    ELSE IF w.chain[w.at] = Last(w.chain) THEN ended("failed")
                                    ELSE Walked(w)]
      /\ registered' = registered
  BY DEF ToolSettles
<1> HIDE DEF old
<1>3. /\ old.chain \in Seq(WorkerTools) /\ Len(old.chain) \in Nat
      /\ DOMAIN old.chain = 1..Len(old.chain) /\ old.at \in 1..Len(old.chain)
      /\ old.chain[old.at] \in WorkerTools /\ old.tried \subseteq WorkerTools
  BY <1>1 DEF WalkState
<1>4. /\ w \in WalkState /\ w.chain = old.chain /\ w.at = old.at /\ w.pc = "calling"
      /\ w.tried = old.tried \cup {old.chain[old.at]} /\ w.skipped = old.skipped
  BY <1>1, <1>3 DEF WalkState
<1> HIDE DEF w
<1>5. Covered(w, w.at)
  <2>1. ASSUME NEW i \in 1..w.at
        PROVE  w.chain[i] \in w.tried \cup w.skipped
    <3>1. CASE i = w.at
      BY <1>4, <3>1
    <3>2. CASE i # w.at
      <4>1. i \in 1..(old.at - 1)
        BY <1>3, <1>4, <3>2
      <4>2. QED
        BY <1>1, <1>4, <4>1 DEF Covered
    <3>3. QED
      BY <3>1, <3>2
  <2>2. QED
    BY <2>1 DEF Covered
<1>6. CASE success
  <2>1. ended("succeeded") \in WalkState /\ ended("succeeded").pc = "succeeded"
    BY <1>4 DEF WalkState
  <2> HIDE DEF ended
  <2>2. WalkOK(ended("succeeded"))
    BY <2>1 DEF WalkOK
  <2>3. work' = [work EXCEPT ![t] = ended("succeeded")]
    BY <1>2, <1>6
  <2>4. QED
    BY <1>2, <2>1, <2>2, <2>3, TaskMoves
<1>7. CASE ~success /\ w.chain[w.at] = Last(w.chain)
  <2>1. w.at = Len(w.chain)
    <3>1. Len(w.chain) \in DOMAIN w.chain
      BY <1>3, <1>4
    <3>2. QED
      BY <1>1, <1>4, <1>7, <3>1 DEF NamesDiffer, Last
  <2>2. ToSet(w.chain) \subseteq w.tried \cup w.skipped
    BY <1>4, <1>5, <2>1, CoveredMeansAll
  <2>3. /\ ended("failed") \in WalkState /\ ended("failed").pc = "failed"
        /\ ended("failed").chain = w.chain /\ ended("failed").tried = w.tried
        /\ ended("failed").skipped = w.skipped
    BY <1>4 DEF WalkState
  <2> HIDE DEF ended
  <2>4. WalkOK(ended("failed"))
    BY <2>2, <2>3 DEF WalkOK
  <2>5. work' = [work EXCEPT ![t] = ended("failed")]
    BY <1>2, <1>7
  <2>6. QED
    BY <1>2, <2>3, <2>4, <2>5, TaskMoves
<1>8. CASE ~success /\ w.chain[w.at] # Last(w.chain)
  <2>1. w.at < Len(w.chain)
    BY <1>3, <1>4, <1>8 DEF Last
  <2>2. /\ Walked(w) \in WalkState /\ Walked(w).chain = w.chain
        /\ \/ /\ Walked(w).pc = "calling" /\ Walked(w).at \in DOMAIN w.chain
              /\ Covered(Walked(w), Walked(w).at - 1)
           \/ /\ Walked(w).pc = "failed" /\ Covered(Walked(w), Len(w.chain))
    BY <1>1, <1>4, <1>5, <2>1, WalkedCovers
  <2>3. WalkOK(Walked(w))
    BY <1>1, <1>4, <2>2, CoveredMeansAll DEF WalkOK
  <2>4. work' = [work EXCEPT ![t] = Walked(w)]
    BY <1>2, <1>8
  <2>5. QED
    BY <1>2, <2>2, <2>3, <2>4, TaskMoves
<1>9. QED
  BY <1>6, <1>7, <1>8
-----------------------------------------------------------------------------
(* The agents and the worker together *)

LEMMA Initially ==
  ASSUME Init
  PROVE  IInv
<1>1. RouterInv
  BY RouterInitially DEF Init
<1>2. \A c \in AgentCalls : call[c].pc = "idle"
  BY DEF Init, RouterInit, AgentCalls
<1>3. AgentInv
  BY <1>2 DEF Init, AgentInit, AgentInv, AgentTypeOK, AnswerInv, Methods
<1>4. WorkerInv
  BY DEF Init, WorkerInit, WorkerInv, WorkerTypeOK, WalkInv, WalkOK
<1>5. QED
  BY <1>1, <1>3, <1>4 DEF IInv

LEMMA WorkerStutters ==
  ASSUME WorkerInv, UNCHANGED workerVars
  PROVE  WorkerInv'
<1>1. WorkerTypeOK'
  BY DEF WorkerInv, WorkerTypeOK, workerVars
<1>2. WalkInv'
  BY DEF WorkerInv, WalkInv, WalkOK, workerVars
<1>3. QED
  BY <1>1, <1>2 DEF WorkerInv

LEMMA AgentsKeep ==
  ASSUME IInv, Agents
  PROVE  IInv'
<1>1. WorkerInv'
  BY WorkerStutters DEF IInv, Agents
<1>2. PICK c \in AgentCalls : AgentStep(c) \/ (\E m \in Methods : Ask(c, m))
  BY DEF Agents
<1>3. CASE AgentStep(c)
  BY <1>1, <1>3, AgentStepKeeps DEF IInv
<1>4. CASE \E m \in Methods : Ask(c, m)
  <2>1. PICK m \in Methods : Ask(c, m)
    BY <1>4
  <2>2. RouterInv'
    BY <2>1, CallModelKeeps DEF IInv, Ask, AgentCalls
  <2>3. AgentInv'
    BY <2>1, AskKeeps DEF IInv, RouterInv
  <2>4. QED
    BY <1>1, <2>2, <2>3 DEF IInv
<1>5. QED
  BY <1>2, <1>3, <1>4

\* The worker's calls are not the agents'.
LEMMA OtherCalls ==
  ASSUME RouterTypeOK, NEW c \in Routed, CallModel(c) \/ ModelStep(c)
  PROVE  \A d \in AgentCalls : call'[d] = call[d]
<1>1. CASE CallModel(c) \/ Answers(c)
  BY <1>1 DEF CallModel, Answers, AgentCalls, RouterTypeOK
<1>2. CASE \E retryable \in BOOLEAN : AnswerFails(c, retryable)
  BY <1>2 DEF AnswerFails, AgentCalls, RouterTypeOK
<1>3. CASE Retry(c)
  BY <1>3 DEF Retry, AgentCalls, RouterTypeOK
<1>4. QED
  BY <1>1, <1>2, <1>3 DEF ModelStep

LEMMA WorkersKeep ==
  ASSUME IInv, Workers
  PROVE  IInv'
<1>1. UNCHANGED agentVars /\ RouterTypeOK /\ Routed \subseteq Calls
  BY RouterAssumption DEF IInv, RouterInv, Workers
<1>2. ASSUME \A d \in AgentCalls : call'[d] = call[d]
      PROVE  AgentInv'
  BY <1>1, <1>2, AgentStutters DEF IInv
<1>3. ASSUME UNCHANGED routerVars
      PROVE  RouterInv' /\ AgentInv'
  BY <1>2, <1>3, RouterStutters DEF IInv, routerVars
<1>4. ASSUME NEW t \in Tasks, TaskStep(t)
      PROVE  IInv'
  <2>1. CASE StartTask(t)
    BY <1>3, <2>1, StartTaskKeeps DEF IInv, StartTask
  <2>2. CASE StartAssessment(t)
    <3>1. RiskCallOf[t] \in Routed /\ CallModel(RiskCallOf[t])
      BY <2>2, WorkerAssumption DEF StartAssessment
    <3>2. RouterInv'
      BY <1>1, <3>1, CallModelKeeps DEF IInv
    <3>3. AgentInv'
      BY <1>1, <1>2, <3>1, OtherCalls
    <3>4. QED
      BY <2>2, <3>2, <3>3, StartAssessmentKeeps DEF IInv
  <2>3. CASE \E level \in {"LOW", "MEDIUM", "HIGH", "CRITICAL"} : Assessed(t, level)
    BY <1>3, <2>3, AssessedKeeps DEF IInv, Assessed
  <2>4. CASE \E success \in BOOLEAN : ToolSettles(t, success)
    BY <1>3, <2>4, ToolSettlesKeeps DEF IInv, ToolSettles
  <2>5. QED
    BY <1>4, <2>1, <2>2, <2>3, <2>4 DEF TaskStep
<1>5. ASSUME NEW c \in Routed, ModelStep(c), UNCHANGED workerVars
      PROVE  IInv'
  <2>1. RouterInv'
    BY <1>1, <1>5, ModelStepKeeps DEF IInv
  <2>2. AgentInv'
    BY <1>1, <1>2, <1>5, OtherCalls
  <2>3. WorkerInv'
    BY <1>5, WorkerStutters DEF IInv
  <2>4. QED
    BY <2>1, <2>2, <2>3 DEF IInv
<1>6. ASSUME ResetUsage, UNCHANGED workerVars
      PROVE  IInv'
  <2>1. AgentInv'
    BY <1>2, <1>6 DEF ResetUsage
  <2>2. QED
    BY <1>6, <2>1, ResetKeeps, WorkerStutters DEF IInv
<1>7. ASSUME NEW tool \in WorkerTools, Unregister(tool) \/ RegisterTool(tool), UNCHANGED routerVars
      PROVE  IInv'
  <2>1. work' = work /\ registered' \subseteq WorkerTools
    BY <1>7 DEF Unregister, RegisterTool, IInv, WorkerInv, WorkerTypeOK
  <2>2. WorkerInv'
    BY <2>1 DEF IInv, WorkerInv, WorkerTypeOK, WalkInv, WalkOK
  <2>3. QED
    BY <1>3, <1>7, <2>2 DEF IInv
<1>8. QED
  BY <1>4, <1>5, <1>6, <1>7 DEF Workers

LEMMA Inductive == IInv /\ [Next]_vars => IInv'
<1>1. IInv /\ UNCHANGED vars => IInv'
  BY RouterStutters, AgentStutters, WorkerStutters DEF IInv, vars, routerVars
<1>2. QED
  BY <1>1, AgentsKeep, WorkersKeep DEF Next

LEMMA Invariance == Spec => []IInv
BY Initially, Inductive, PTL DEF Spec

\* Every variable of router, agents and worker stays in its range.
THEOREM TypeCorrect == Spec => []TypeOK
<1>1. IInv => TypeOK
  BY DEF IInv, RouterInv, AgentInv, WorkerInv, TypeOK
<1>2. QED
  BY <1>1, Invariance, PTL

\* RuntimeError comes after the last model, a failed task after the last tool, the usage log
\* counts no call twice, and the methods with a fallback never pass the error on.
THEOREM FailuresAreExhaustive == Spec => []FailureIsExhaustive
<1>1. IInv => RaisedMeansExhausted /\ LogIsTruthful
  BY RouterTellsTheTruth DEF IInv
<1>2. IInv => FallbacksCover
  BY DEF IInv, AgentInv, AnswerInv, FallbacksCover
<1>3. IInv => WorkerExhausted
  BY DEF IInv, WorkerInv, WalkInv, WalkOK, WorkerExhausted
<1>4. IInv => FailureIsExhaustive
  BY <1>1, <1>2, <1>3 DEF FailureIsExhaustive
<1>5. QED
  BY <1>4, Invariance, PTL
=============================================================================
