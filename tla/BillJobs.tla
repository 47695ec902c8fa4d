------------------------------ MODULE BillJobs -------------------------------
(***************************************************************************)
(* A photo of a bill becomes the draft of a receipt: BillJobService, which *)
(* keeps the jobs in the memory of the process, over BillPipelineService,  *)
(* which decides from the text, from a phrase only bills have and from the *)
(* word of a model, which may fail, whether the photo is of a bill.        *)
(***************************************************************************)
EXTENDS Naturals

CONSTANTS
  Jobs,
  TTL,                 \* TTL_MS, in ticks of the clock
  MaxTime, MaxRestarts \* bounds

JobsAssumption == TTL \in Nat /\ MaxTime \in Nat /\ MaxRestarts \in Nat

VARIABLES
  time,
  jobs,     \* the Map of BillJobService, with where the pipeline of each job is
  begun,    \* createdAt of each job, kept when the job is gone
  restarts

vars == <<time, jobs, begun, restarts>>

\* What OCR makes of a photo: no text; too little, or no digit (hardReject); a text of a
\* low score, or of 0.45 and more.  strong: it holds a phrase only bills have.
Photos ==
  {p \in [text : {"none", "little", "low", "high"}, strong : BOOLEAN] :
     p.text = "none" => ~p.strong}
\* The word of the model (receiptValidate): a bill of some confidence, or not; or it fails.
Words == {"bill", "other", "fails"}
Missing == [status |-> "missing"]
Never == MaxTime + 1

Init ==
  /\ time = 0
  /\ jobs = [j \in Jobs |-> Missing]
  /\ begun = [j \in Jobs |-> Never]
  /\ restarts = 0

\* sweep: the jobs past their time.
Swept(j) == jobs[j] # Missing /\ time - begun[j] > TTL

Fails == [status |-> "error"]
\* The pipeline is at a step, with what OCR makes of the photo.
At(step, photo) == [status |-> "processing", step |-> step, photo |-> photo]

\* start: the job is entered, the old ones are swept; the pipeline runs behind it.
Start(j) ==
  /\ begun[j] = Never
  /\ begun' = [begun EXCEPT ![j] = time]
  /\ \E p \in Photos :
       jobs' = [i \in Jobs |->
         IF i = j THEN At("read", p) ELSE IF Swept(i) THEN Missing ELSE jobs[i]]
  /\ UNCHANGED <<time, restarts>>

\* The pipeline of job j takes a step that ends in one of these entries.  One whose job
\* was swept runs on unheard, and is left out.
Runs(j, step, entries) ==
  /\ jobs[j].status = "processing" /\ jobs[j].step = step
  /\ \E e \in entries : jobs' = [jobs EXCEPT ![j] = e]
  /\ UNCHANGED <<time, begun, restarts>>

\* Hard reject, unless the text holds a strong phrase.
Unreadable(photo) == photo.text = "none" \/ (photo.text = "little" /\ ~photo.strong)

\* extractText, quickReceiptHeuristic and detectStrongReceiptSignal.
ReadText(j) ==
  Runs(j, "read",
       {IF Unreadable(jobs[j].photo) THEN Fails ELSE At("judge", jobs[j].photo)})

\* The gate: the word of the model, for which any strong phrase stands in when the model
\* fails; or a strong phrase in a text of a high score.
Passes(photo, word) ==
  \/ word = "bill"
  \/ photo.strong /\ (word = "fails" \/ photo.text = "high")

Judge(j) ==
  Runs(j, "judge",
       {IF Passes(jobs[j].photo, w) THEN At("structure", jobs[j].photo) ELSE Fails : w \in Words})

\* receiptStructure; a bill whose date was not read is dated today.
Structure(j) ==
  Runs(j, "structure", {Fails} \cup {[status |-> "done", date |-> d] : d \in {"read", "today"}})

Tick ==
  /\ time < MaxTime /\ time' = time + 1
  /\ UNCHANGED <<jobs, begun, restarts>>

Restart ==
  /\ restarts < MaxRestarts /\ restarts' = restarts + 1
  /\ jobs' = [j \in Jobs |-> Missing]
  /\ UNCHANGED <<time, begun>>

Next ==
  \/ \E j \in Jobs : Start(j) \/ ReadText(j) \/ Judge(j) \/ Structure(j)
  \/ Tick \/ Restart

Spec == Init /\ [][Next]_vars

-----------------------------------------------------------------------------
\* The jobs are well formed.
TypeOK ==
  /\ time \in 0..MaxTime /\ begun \in [Jobs -> 0..Never]
  /\ \A j \in Jobs :
       /\ jobs[j].status \in {"missing", "processing", "done", "error"}
       /\ jobs[j].status = "processing" =>
            jobs[j].step \in {"read", "judge", "structure"} /\ jobs[j].photo \in Photos
  /\ restarts \in 0..MaxRestarts
=============================================================================
